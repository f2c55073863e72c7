------------------------------ MODULE MCLibrary ------------------------------
(***************************************************************************)
(* Two parts of libtelephonyservice side by side: the accounts of          *)
(* TelepathyHelper (Accounts) and the call entries of CallManager          *)
(* (CallEntries).  The entries never look at the state of an account, so a *)
(* behaviour is about one of the two while the other stays in one initial  *)
(* state.                                                                  *)
(***************************************************************************)
EXTENDS Accounts, CallEntries

CONSTANTS sim1, voip, in1, out1, conf

VARIABLE subject

mcOrder == <<sim1, voip>>

\* A setting that names a SIM that is gone has the effect of "ask".
mcSettings == {sim1, "unset"}

\* Only the SIM card reconnects.
mcMaxConns == (sim1 :> 2) @@ (voip :> 1)

mcInit ==
    /\ subject \in {"accounts", "entries"}
    /\ AccountsInit /\ Init
    /\ subject = "entries" =>
         /\ valid = {} /\ count = [a \in Sims |-> 0]
         /\ calls = "unset" /\ messages = "unset"

mcNext ==
    /\ UNCHANGED subject
    /\ \/ subject = "accounts" /\ AccountsNext /\ UNCHANGED vars
       \/ subject = "entries" /\ Next /\ UNCHANGED accountsVars

mcSpec ==
    /\ mcInit
    /\ [][mcNext]_<<accountsVars, vars, subject>>
    /\ WF_accountsVars(subject = "accounts" /\ ProcessEvent)
    /\ \A c \in Channels : WF_vars(subject = "entries" /\ CallChannelReady(c))
=============================================================================
