------------------------------ MODULE MCPrompts ------------------------------
(***************************************************************************)
(* What asks the user something, side by side: the approver's prompt for   *)
(* incoming calls (Approver) and the indicator's dialogs of USSD and of    *)
(* accounts that cannot log in (Dialogs).  They are two processes that     *)
(* share no state, so a behaviour is about one of the two while the other  *)
(* stays in one initial state.                                             *)
(***************************************************************************)
EXTENDS MCApprover, Dialogs

CONSTANTS sim1, sim2, xmpp

VARIABLE subject

\* The first call is offered in any state, the second one while it comes in.
SecondComesIn == callState[c2] = "initialised"

mcInit ==
    /\ subject \in {"approver", "dialogs"} /\ Init /\ DialogsInit /\ SecondComesIn
    /\ subject = "dialogs" => ~greeterMode /\ \A c \in Calls : callState[c] = "initialised"

mcNext ==
    /\ UNCHANGED subject
    /\ \/ subject = "approver" /\ Next /\ UNCHANGED dialogsVars
       \/ subject = "dialogs" /\ DialogsNext /\ UNCHANGED vars

mcSpec == mcInit /\ [][mcNext]_<<vars, dialogsVars, subject>> /\ Fairness
=============================================================================
