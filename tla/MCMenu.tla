------------------------------- MODULE MCMenu -------------------------------
(***************************************************************************)
(* The two halves of the indicator's messaging menu side by side: text     *)
(* messages (MessageNotices) and missed calls with voicemail               *)
(* (MissedCalls).  Their items have different ids and their handlers       *)
(* different state, so a behaviour is about one of the two while the other *)
(* stays in its initial state.                                             *)
(*                                                                         *)
(* Two calls come from a person whose number is written in two ways, one   *)
(* from a hidden number, on one SIM card.                                  *)
(***************************************************************************)
EXTENDS MessageNotices, MissedCalls

CONSTANTS sms, chat, flash, group,
          c1, c2, c3, local, full, private, sim1

VARIABLE subject

mcCall ==
    c1 :> [caller |-> local, account |-> sim1, incoming |-> TRUE] @@
    c2 :> [caller |-> full, account |-> sim1, incoming |-> TRUE] @@
    c3 :> [caller |-> private, account |-> sim1, incoming |-> TRUE]

mcPerson == local :> local @@ full :> local @@ private :> private

mcInit ==
    /\ subject \in {"messages", "calls"} /\ Init /\ MissedInit
    /\ subject = "calls" => ~greeter /\ unsigned = {}

mcNext ==
    /\ UNCHANGED subject
    /\ \/ subject = "messages" /\ Next /\ UNCHANGED missedVars
       \/ subject = "calls" /\ MissedNext /\ UNCHANGED vars

mcSpec == mcInit /\ [][mcNext]_<<vars, missedVars, subject>> /\ Fairness
=============================================================================
