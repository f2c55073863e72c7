------------------------------ MODULE MCCalls ------------------------------
(***************************************************************************)
(* The two parts of the handler's CallHandler side by side: the list of    *)
(* calls with its tones (CallHandler), and the queue of DTMF keys of one   *)
(* call (DTMFQueue).  They share no state, so a behaviour is about one of  *)
(* the two while the other stays in its initial state.                     *)
(***************************************************************************)
EXTENDS CallHandler, DTMFQueue

CONSTANTS in1, out1, audio1

VARIABLE subject

mcInit == subject \in {"calls", "dtmf"} /\ Init /\ DTMFInit

mcNext ==
    /\ UNCHANGED subject
    /\ \/ subject = "calls" /\ Next /\ UNCHANGED dtmfVars
       \/ subject = "dtmf" /\ DTMFNext /\ UNCHANGED vars

mcSpec == mcInit /\ [][mcNext]_<<vars, dtmfVars, subject>> /\ Fairness
=============================================================================
