--------------------------- MODULE MCMessageJobs ---------------------------
(* Instances of MessageJobs for TLC. *)
EXTENDS MessageJobs

CONSTANTS m1, m2, im, sim

To(a, k) == [account |-> a, kind |-> k]

\* The first message is for the phone account, which the other account may
\* take over; the second for a room or for what cannot be reached.
TwoMessages ==
  [j \in Jobs |-> IF j = m1 THEN {To(sim, "chat")}
                  ELSE {To(sim, "room"), To(None, "chat"), To(im, "nobody"), To(im, "other")}]
Overloaded == [a \in Accounts |-> IF a = sim THEN <<im>> ELSE <<>>]

\* The first message has a text and an attachment.
TwoAndOne == [j \in Jobs |-> IF j = m1 THEN 2 ELSE 1]

\* The second message may be sent twice.
RunTwice == [j \in Jobs |-> IF j = m2 THEN 2 ELSE 1]

\* A text message for an account that nothing overloads.
OneMessage == [j \in Jobs |-> {To(im, "chat")}]
Twice == [j \in Jobs |-> 2]
NoOverload == [a \in Accounts |-> <<>>]
=============================================================================
