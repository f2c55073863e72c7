----------------------------- MODULE MCApprover -----------------------------
(* Instances of Approver for TLC: two calls and a text message channel. *)
EXTENDS Approver, TLC

CONSTANTS c1, c2, t1, t2, a1, a2, a3, a4

\* Two SIM cards: the second call has an account of its own. The protocol of the
\* last account, which has a text channel, is not supported.
SecondSim ==
  [o \in Ops |-> CASE o = c1 -> a1 [] o = c2 -> a2 [] o = t1 -> a3 [] o = t2 -> a4]

\* One SIM card: one account for everything.
OneAccount == [o \in Ops |-> a1]
=============================================================================
