------------------------------ MODULE MCChats ------------------------------
(***************************************************************************)
(* A conversation (Chats) and, side by side with it, the list of its       *)
(* people in QML (Participants).  The list hears of those who come and go  *)
(* and of nothing else, so a behaviour is about one of the two while the   *)
(* other stays in one initial state.                                       *)
(*                                                                         *)
(* Two of the people have a number and no name, and are not ordered.       *)
(***************************************************************************)
EXTENDS Chats, Participants, TLC

CONSTANTS irc, xmpp, c1, c2, c3, r1, r2, p, m1, m2, j1,
          e1, e2, p1, p2, p3, p4, ann, bob, num

VARIABLE subject

\* Two channels of the entry's account, and one of another on which the first of
\* two rooms is, too.
OnTwoAccounts == [c \in Channels |-> IF c = c3 THEN xmpp ELSE irc]
OfTwoRooms == [c \in Channels |-> IF c = c2 THEN r2 ELSE r1]
\* A message in each channel of that account.
InBoth == [m \in Messages |-> IF m = m1 THEN c1 ELSE c2]

\* What there is in a behaviour: two channels on one account, or one on each of
\* two accounts, where nobody reads.
Present ==
    CASE subject = "account" -> open \subseteq {c1, c2} /\ active \subseteq {irc} /\ chatType # "none"
      [] subject = "accounts" -> open \subseteq {c1, c3} /\ user = "writes"
      [] OTHER -> active = {}

mcIdentifier == (p1 :> ann) @@ (p2 :> bob) @@ (p3 :> num) @@ (p4 :> num)
mcPlace == (ann :> 1) @@ (bob :> 2)

mcInit ==
    /\ subject \in {"account", "accounts", "participants"}
    /\ Init /\ ParticipantsInit
    /\ Present /\ mChatId # r2
    /\ subject = "participants" => user = "writes" /\ chatType = "room"

mcNext ==
    /\ UNCHANGED subject
    /\ \/ subject # "participants" /\ Next /\ Present' /\ UNCHANGED participantsVars
       \/ subject = "participants" /\ ParticipantsNext /\ UNCHANGED vars

mcSpec == mcInit /\ [][mcNext]_<<vars, participantsVars, subject>> /\ Fairness
=============================================================================
