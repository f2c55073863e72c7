------------------------- MODULE MenuProofs -------------------------
(***************************************************************************)
(* Theorems about the messaging menu of the indicator: text messages       *)
(* (MessageNotices) and missed calls (MissedCalls), which share no state.  *)
(***************************************************************************)
EXTENDS MessageNotices, MissedCalls, SequenceLemmas

-----------------------------------------------------------------------------
(***************************************************************************)
(* Theorems about MessageNotices.  A message passes from its timer to the  *)
(* contact request of the observer and on to the one of the menu; the      *)
(* invariant says where it may be at a time (Stages), that what the        *)
(* indicator holds as unread or keeps data for was not read (Unread), and  *)
(* that the greeter never waits for a contact.                             *)
(***************************************************************************)

(* A message has been received, on a channel that is known, before it has a *)
(* timer, a contact request, or data.                                       *)
Stages ==
  /\ \A m \in timers \cup fetches \cup menuFetches \cup mUnreadMessages :
       inbox[m] # "none" /\ channel[m] # "new"
  /\ \A m \in mMessages : m \in Messages => channel[m] # "new"

Unread ==
  /\ menu \subseteq mMessages
  /\ \A m \in mUnreadMessages \cup (mMessages \cap Messages) :
       channel[m] = "observed" => inbox[m] = "pending"

GreeterDoesNotWait == greeter => fetches = {}

IInv == TypeOK /\ Stages /\ Unread /\ GreeterDoesNotWait

LEMMA InitIInv == Init => IInv
  BY MessagesAssumption DEF Init, IInv, TypeOK, Stages, Unread, GreeterDoesNotWait

(* What showing a message changes: its data and its item, or its item's     *)
(* contact request.                                                         *)
LEMMA ShowMessageStep ==
  ASSUME NEW m \in Messages, IInv, m \notin fetches', m \notin timers', m \in timers \cup fetches,
         m \in mUnreadMessages \/ ~greeter, fetches' \subseteq fetches, timers' \subseteq timers,
         ShowMessage(m), UNCHANGED <<inbox, channel, mUnreadMessages, account, idle>>
  PROVE  IInv'
  <1>0. fetches' \subseteq Messages \ Direct /\ timers' \subseteq Messages
    BY DEF IInv, TypeOK
  <1>1. CASE ~ToShow(m)
    BY <1>0, <1>1 DEF ShowMessage, menuVars, idle, mode, IInv, TypeOK, Stages, Unread, GreeterDoesNotWait
  <1>2. CASE ToShow(m)
    <2>1. m \in mUnreadMessages
      BY <1>2 DEF ToShow
    <2>2. mNotifications' = mNotifications \cup {Notice("message", m)}
      BY <1>2 DEF ShowMessage
    <2>3. \A n \in mNotifications' : n.kind \in Kinds /\ n.message \in Messages \cup Groups
      BY <2>2 DEF IInv, TypeOK, Notice, Kinds
    <2>4. /\ mMessages' \subseteq mMessages \cup {m} /\ mMessages \subseteq mMessages'
          /\ menu' \subseteq mMessages' /\ menu' \subseteq menu \cup {m}
          /\ menuFetches' \subseteq menuFetches \cup ({m} \ Direct)
      BY <1>2 DEF ShowMessage, AddMessage, menuVars, IInv, Unread
    <2>5. TypeOK'
      BY <1>0, <2>3, <2>4 DEF IInv, TypeOK, idle, mode
    <2>6. Stages'
      BY <2>1, <2>4 DEF IInv, TypeOK, Stages, idle, mode
    <2>7. Unread' /\ GreeterDoesNotWait'
      BY <2>1, <2>4 DEF IInv, TypeOK, Unread, GreeterDoesNotWait, idle, mode
    <2> QED BY <2>5, <2>6, <2>7 DEF IInv
  <1> QED BY <1>1, <1>2

LEMMA ChannelStep ==
  ASSUME NEW m \in Messages, IInv, TextChannelAvailable(m)
  PROVE  IInv'
  <1>0. channel[m] = "new" /\ channel' = [channel EXCEPT ![m] = "observed"] /\ UNCHANGED inbox
    BY DEF TextChannelAvailable
  <1>1. m \notin timers \cup fetches \cup menuFetches \cup mUnreadMessages \cup mMessages
    BY <1>0 DEF IInv, Stages
  <1> DEFINE ms == {x \in {m} : inbox[x] = "pending"}
  <1>2. UNCHANGED <<inbox, fetches, menuFetches, account, idle>>
    BY DEF TextChannelAvailable, ShowFlash, AddFlashMessages, menuVars
  <1>3. /\ mUnreadMessages' \subseteq mUnreadMessages \cup (ms \ (Quiet \cup Flash))
        /\ timers' \subseteq timers \cup ms
    BY DEF TextChannelAvailable, Process
  <1>4. /\ mMessages' \subseteq mMessages \cup ms
        /\ menu' \subseteq mMessages'
        /\ mNotifications' \subseteq mNotifications \cup {Notice("flash", x) : x \in ms}
    BY DEF TextChannelAvailable, ShowFlash, AddFlashMessages, menuVars, IInv, Unread
  <1>5. channel' \in [Messages -> {"new", "observed", "closed"}]
    BY <1>0 DEF IInv, TypeOK
  <1>6. \A n \in mNotifications' : n.kind \in Kinds /\ n.message \in Messages \cup Groups
    BY <1>4 DEF IInv, TypeOK, Notice, Kinds
  <1>7. TypeOK'
    BY <1>1, <1>2, <1>3, <1>4, <1>5, <1>6 DEF IInv, TypeOK, idle, mode
  <1>8. Stages'
    BY <1>0, <1>1, <1>2, <1>3, <1>4 DEF IInv, TypeOK, Stages
  <1>9. Unread' /\ GreeterDoesNotWait'
    BY <1>0, <1>1, <1>2, <1>3, <1>4 DEF IInv, TypeOK, Unread, GreeterDoesNotWait, idle, mode
  <1> QED BY <1>7, <1>8, <1>9 DEF IInv

LEMMA MessageStep ==
  ASSUME NEW m \in Messages, IInv, MessageReceived(m)
  PROVE  IInv'
  <1>0. /\ inbox[m] = "none" /\ inbox' = [inbox EXCEPT ![m] = "pending"]
        /\ UNCHANGED <<channel, fetches, account, idle>>
    BY DEF MessageReceived
  <1>1. m \notin timers \cup fetches \cup menuFetches \cup mUnreadMessages
    BY <1>0 DEF IInv, Stages
  <1>2. /\ mUnreadMessages' \subseteq mUnreadMessages \cup {m}
        /\ timers' \subseteq timers \cup {m}
        /\ mMessages' \subseteq mMessages \cup {m}
        /\ menu' \subseteq mMessages'
        /\ mNotifications' \subseteq mNotifications \cup {Notice("flash", m)}
        /\ UNCHANGED menuFetches
    BY DEF MessageReceived, Process, ShowFlash, AddFlashMessages, menuVars, IInv, Unread
  <1>3. m \in mUnreadMessages' => m \notin Quiet \cup Flash /\ channel[m] # "new"
    BY <1>1 DEF MessageReceived, Process, IInv, TypeOK
  <1>4. m \in mMessages' => m \in mMessages \/ channel[m] # "new"
    BY DEF MessageReceived, menuVars
  <1>5. m \in timers' => channel[m] # "new"
    BY <1>1 DEF MessageReceived
  <1>6. inbox' \in [Messages -> {"none", "pending", "read"}]
    BY <1>0 DEF IInv, TypeOK
  <1>7. \A n \in mNotifications' : n.kind \in Kinds /\ n.message \in Messages \cup Groups
    BY <1>2 DEF IInv, TypeOK, Notice, Kinds
  <1>8. TypeOK'
    BY <1>0, <1>1, <1>2, <1>3, <1>6, <1>7 DEF IInv, TypeOK, idle, mode
  <1>9. Stages'
    BY <1>0, <1>1, <1>2, <1>3, <1>4, <1>5 DEF IInv, TypeOK, Stages
  <1>10. Unread' /\ GreeterDoesNotWait'
    BY <1>0, <1>1, <1>2 DEF IInv, TypeOK, Unread, GreeterDoesNotWait, idle, mode
  <1> QED BY <1>8, <1>9, <1>10 DEF IInv

LEMMA ReadStep ==
  ASSUME NEW m \in Messages, IInv, PendingMessageRemoved(m)
  PROVE  IInv'
  <1>0. /\ inbox' = [inbox EXCEPT ![m] = "read"]
        /\ UNCHANGED <<channel, timers, fetches, mNotifications, menuFetches, account, idle>>
    BY DEF PendingMessageRemoved, waits
  <1>1. /\ mUnreadMessages' \subseteq mUnreadMessages
        /\ mMessages' \subseteq mMessages /\ menu' \subseteq mMessages'
        /\ channel[m] = "observed" => m \notin mUnreadMessages' \cup mMessages'
    BY DEF PendingMessageRemoved, RemoveMessage, IInv, Unread
  <1>2. TypeOK'
    BY <1>0, <1>1 DEF IInv, TypeOK, idle, mode
  <1>3. Stages'
    BY <1>0, <1>1 DEF IInv, TypeOK, Stages
  <1>4. Unread' /\ GreeterDoesNotWait'
    BY <1>0, <1>1 DEF IInv, TypeOK, Unread, GreeterDoesNotWait, idle, mode
  <1> QED BY <1>2, <1>3, <1>4 DEF IInv

LEMMA TimerStep ==
  ASSUME NEW m \in Messages, IInv, TimerTimeout(m)
  PROVE  IInv'
  <1>0. /\ m \in timers /\ timers' = timers \ {m} /\ m \notin fetches
        /\ UNCHANGED <<inbox, channel, mUnreadMessages, account, idle>>
    BY DEF TimerTimeout, IInv, TypeOK
  <1>1. CASE UNCHANGED <<fetches, menuVars, mNotifications>>
    BY <1>0, <1>1 DEF IInv, TypeOK, Stages, Unread, GreeterDoesNotWait, menuVars, idle, mode
  <1>2. CASE m \in mUnreadMessages /\ LooksUp(m) /\ fetches' = fetches \cup {m}
             /\ UNCHANGED <<menuVars, mNotifications>>
    BY <1>0, <1>2 DEF IInv, TypeOK, Stages, Unread, GreeterDoesNotWait, menuVars, idle, mode, LooksUp
  <1>3. CASE m \in mUnreadMessages /\ ShowMessage(m) /\ UNCHANGED fetches
    BY <1>0, <1>3, ShowMessageStep
  <1> QED BY <1>1, <1>2, <1>3 DEF TimerTimeout

LEMMA FetchStep ==
  ASSUME NEW m \in Messages, IInv, ContactFetched(m)
  PROVE  IInv'
  <1>1. ~greeter /\ m \notin timers
    BY DEF ContactFetched, IInv, TypeOK, GreeterDoesNotWait
  <1> QED BY <1>1, ShowMessageStep DEF ContactFetched

LEMMA MenuStep ==
  ASSUME NEW m \in Messages, IInv, MenuContactFetched(m)
  PROVE  IInv'
  BY DEF MenuContactFetched, StillThere, waits, idle, mode, IInv, TypeOK, Stages, Unread, GreeterDoesNotWait

LEMMA InvalidatedStep ==
  ASSUME NEW m \in Messages, IInv, TextChannelInvalidated(m)
  PROVE  IInv'
  BY DEF TextChannelInvalidated, menuVars, waits, idle, mode, IInv, TypeOK, Stages, Unread, GreeterDoesNotWait

LEMMA GroupStep ==
  ASSUME NEW g \in Groups, IInv, NewGroup(g)
  PROVE  IInv'
  <1>1. /\ mMessages' \subseteq mMessages \cup {g} /\ menu' \subseteq mMessages'
        /\ mNotifications' = mNotifications \cup {Notice("group", g)}
        /\ UNCHANGED <<inbox, channel, mUnreadMessages, timers, fetches, menuFetches, account, greeter, unsigned>>
        /\ events' \in 0 .. MaxEvents
    BY MessagesAssumption
       DEF NewGroup, AddFlashMessages, menuVars, waits, mode, IInv, TypeOK, Unread
  <1>2. \A n \in mNotifications' : n.kind \in Kinds /\ n.message \in Messages \cup Groups
    BY <1>1 DEF IInv, TypeOK, Notice, Kinds
  <1> QED BY <1>1, <1>2, MessagesAssumption
          DEF IInv, TypeOK, Stages, Unread, GreeterDoesNotWait

(* What the user and the account do changes the notifications, and takes    *)
(* items out of the menu.                                                   *)
LEMMA UserStep ==
  ASSUME IInv,
         menu' \subseteq menu, account' \in {"connected", "offline", "removed"},
         events' \in 0 .. MaxEvents,
         \A n \in mNotifications' : n.kind \in Kinds /\ n.message \in Messages \cup Groups,
         UNCHANGED <<inbox, channel, mUnreadMessages, timers, fetches, mMessages, menuFetches, greeter, unsigned>>
  PROVE  IInv'
  BY DEF IInv, TypeOK, Stages, Unread, GreeterDoesNotWait

LEMMA ActivateStep ==
  ASSUME NEW m \in Messages \cup Groups, IInv, ActivateItem(m)
  PROVE  IInv'
  <1>1. mNotifications' \subseteq mNotifications \cup {Notice("failed", m), Notice("sim", m)}
    BY DEF ActivateItem, SendMessage
  <1>2. \A n \in mNotifications' : n.kind \in Kinds /\ n.message \in Messages \cup Groups
    BY <1>1 DEF IInv, TypeOK, Notice, Kinds
  <1>3. events' \in 0 .. MaxEvents
    BY MessagesAssumption DEF ActivateItem, IInv, TypeOK
  <1> QED BY <1>2, <1>3, UserStep DEF ActivateItem, waits, mode, IInv, TypeOK

LEMMA SelectStep ==
  ASSUME NEW m \in Messages \cup Groups, IInv, SelectSim(m)
  PROVE  IInv'
  <1>1. mNotifications' \subseteq mNotifications \cup {Notice("failed", m)}
    BY DEF SelectSim, SendMessage
  <1>2. \A n \in mNotifications' : n.kind \in Kinds /\ n.message \in Messages \cup Groups
    BY <1>1 DEF IInv, TypeOK, Notice, Kinds
  <1> QED BY <1>2, UserStep DEF SelectSim, waits, menuVars, idle, mode, IInv, TypeOK

LEMMA StepIInv == IInv /\ [Next]_vars => IInv'
  <1> SUFFICES ASSUME IInv, [Next]_vars PROVE IInv'
    OBVIOUS
  <1>1. ASSUME NEW m \in Messages,
               \/ TextChannelAvailable(m) \/ TextChannelInvalidated(m)
               \/ MessageReceived(m) \/ PendingMessageRemoved(m)
               \/ TimerTimeout(m) \/ ContactFetched(m) \/ MenuContactFetched(m)
        PROVE  IInv'
    BY <1>1, ChannelStep, InvalidatedStep, MessageStep, ReadStep, TimerStep, FetchStep, MenuStep
  <1>2. ASSUME NEW g \in Groups, NewGroup(g) PROVE IInv'
    BY <1>2, GroupStep
  <1>3. ASSUME NEW m \in Messages \cup Groups, ActivateItem(m) \/ SelectSim(m) PROVE IInv'
    BY <1>3, ActivateStep, SelectStep
  <1>4. ASSUME NEW n \in mNotifications, NotificationClosed(n) PROVE IInv'
    BY <1>4, UserStep DEF NotificationClosed, waits, menuVars, idle, mode, IInv, TypeOK
  <1>5. CASE AccountChanged
    BY <1>5, UserStep DEF AccountChanged, waits, menuVars, idle, mode, IInv, TypeOK
  <1>6. CASE UNCHANGED vars
    BY <1>6, UserStep DEF vars, IInv, TypeOK
  <1> QED BY <1>1, <1>2, <1>3, <1>4, <1>5, <1>6 DEF Next

LEMMA AlwaysIInv == Spec => []IInv
  BY InitIInv, StepIInv, PTL DEF Spec

(* Every reachable state is well typed: a message is at one stage at a time. *)
THEOREM TypeCorrect == Spec => []TypeOK
  <1>1. IInv => TypeOK
    BY DEF IInv
  <1> QED BY AlwaysIInv, <1>1, PTL

(* A message that was read has no item in the menu, however long its timer  *)
(* and its two contact requests take, for any number of messages.           *)
THEOREM ReadMessagesLeave == Spec => []ReadLeavesMenu
  <1>1. IInv => ReadLeavesMenu
    BY DEF IInv, Unread, ReadLeavesMenu
  <1> QED BY AlwaysIInv, <1>1, PTL

(* Only showNotificationForMessage() puts up a notification of a message.   *)
LEMMA AnnouncedStep ==
  ASSUME IInv, Next, NEW m \in Messages,
         Notice("message", m) \in mNotifications' \ mNotifications,
         channel[m] = "observed"
  PROVE  inbox[m] = "pending"
  <1>1. ASSUME NEW x \in Messages, ShowMessage(x), x \in mUnreadMessages \/ ~greeter
        PROVE  inbox[m] = "pending"
    BY <1>1 DEF ShowMessage, ToShow, Notice, IInv, Unread
  <1>2. ASSUME NEW x \in Messages, TextChannelAvailable(x) \/ MessageReceived(x) PROVE FALSE
    BY <1>2 DEF TextChannelAvailable, MessageReceived, ShowFlash, Notice
  <1>3. ASSUME NEW x \in Messages,
               TextChannelInvalidated(x) \/ PendingMessageRemoved(x) \/ MenuContactFetched(x)
        PROVE  FALSE
    BY <1>3 DEF TextChannelInvalidated, PendingMessageRemoved, MenuContactFetched
  <1>4. ASSUME NEW x \in Messages, TimerTimeout(x) PROVE inbox[m] = "pending"
    BY <1>1, <1>4 DEF TimerTimeout
  <1>5. ASSUME NEW x \in Messages, ContactFetched(x) PROVE inbox[m] = "pending"
    BY <1>1, <1>5 DEF ContactFetched, IInv, GreeterDoesNotWait
  <1>6. ASSUME NEW x \in Messages \cup Groups, ActivateItem(x) \/ SelectSim(x) PROVE FALSE
    BY <1>6 DEF ActivateItem, SelectSim, SendMessage, Notice
  <1>7. ASSUME NEW g \in Groups, NewGroup(g) PROVE FALSE
    BY <1>7 DEF NewGroup, Notice
  <1>8. ASSUME NEW n \in mNotifications, NotificationClosed(n) PROVE FALSE
    BY <1>8 DEF NotificationClosed
  <1>9. CASE AccountChanged
    BY <1>9 DEF AccountChanged
  <1> QED BY <1>2, <1>3, <1>4, <1>5, <1>6, <1>7, <1>8, <1>9 DEF Next

(* Nobody is told of a message that was read already.                       *)
THEOREM ReadMessagesAreNotAnnounced == Spec => NotifiedWasUnread
  <1>1. IInv /\ [Next]_vars =>
          [\A m \in Messages : /\ Notice("message", m) \in mNotifications' \ mNotifications
                               /\ channel[m] = "observed"
                               => inbox[m] = "pending"]_vars
    BY AnnouncedStep
  <1> QED BY AlwaysIInv, <1>1, PTL DEF Spec, NotifiedWasUnread

-----------------------------------------------------------------------------
(***************************************************************************)
(* Missed calls are counted once.  The sum over the entries of a person is *)
(* what each step keeps; removeOne() takes out the entry that the loop     *)
(* found, because the entries of somebody who calls on one account have    *)
(* that account.                                                           *)
(***************************************************************************)

\* An entry is about somebody who called on its account.
Real == {e \in [target : Callers, account : Accounts, count : Nat] :
           \E c \in Calls : Call[c].caller = e.target /\ Call[c].account = e.account}

\* What an entry counts for.
Weight(e, p) == IF Person[e.target] = p THEN e.count ELSE 0

LEMMA CountsAre ==
  ASSUME NEW s \in Seq(Real), NEW p
  PROVE  /\ Counts(s, p) \in Seq(Nat) /\ Len(Counts(s, p)) = Len(s) /\ Len(s) \in Nat
         /\ \A i \in 1 .. Len(s) : Counts(s, p)[i] = Weight(s[i], p) /\ s[i] \in Real
         /\ Total(Counts(s, p)) \in Nat
<1>1. Len(s) \in Nat /\ \A i \in 1 .. Len(s) : s[i] \in Real
  BY LenProperties, ElementOfSeq
<1>2. \A i \in 1 .. Len(s) : Weight(s[i], p) \in Nat
  BY <1>1 DEF Weight, Real
<1> DEFINE w == [i \in 1 .. Len(s) |-> Weight(s[i], p)]
<1>3. Counts(s, p) = w
  BY DEF Counts, Weight
<1>4. w \in [1 .. Len(s) -> Nat] /\ \A i \in 1 .. Len(s) : w[i] = Weight(s[i], p)
  BY <1>2
<1> HIDE DEF w
<1>5. w \in Seq(Nat) /\ Len(w) = Len(s)
  BY <1>1, <1>4
<1>6. Total(w) \in Nat
  BY <1>5, TotalType
<1> QED
  BY <1>1, <1>3, <1>4, <1>5, <1>6

LEMMA CountsAppend ==
  ASSUME NEW s \in Seq(Real), NEW e \in Real, NEW p
  PROVE  /\ Append(s, e) \in Seq(Real)
         /\ Total(Counts(Append(s, e), p)) = Total(Counts(s, p)) + Weight(e, p)
<1> DEFINE t == Append(s, e)
           a == Counts(t, p)
           b == Append(Counts(s, p), Weight(e, p))
<1>1. /\ t \in Seq(Real) /\ Len(t) = Len(s) + 1 /\ t[Len(s) + 1] = e
      /\ \A i \in 1 .. Len(s) : t[i] = s[i]
  BY AppendProperties
<1> HIDE DEF t
<1>2. a \in Seq(Nat) /\ Len(a) = Len(s) + 1 /\ \A i \in 1 .. Len(s) + 1 : a[i] = Weight(t[i], p)
  BY <1>1, CountsAre
<1>3. Weight(e, p) \in Nat
  BY DEF Weight, Real
<1>4. /\ Counts(s, p) \in Seq(Nat) /\ Len(Counts(s, p)) = Len(s) /\ Len(s) \in Nat
      /\ \A i \in 1 .. Len(s) : Counts(s, p)[i] = Weight(s[i], p)
  BY CountsAre
<1>5. /\ b \in Seq(Nat) /\ Len(b) = Len(s) + 1 /\ b[Len(s) + 1] = Weight(e, p)
      /\ \A i \in 1 .. Len(s) : b[i] = Weight(s[i], p)
  BY <1>3, <1>4, AppendProperties
<1>6. Total(b) = Total(Counts(s, p)) + Weight(e, p)
  BY <1>3, <1>4, TotalAppend
<1> HIDE DEF a, b
<1>7. \A i \in 1 .. Len(s) + 1 : a[i] = b[i]
  <2> TAKE i \in 1 .. Len(s) + 1
  <2>1. i \in 1 .. Len(s) \/ i = Len(s) + 1
    BY <1>4
  <2> QED
    BY <1>1, <1>2, <1>5, <2>1
<1>8. a = b
  BY <1>2, <1>5, <1>7, SeqEqual
<1> QED
  BY <1>1, <1>6, <1>8 DEF a, t

LEMMA CountsRemove ==
  ASSUME NEW s \in Seq(Real), NEW k \in 1 .. Len(s), NEW p
  PROVE  /\ RemoveAt(s, k) \in Seq(Real)
         /\ Total(Counts(RemoveAt(s, k), p)) + Weight(s[k], p) = Total(Counts(s, p))
<1> DEFINE t == RemoveAt(s, k)
           c == Counts(s, p)
           a == Counts(t, p)
           b == RemoveAt(c, k)
           n == Len(s) - 1
<1>1. /\ t \in Seq(Real) /\ Len(t) = n
      /\ \A j \in 1 .. n : t[j] = IF j < k THEN s[j] ELSE s[j + 1]
  BY ListRemoveAt
<1> HIDE DEF t
<1>2. a \in Seq(Nat) /\ Len(a) = n /\ \A i \in 1 .. n : a[i] = Weight(t[i], p)
  BY <1>1, CountsAre
<1>3. c \in Seq(Nat) /\ Len(c) = Len(s) /\ Len(s) \in Nat /\ \A i \in 1 .. Len(s) : c[i] = Weight(s[i], p)
  BY CountsAre
<1> HIDE DEF a, c
<1>4. b \in Seq(Nat) /\ Len(b) = n /\ \A j \in 1 .. n : b[j] = IF j < k THEN c[j] ELSE c[j + 1]
  BY <1>3, ListRemoveAt
<1>5. Total(b) + c[k] = Total(c)
  BY <1>3, TotalRemove
<1> HIDE DEF b
<1>6. \A j \in 1 .. n : a[j] = b[j]
  <2> TAKE j \in 1 .. n
  <2>1. j \in 1 .. Len(s) /\ j + 1 \in 1 .. Len(s)
    BY <1>3
  <2>2. CASE j < k
    BY <1>1, <1>2, <1>3, <1>4, <2>1, <2>2
  <2>3. CASE ~(j < k)
    BY <1>1, <1>2, <1>3, <1>4, <2>1, <2>3
  <2> QED
    BY <2>2, <2>3
<1>7. a = b
  BY <1>2, <1>4, <1>6, SeqEqual
<1> QED
  BY <1>1, <1>3, <1>5, <1>7 DEF a, c, t

(***************************************************************************)
(* What the loops over mCalls find.                                        *)
(***************************************************************************)
LEMMA FirstMatchIs ==
  ASSUME NEW t, NEW a, Len(mCalls) \in Nat, FirstMatch(t, a) # 0
  PROVE  LET i == FirstMatch(t, a)
         IN  /\ i \in 1 .. Len(mCalls) /\ Matches(mCalls[i], t, a)
             /\ \A j \in 1 .. Len(mCalls) : Matches(mCalls[j], t, a) => i <= j
<1> DEFINE I == {i \in 1 .. Len(mCalls) : Matches(mCalls[i], t, a)}
<1>1. FirstMatch(t, a) = IF I # {} THEN Min(I) ELSE 0
  BY DEF FirstMatch, SelectInSeq
<1>2. I # {} /\ FirstMatch(t, a) = Min(I)
  BY <1>1
<1>3. \E m \in I : \A n \in I : m <= n
  <2> I \in SUBSET Nat
    OBVIOUS
  <2> HIDE DEF I
  <2> QED
    BY <1>2, LeastNat
<1>4. Min(I) \in I /\ \A n \in I : Min(I) <= n
  BY <1>3 DEF Min
<1> QED
  BY <1>2, <1>4

\* removeOne() takes out the first entry with the same target.
LEMMA RemoveOneIs ==
  ASSUME NEW T, NEW s \in Seq(T), NEW n \in 1 .. Len(s)
  PROVE  \E k \in 1 .. Len(s) :
            k <= n /\ s[k].target = s[n].target /\ RemoveOne(s, s[n]) = RemoveAt(s, k)
<1> DEFINE I == {i \in 1 .. Len(s) : s[i].target = s[n].target}
<1>1. RemoveOne(s, s[n]) = RemoveAt(s, IF I # {} THEN Min(I) ELSE 0)
  BY DEF RemoveOne, SelectInSeq
<1>2. n \in I /\ I \in SUBSET Nat
  BY LenProperties
<1>3. \E m \in I : \A i \in I : m <= i
  <2> HIDE DEF I
  <2> QED
    BY <1>2, LeastNat
<1>4. Min(I) \in I /\ \A i \in I : Min(I) <= i
  BY <1>3 DEF Min
<1>5. RemoveOne(s, s[n]) = RemoveAt(s, Min(I)) /\ Min(I) <= n
  BY <1>1, <1>2, <1>4
<1> QED
  BY <1>4, <1>5

\* What is taken out is the entry that was found, if the person calls on one
\* account, and one of the same person in any case.
LEMMA TakeOut ==
  ASSUME CallsAssumption, mCalls \in Seq(Real), NEW c \in Callers, NEW a \in Accounts, FirstMatch(c, a) # 0
  PROVE  LET i == FirstMatch(c, a)
             r == RemoveOne(mCalls, mCalls[i])
         IN  /\ i \in 1 .. Len(mCalls) /\ Person[mCalls[i].target] = Person[c]
             /\ r \in Seq(Real)
             /\ \A p \in People : p # Person[c] => Total(Counts(r, p)) = Total(Counts(mCalls, p))
             /\ OneAccount(Person[c]) =>
                  Total(Counts(r, Person[c])) + mCalls[i].count = Total(Counts(mCalls, Person[c]))
<1> DEFINE i == FirstMatch(c, a)
           r == RemoveOne(mCalls, mCalls[i])
<1>1. Len(mCalls) \in Nat /\ \A j \in 1 .. Len(mCalls) : mCalls[j] \in Real
  BY LenProperties, ElementOfSeq
<1>2. /\ i \in 1 .. Len(mCalls) /\ Person[mCalls[i].target] = Person[c] /\ mCalls[i].account = a
      /\ \A j \in 1 .. Len(mCalls) : Matches(mCalls[j], c, a) => i <= j
  BY <1>1, FirstMatchIs DEF Matches
<1> HIDE DEF i
<1>3. PICK k \in 1 .. Len(mCalls) :
        k <= i /\ mCalls[k].target = mCalls[i].target /\ r = RemoveAt(mCalls, k)
  BY <1>2, RemoveOneIs
<1> HIDE DEF r
<1>4. r \in Seq(Real) /\ \A p : Total(Counts(r, p)) + Weight(mCalls[k], p) = Total(Counts(mCalls, p))
  BY <1>3, CountsRemove
<1>5. \A p : Total(Counts(r, p)) \in Nat /\ Total(Counts(mCalls, p)) \in Nat
  BY <1>4, CountsAre
<1>6. ASSUME NEW p \in People, p # Person[c]
      PROVE  Total(Counts(r, p)) = Total(Counts(mCalls, p))
  <2>1. Weight(mCalls[k], p) = 0
    BY <1>2, <1>3, <1>6 DEF Weight
  <2>2. Total(Counts(r, p)) + 0 = Total(Counts(mCalls, p))
    BY <1>4, <2>1
  <2> QED
    BY <1>5, <2>2
<1>7. ASSUME OneAccount(Person[c])
      PROVE  Total(Counts(r, Person[c])) + mCalls[i].count = Total(Counts(mCalls, Person[c]))
  <2>1. PICK x \in Calls : Call[x].caller = mCalls[i].target /\ Call[x].account = mCalls[i].account
    BY <1>1, <1>2 DEF Real
  <2>2. PICK y \in Calls : Call[y].caller = mCalls[k].target /\ Call[y].account = mCalls[k].account
    BY <1>1, <1>3 DEF Real
  <2>3. Call[x].account = Call[y].account
    BY <1>2, <1>3, <1>7, <2>1, <2>2 DEF OneAccount
  <2>4. Matches(mCalls[k], c, a)
    BY <1>2, <1>3, <2>1, <2>2, <2>3 DEF Matches
  <2>5. k = i
    BY <1>1, <1>2, <1>3, <2>4
  <2>6. Weight(mCalls[k], Person[c]) = mCalls[i].count
    BY <1>2, <2>5 DEF Weight
  <2> QED
    BY <1>4, <2>6
<1> QED
  BY <1>2, <1>4, <1>6, <1>7 DEF i, r

\* What addCall() does to the sums of a person.
LEMMA AddCallCounts ==
  ASSUME CallsAssumption, mCalls \in Seq(Real), callerFetches \in Seq(Real), NEW c \in Calls,
         AddCall(Call[c].caller, Call[c].account)
  PROVE  /\ mCalls' \in Seq(Real) /\ callerFetches' \in Seq(Real)
         /\ \A p \in People : OneAccount(p) =>
              Total(Counts(mCalls', p)) + Total(Counts(callerFetches', p)) =
                Total(Counts(mCalls, p)) + Total(Counts(callerFetches, p))
                  + (IF p = Person[Call[c].caller] THEN 1 ELSE 0)
<1> DEFINE t == Call[c].caller
           a == Call[c].account
           i == FirstMatch(t, a)
           e == IF i # 0 THEN [mCalls[i] EXCEPT !.count = @ + 1]
                ELSE [target |-> t, account |-> a, count |-> 1]
           rest == IF i # 0 THEN RemoveOne(mCalls, mCalls[i]) ELSE mCalls
<1>1. t \in Callers /\ a \in Accounts /\ Person[t] \in People
  BY DEF CallsAssumption, People
<1>2. \/ mCalls' = Append(rest, e) /\ UNCHANGED callerFetches
      \/ mCalls' = rest /\ callerFetches' = Append(callerFetches, e)
  BY DEF AddCall, Place
<1> DEFINE Kept(p) == Total(Counts(rest, p)) + Weight(e, p) =
                        Total(Counts(mCalls, p)) + (IF p = Person[t] THEN 1 ELSE 0)
<1>3. e \in Real /\ rest \in Seq(Real) /\ \A p \in People : OneAccount(p) => Kept(p)
  <2>1. CASE i # 0
    <3>1. /\ i \in 1 .. Len(mCalls) /\ Person[mCalls[i].target] = Person[t]
          /\ rest \in Seq(Real)
          /\ \A p \in People : p # Person[t] => Total(Counts(rest, p)) = Total(Counts(mCalls, p))
          /\ OneAccount(Person[t]) =>
               Total(Counts(rest, Person[t])) + mCalls[i].count = Total(Counts(mCalls, Person[t]))
      BY <1>1, <2>1, TakeOut
    <3>2. mCalls[i] \in Real
      BY <3>1
    <3>3. /\ e.target = mCalls[i].target /\ e.account = mCalls[i].account
          /\ e.count = mCalls[i].count + 1 /\ e \in Real
      BY <2>1, <3>2 DEF Real
    <3>4. mCalls[i].count \in Nat
      BY <3>2 DEF Real
    <3> DEFINE n == mCalls[i].count
    <3>5. \A p : Weight(e, p) = IF p = Person[t] THEN n + 1 ELSE 0
      BY <3>1, <3>3 DEF Weight
    <3> HIDE DEF e, rest, i, t, n
    <3>6. \A p : Total(Counts(rest, p)) \in Nat /\ Total(Counts(mCalls, p)) \in Nat
      BY <3>1, CountsAre
    <3>7. ASSUME NEW p \in People, OneAccount(p) PROVE Kept(p)
      <4>1. CASE p = Person[t]
        <5>1. Total(Counts(rest, p)) + n = Total(Counts(mCalls, p)) /\ Weight(e, p) = n + 1 /\ n \in Nat
          BY <3>1, <3>4, <3>5, <3>7, <4>1 DEF n
        <5> QED
          BY <3>6, <4>1, <5>1
      <4>2. CASE p # Person[t]
        <5>1. Total(Counts(rest, p)) = Total(Counts(mCalls, p)) /\ Weight(e, p) = 0
          BY <3>1, <3>5, <4>2
        <5> QED
          BY <3>6, <4>2, <5>1
      <4> QED
        BY <4>1, <4>2
    <3> QED
      BY <3>1, <3>3, <3>7
  <2>2. CASE i = 0
    <3>1. e = [target |-> t, account |-> a, count |-> 1] /\ rest = mCalls
      BY <2>2
    <3>2. e \in Real
      <4> DEFINE one == [target |-> t, account |-> a, count |-> 1]
      <4>1. one.target = Call[c].caller /\ one.account = Call[c].account
        OBVIOUS
      <4>2. one \in [target : Callers, account : Accounts, count : Nat]
        BY <1>1
      <4> HIDE DEF one
      <4>3. one \in Real
        BY <4>1, <4>2 DEF Real
      <4> QED
        BY <3>1, <4>3 DEF one
    <3>3. \A p : Weight(e, p) = IF p = Person[t] THEN 1 ELSE 0
      BY <3>1 DEF Weight
    <3> QED
      BY <3>1, <3>2, <3>3
  <2> QED
    BY <2>1, <2>2
<1> HIDE DEF e, rest, i, t, a
<1>4. /\ Append(rest, e) \in Seq(Real) /\ Append(callerFetches, e) \in Seq(Real)
      /\ \A p : Total(Counts(Append(rest, e), p)) = Total(Counts(rest, p)) + Weight(e, p)
      /\ \A p : Total(Counts(Append(callerFetches, e), p)) = Total(Counts(callerFetches, p)) + Weight(e, p)
  BY <1>3, CountsAppend
<1>5. /\ \A p : Total(Counts(rest, p)) \in Nat /\ Total(Counts(mCalls, p)) \in Nat
      /\ \A p : Total(Counts(callerFetches, p)) \in Nat /\ Weight(e, p) \in Nat
  <2>1. \A p : Weight(e, p) \in Nat
    BY <1>3 DEF Weight, Real
  <2> QED
    BY <1>3, <2>1, CountsAre
<1>6. ASSUME NEW p \in People, OneAccount(p)
      PROVE  Total(Counts(mCalls', p)) + Total(Counts(callerFetches', p)) =
               Total(Counts(mCalls, p)) + Total(Counts(callerFetches, p))
                 + (IF p = Person[t] THEN 1 ELSE 0)
  <2> DEFINE x == Total(Counts(rest, p))
             y == Total(Counts(callerFetches, p))
             w == Weight(e, p)
             m == Total(Counts(mCalls, p))
             d == IF p = Person[t] THEN 1 ELSE 0
  <2>1. x \in Nat /\ y \in Nat /\ w \in Nat /\ m \in Nat /\ d \in Nat /\ x + w = m + d
    BY <1>3, <1>5, <1>6
  <2>2. Total(Counts(mCalls', p)) + Total(Counts(callerFetches', p)) = (x + w) + y
    <3>1. CASE mCalls' = Append(rest, e) /\ UNCHANGED callerFetches
      <4>1. Total(Counts(mCalls', p)) = x + w
        BY <1>4, <3>1
      <4>2. Total(Counts(callerFetches', p)) = y
        BY <3>1
      <4> QED
        BY <4>1, <4>2
    <3>2. CASE mCalls' = rest /\ callerFetches' = Append(callerFetches, e)
      <4>1. Total(Counts(mCalls', p)) = x
        BY <3>2
      <4>2. Total(Counts(callerFetches', p)) = y + w
        BY <1>4, <3>2
      <4> HIDE DEF x, y, w
      <4> QED
        BY <2>1, <4>1, <4>2
    <3> QED
      BY <1>2, <3>1, <3>2
  <2> HIDE DEF x, y, w, m, d
  <2>3. (x + w) + y = m + y + d
    BY <2>1
  <2> QED
    BY <2>2, <2>3 DEF m, y, d
<1> QED
  BY <1>2, <1>3, <1>4, <1>6 DEF t

(***************************************************************************)
(* The invariant.                                                          *)
(***************************************************************************)
MissedTypes ==
  /\ call \in [Calls -> [state : States \cup {"none"}, accepted : BOOLEAN, noAnswer : BOOLEAN]]
  /\ mCallStates \in [Calls -> States \cup {"Unknown"}]
  /\ mCalls \in Seq(Real) /\ callerFetches \in Seq(Real)
  /\ cleared \in [People -> Nat]

\* A call is accepted when it is, and the observer has seen each state while it
\* knows the accounts.
CallsAreFollowed ==
  \A c \in Calls :
    /\ call[c].state \in {"none", "Initialised"} => ~call[c].accepted
    /\ call[c].state \in {"Accepted", "Active"} => call[c].accepted
    /\ gone = {} => (mCallStates[c] = "Initialised" <=> call[c].state = "Initialised")

MissedInv == MissedTypes /\ CallsAreFollowed /\ MissedAreCounted

LEMMA MissedInitInv == CallsAssumption /\ MissedInit => MissedInv
<1> SUFFICES ASSUME CallsAssumption, MissedInit PROVE MissedInv
  OBVIOUS
<1>1. /\ \A c \in Calls : call[c] = [state |-> "none", accepted |-> FALSE, noAnswer |-> FALSE]
      /\ \A c \in Calls : mCallStates[c] = "Unknown"
      /\ mCalls = << >> /\ callerFetches = << >> /\ \A p \in People : cleared[p] = 0
  BY DEF MissedInit
<1>2. MissedTypes
  BY ListEmpty DEF MissedInit, MissedTypes
<1>3. CallsAreFollowed
  BY <1>1 DEF CallsAreFollowed
<1>4. MissedAreCounted
  <2> SUFFICES ASSUME NEW p \in People
               PROVE  Total(Counts(mCalls, p)) + Total(Counts(callerFetches, p)) + cleared[p]
                        = Cardinality(MissedOf(p))
    BY DEF MissedAreCounted
  <2>1. MissedOf(p) = {}
    BY <1>1 DEF MissedOf
  <2>2. Cardinality(MissedOf(p)) = 0
    BY <2>1, FS_EmptySet
  <2>3. Counts(<< >>, p) = << >>
    <3>1. << >> \in Seq(Real)
      BY ListEmpty
    <3>2. Counts(<< >>, p) \in Seq(Nat) /\ Len(Counts(<< >>, p)) = Len(<< >>) /\ Len(<< >>) = 0
      BY <3>1, CountsAre
    <3> QED
      BY <3>2
  <2> QED
    BY <1>1, <2>2, <2>3, TotalEmpty
<1> QED
  BY <1>2, <1>3, <1>4 DEF MissedInv

\* A step that leaves the calls and the sums alone.
LEMMA SameCounts ==
  ASSUME MissedInv, UNCHANGED call, gone' = {} => gone = {},
         \A p \in People : OneAccount(p) =>
           Total(Counts(mCalls', p)) + Total(Counts(callerFetches', p)) + cleared'[p] =
             Total(Counts(mCalls, p)) + Total(Counts(callerFetches, p)) + cleared[p]
  PROVE  MissedAreCounted'
<1> SUFFICES ASSUME gone' = {}, NEW p \in People, OneAccount(p)
             PROVE  Total(Counts(mCalls', p)) + Total(Counts(callerFetches', p)) + cleared'[p]
                      = Cardinality(MissedOf(p)')
  BY DEF MissedAreCounted, OneAccount
<1>1. MissedOf(p)' = MissedOf(p)
  BY DEF MissedOf
<1>2. Total(Counts(mCalls, p)) + Total(Counts(callerFetches, p)) + cleared[p] = Cardinality(MissedOf(p))
  BY DEF MissedInv, MissedAreCounted
<1> QED
  BY <1>1, <1>2

LEMMA CallAvailableInv ==
  ASSUME CallsAssumption, MissedInv, NEW c \in Calls, CallChannelAvailable(c) PROVE MissedInv'
<1>1. PICK s \in States :
        /\ call' = [call EXCEPT ![c] = [state |-> s, accepted |-> s # "Initialised", noAnswer |-> FALSE]]
        /\ mCallStates' = [mCallStates EXCEPT ![c] = s]
  BY DEF CallChannelAvailable
<1>2. call[c].state = "none" /\ UNCHANGED <<mCalls, callerFetches, gone, cleared>>
  BY DEF CallChannelAvailable
<1>3. MissedTypes'
  BY <1>1, <1>2 DEF MissedInv, MissedTypes
<1>4. /\ call'[c] = [state |-> s, accepted |-> s # "Initialised", noAnswer |-> FALSE]
      /\ \A d \in Calls : d # c => call'[d] = call[d] /\ mCallStates'[d] = mCallStates[d]
      /\ mCallStates'[c] = s
  BY <1>1 DEF MissedInv, MissedTypes
<1>7. call'[c].state = s /\ (call'[c].accepted <=> s # "Initialised")
  <2>1. call'[c].state = s
    BY <1>4
  <2>2. CASE s = "Initialised"
    <3>1. call'[c].accepted = (s # "Initialised")
      BY <1>4
    <3> QED
      BY <2>1, <2>2, <3>1
  <2>3. CASE s # "Initialised"
    <3>1. call'[c].accepted = (s # "Initialised")
      BY <1>4
    <3> QED
      BY <2>1, <2>3, <3>1
  <2> QED
    BY <2>2, <2>3
<1>8. s # "none"
  BY DEF States
<1>5. CallsAreFollowed'
  <2> SUFFICES ASSUME NEW d \in Calls
               PROVE  /\ call'[d].state \in {"none", "Initialised"} => ~call'[d].accepted
                      /\ call'[d].state \in {"Accepted", "Active"} => call'[d].accepted
                      /\ gone' = {} => (mCallStates'[d] = "Initialised" <=> call'[d].state = "Initialised")
    BY DEF CallsAreFollowed
  <2>1. CASE d = c
    BY <1>4, <1>7, <1>8, <2>1
  <2>2. CASE d # c
    BY <1>2, <1>4, <2>2 DEF MissedInv, CallsAreFollowed
  <2> QED
    BY <2>1, <2>2
<1>6. MissedAreCounted'
  <2> SUFFICES ASSUME gone' = {}, NEW p \in People, OneAccount(p)
               PROVE  Total(Counts(mCalls, p)) + Total(Counts(callerFetches, p)) + cleared[p]
                        = Cardinality(MissedOf(p)')
    BY <1>2 DEF MissedAreCounted, OneAccount
  <2>1. call'[c].state # "Ended" \/ call'[c].accepted
    BY <1>7
  <2>2. MissedOf(p)' = MissedOf(p)
    BY <1>2, <1>4, <2>1 DEF MissedOf
  <2> QED
    BY <1>2, <2>2 DEF MissedInv, MissedAreCounted
<1> QED
  BY <1>3, <1>5, <1>6 DEF MissedInv

\* A call that ends is missed when nobody accepted it, and the observer sees that.
LEMMA CallStateInv ==
  ASSUME CallsAssumption, MissedInv, NEW c \in Calls, CallStateChanged(c) PROVE MissedInv'
<1>1. PICK s \in States, n \in BOOLEAN : Change(c, s, n)
  BY DEF CallStateChanged
<1> DEFINE old == call[c].state
<1>2. /\ old \in States /\ s \in NextStates(old)
      /\ n => s = "Ended" /\ old = "Initialised"
      /\ call' = [call EXCEPT ![c] = [state |-> s,
                                      accepted |-> @.accepted \/ s \in {"Accepted", "Active"},
                                      noAnswer |-> n]]
  BY <1>1 DEF Change
<1>3. /\ call \in [Calls -> [state : States \cup {"none"}, accepted : BOOLEAN, noAnswer : BOOLEAN]]
      /\ mCallStates \in [Calls -> States \cup {"Unknown"}]
      /\ mCalls \in Seq(Real) /\ callerFetches \in Seq(Real)
      /\ cleared \in [People -> Nat]
  BY DEF MissedInv, MissedTypes
<1>4. /\ call'[c].state = s /\ call'[c].noAnswer = n
      /\ call'[c].accepted = (call[c].accepted \/ s \in {"Accepted", "Active"})
      /\ \A d \in Calls : d # c => call'[d] = call[d]
  BY <1>2, <1>3
<1>5. call' \in [Calls -> [state : States \cup {"none"}, accepted : BOOLEAN, noAnswer : BOOLEAN]]
  <2>1. [state |-> s, accepted |-> call[c].accepted \/ s \in {"Accepted", "Active"}, noAnswer |-> n]
          \in [state : States \cup {"none"}, accepted : BOOLEAN, noAnswer : BOOLEAN]
    BY <1>3
  <2> QED
    BY <1>2, <1>3, <2>1
<1>6. /\ old = "Initialised" => ~call[c].accepted
      /\ old \in {"Accepted", "Active"} => call[c].accepted
      /\ gone = {} => (mCallStates[c] = "Initialised" <=> old = "Initialised")
  BY DEF MissedInv, CallsAreFollowed
<1>7. s # "Initialised" /\ s # "none" /\ old \in {"Initialised", "Accepted", "Active"}
  <2>1. \A x, y : y \in NextStates(x) => x \in {"Initialised", "Accepted", "Active"}
                                        /\ y \in {"Accepted", "Active", "Ended"}
    BY DEF NextStates
  <2>2. old \in {"Initialised", "Accepted", "Active"} /\ s \in {"Accepted", "Active", "Ended"}
    BY <1>2, <2>1
  <2> QED
    BY <2>2
<1> HIDE DEF old
<1>8. UNCHANGED <<gone, cleared>>
  BY DEF CallStateChanged
<1>9. CallsAreFollowed'
  <2> SUFFICES ASSUME NEW d \in Calls
               PROVE  /\ call'[d].state \in {"none", "Initialised"} => ~call'[d].accepted
                      /\ call'[d].state \in {"Accepted", "Active"} => call'[d].accepted
                      /\ gone' = {} => (mCallStates'[d] = "Initialised" <=> call'[d].state = "Initialised")
    BY DEF CallsAreFollowed
  <2>1. gone = {} => mCallStates' = [mCallStates EXCEPT ![c] = call'[c].state]
    BY DEF CallStateChanged
  <2>2. gone = {} => mCallStates'[c] = s /\ \A e \in Calls : e # c => mCallStates'[e] = mCallStates[e]
    BY <1>3, <1>4, <2>1
  <2>3. CASE d = c
    BY <1>4, <1>7, <1>8, <2>2, <2>3
  <2>4. CASE d # c
    BY <1>4, <1>8, <2>2, <2>4 DEF MissedInv, CallsAreFollowed
  <2> QED
    BY <2>3, <2>4
<1>10. /\ mCalls' \in Seq(Real) /\ callerFetches' \in Seq(Real)
       /\ mCallStates' \in [Calls -> States \cup {"Unknown"}]
  <2>1. CASE UNCHANGED <<mCalls, callerFetches>>
    BY <1>3, <1>4, <2>1 DEF CallStateChanged
  <2>2. CASE AddCall(Call[c].caller, Call[c].account)
    <3>1. mCalls' \in Seq(Real) /\ callerFetches' \in Seq(Real)
      BY <1>3, <2>2, AddCallCounts
    <3>2. mCallStates' \in [Calls -> States \cup {"Unknown"}]
      BY <1>3, <1>4 DEF CallStateChanged
    <3> QED
      BY <3>1, <3>2
  <2> QED
    BY <2>1, <2>2 DEF CallStateChanged
<1>11. MissedTypes'
  BY <1>3, <1>5, <1>8, <1>10 DEF MissedTypes
<1>12. MissedAreCounted'
  <2> SUFFICES ASSUME gone' = {}, NEW p \in People, OneAccount(p)
               PROVE  Total(Counts(mCalls', p)) + Total(Counts(callerFetches', p)) + cleared[p]
                        = Cardinality(MissedOf(p)')
    BY <1>8 DEF MissedAreCounted, OneAccount
  <2>1. gone = {} /\ Call[c].account \notin gone
    BY <1>8
  <2>2. Total(Counts(mCalls, p)) + Total(Counts(callerFetches, p)) + cleared[p] = Cardinality(MissedOf(p))
    BY <2>1 DEF MissedInv, MissedAreCounted
  <2>3. /\ Total(Counts(mCalls, p)) \in Nat /\ Total(Counts(callerFetches, p)) \in Nat /\ cleared[p] \in Nat
    BY <1>3, CountsAre
  <2> DEFINE missed == s = "Ended" /\ Call[c].incoming /\ old = "Initialised"
  <2>4. call'[c].state = "Ended" /\ Missed(c) <=> missed
    <3>1. Missed(c) <=> Call[c].incoming /\ (n \/ mCallStates[c] = "Initialised")
      BY <1>4, Zenon DEF Missed
    <3>2. (n => s = "Ended" /\ old = "Initialised") /\ (mCallStates[c] = "Initialised" <=> old = "Initialised")
      BY <1>2, <1>6, <2>1
    <3>3. call'[c].state = s
      BY <1>4
    <3> QED
      BY <3>1, <3>2, <3>3, Zenon
  <2>5. c \notin MissedOf(p)
    BY <1>7 DEF MissedOf, old
  <2>6. IsFiniteSet(MissedOf(p))
    <3>1. MissedOf(p) \subseteq Calls
      BY DEF MissedOf
    <3> QED
      BY <3>1, FS_Subset DEF CallsAssumption
  <2>7. call'[c].state = "Ended" /\ ~call'[c].accepted /\ Call[c].incoming <=> missed
    BY <1>4, <1>6, <1>7
  <2>8. CASE missed
    <3>1. AddCall(Call[c].caller, Call[c].account)
      BY <2>1, <2>4, <2>8 DEF CallStateChanged
    <3>2. Total(Counts(mCalls', p)) + Total(Counts(callerFetches', p)) =
            Total(Counts(mCalls, p)) + Total(Counts(callerFetches, p))
              + (IF p = Person[Call[c].caller] THEN 1 ELSE 0)
      BY <1>3, <3>1, AddCallCounts
    <3>3. CASE p = Person[Call[c].caller]
      <4>1. MissedOf(p)' = MissedOf(p) \cup {c}
        BY <1>4, <2>7, <2>8, <3>3 DEF MissedOf
      <4>2. Cardinality(MissedOf(p)') = Cardinality(MissedOf(p)) + 1
        BY <2>5, <2>6, <4>1, FS_AddElement
      <4> QED
        BY <2>2, <2>3, <3>2, <3>3, <4>2
    <3>4. CASE p # Person[Call[c].caller]
      <4>1. MissedOf(p)' = MissedOf(p)
        BY <1>4, <3>4 DEF MissedOf
      <4> QED
        BY <2>2, <2>3, <3>2, <3>4, <4>1
    <3> QED
      BY <3>3, <3>4
  <2>9. CASE ~missed
    <3>1. UNCHANGED <<mCalls, callerFetches>>
      BY <2>1, <2>4, <2>9 DEF CallStateChanged
    <3>2. MissedOf(p)' = MissedOf(p)
      BY <1>4, <2>5, <2>7, <2>9 DEF MissedOf
    <3> QED
      BY <2>2, <3>1, <3>2
  <2> QED
    BY <2>8, <2>9
<1> QED
  BY <1>9, <1>11, <1>12 DEF MissedInv

LEMMA CallerFetchedInv ==
  ASSUME MissedInv, CallerFetched PROVE MissedInv'
<1>1. PICK i \in 1 .. Len(callerFetches) :
        /\ mCalls' = Append(mCalls, callerFetches[i])
        /\ callerFetches' = RemoveAt(callerFetches, i)
  BY DEF CallerFetched, Place
<1>2. UNCHANGED <<callVars, gone, cleared>>
  BY DEF CallerFetched
<1>3. mCalls \in Seq(Real) /\ callerFetches \in Seq(Real) /\ cleared \in [People -> Nat]
  BY DEF MissedInv, MissedTypes
<1> DEFINE e == callerFetches[i]
<1>4. e \in Real
  BY <1>3, ElementOfSeq
<1>5. /\ mCalls' \in Seq(Real)
      /\ \A p : Total(Counts(mCalls', p)) = Total(Counts(mCalls, p)) + Weight(e, p)
  BY <1>1, <1>3, <1>4, CountsAppend
<1>6. /\ callerFetches' \in Seq(Real)
      /\ \A p : Total(Counts(callerFetches', p)) + Weight(e, p) = Total(Counts(callerFetches, p))
  BY <1>1, <1>3, CountsRemove
<1> HIDE DEF e
<1>7. \A p \in People : Total(Counts(mCalls', p)) + Total(Counts(callerFetches', p)) + cleared'[p] =
                          Total(Counts(mCalls, p)) + Total(Counts(callerFetches, p)) + cleared[p]
  <2> TAKE p \in People
  <2>1. /\ Total(Counts(mCalls, p)) \in Nat /\ Weight(e, p) \in Nat
        /\ Total(Counts(callerFetches', p)) \in Nat /\ cleared[p] \in Nat
    BY <1>3, <1>4, <1>6, CountsAre DEF Weight, Real
  <2> QED
    BY <1>2, <1>5, <1>6, <2>1
<1>8. MissedAreCounted'
  BY <1>2, <1>7, SameCounts DEF callVars
<1>9. MissedTypes' /\ CallsAreFollowed'
  BY <1>2, <1>5, <1>6 DEF MissedInv, MissedTypes, CallsAreFollowed, callVars
<1> QED
  BY <1>8, <1>9 DEF MissedInv

LEMMA ClearCallInv ==
  ASSUME CallsAssumption, MissedInv, NEW t \in Callers, NEW a \in Accounts, ClearCallNotification(t, a)
  PROVE  MissedInv'
<1> DEFINE i == FirstMatch(t, a)
           n == mCalls[i].count
           q == Person[t]
<1>1. /\ i # 0 /\ mCalls' = RemoveOne(mCalls, mCalls[i])
      /\ cleared' = [cleared EXCEPT ![q] = @ + n]
      /\ UNCHANGED <<callVars, callerFetches, gone>>
  BY DEF ClearCallNotification
<1>2. mCalls \in Seq(Real) /\ callerFetches \in Seq(Real) /\ cleared \in [People -> Nat] /\ q \in People
  BY DEF MissedInv, MissedTypes, People
<1>3. /\ i \in 1 .. Len(mCalls) /\ mCalls' \in Seq(Real)
      /\ \A p \in People : p # q => Total(Counts(mCalls', p)) = Total(Counts(mCalls, p))
      /\ OneAccount(q) => Total(Counts(mCalls', q)) + n = Total(Counts(mCalls, q))
  BY <1>1, <1>2, TakeOut
<1>4. n \in Nat
  <2>1. mCalls[i] \in Real
    BY <1>2, <1>3, ElementOfSeq
  <2> QED
    BY <2>1 DEF Real
<1> HIDE DEF i, n, q
<1>5. cleared' \in [People -> Nat] /\ \A p \in People : cleared'[p] = IF p = q THEN cleared[p] + n ELSE cleared[p]
  BY <1>1, <1>2, <1>4
<1>6. \A p \in People : OneAccount(p) =>
        Total(Counts(mCalls', p)) + Total(Counts(callerFetches', p)) + cleared'[p] =
          Total(Counts(mCalls, p)) + Total(Counts(callerFetches, p)) + cleared[p]
  <2> SUFFICES ASSUME NEW p \in People, OneAccount(p)
               PROVE  Total(Counts(mCalls', p)) + Total(Counts(callerFetches, p)) + cleared'[p] =
                        Total(Counts(mCalls, p)) + Total(Counts(callerFetches, p)) + cleared[p]
    BY <1>1
  <2>1. /\ Total(Counts(mCalls, p)) \in Nat /\ Total(Counts(mCalls', p)) \in Nat
        /\ Total(Counts(callerFetches, p)) \in Nat /\ cleared[p] \in Nat
    BY <1>2, <1>3, CountsAre
  <2>2. CASE p = q
    BY <1>3, <1>4, <1>5, <2>1, <2>2
  <2>3. CASE p # q
    BY <1>3, <1>5, <2>1, <2>3
  <2> QED
    BY <2>2, <2>3
<1>7. MissedAreCounted'
  BY <1>1, <1>6, SameCounts DEF callVars
<1>8. MissedTypes' /\ CallsAreFollowed'
  BY <1>1, <1>3, <1>5 DEF MissedInv, MissedTypes, CallsAreFollowed, callVars
<1> QED
  BY <1>7, <1>8 DEF MissedInv

\* The other steps change neither the calls nor the entries.
LEMMA SameMissedInv ==
  ASSUME MissedInv, UNCHANGED <<callVars, mCalls, callerFetches, cleared>>, gone' = {} => gone = {}
  PROVE  MissedInv'
<1>1. MissedAreCounted'
  BY SameCounts DEF callVars
<1>2. MissedTypes' /\ CallsAreFollowed'
  BY DEF MissedInv, MissedTypes, CallsAreFollowed, callVars
<1> QED
  BY <1>1, <1>2 DEF MissedInv

\* The invariant above, for any calls of any people on any SIM cards
\* (callchannelobserver.cpp:36-112, messagingmenu.cpp:338-444).
THEOREM MissedInvariant == MissedSpec => []MissedInv
<1>1. MissedInit => MissedInv
  BY CallsAssumption, MissedInitInv
<1>2. MissedInv /\ [MissedNext]_missedVars => MissedInv'
  <2> SUFFICES ASSUME MissedInv, [MissedNext]_missedVars PROVE MissedInv'
    OBVIOUS
  <2>1. ASSUME NEW c \in Calls, CallChannelAvailable(c) PROVE MissedInv'
    BY <2>1, CallsAssumption, CallAvailableInv
  <2>2. ASSUME NEW c \in Calls, CallStateChanged(c) PROVE MissedInv'
    BY <2>2, CallsAssumption, CallStateInv
  <2>3. CASE CallerFetched
    BY <2>3, CallerFetchedInv
  <2>4. ASSUME NEW t \in Callers, NEW a \in Accounts, ClearCallNotification(t, a) PROVE MissedInv'
    BY <2>4, CallsAssumption, ClearCallInv
  <2>5. ASSUME NEW id \in Callers \cup Accounts, ActivateCallItem(id) PROVE MissedInv'
    BY <2>5, SameMissedInv DEF ActivateCallItem
  <2>6. ASSUME NEW a \in Accounts, ConnectionLost(a) PROVE MissedInv'
    BY <2>6, SameMissedInv DEF ConnectionLost
  <2>7. ASSUME NEW a \in Accounts, VoicemailIndicatorChanged(a) PROVE MissedInv'
    BY <2>7, SameMissedInv DEF VoicemailIndicatorChanged
  <2>8. CASE AccountReady
    BY <2>8, SameMissedInv DEF AccountReady
  <2>9. CASE UNCHANGED missedVars
    BY <2>9, SameMissedInv DEF missedVars, callVars
  <2> QED
    BY <2>1, <2>2, <2>3, <2>4, <2>5, <2>6, <2>7, <2>8, <2>9 DEF MissedNext
<1> QED
  BY <1>1, <1>2, PTL DEF MissedSpec

\* MissedAreCounted: what the entries of a person count for, those under way and
\* those taken off the list is the number of calls nobody accepted
\* (messagingmenu.cpp:338-444).
THEOREM NoMissedCallIsLost == MissedSpec => []MissedAreCounted
<1>1. MissedInv => MissedAreCounted
  BY DEF MissedInv
<1> QED
  BY <1>1, MissedInvariant, PTL
=============================================================================
