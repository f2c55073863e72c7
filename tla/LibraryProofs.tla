------------------------- MODULE LibraryProofs -------------------------
(***************************************************************************)
(* Theorems about libtelephonyservice: the accounts (Accounts), the calls  *)
(* (CallEntries) and the watchers of contacts (ContactWatcher).  The three *)
(* share no state.                                                         *)
(***************************************************************************)
EXTENDS Accounts, CallEntries, ContactWatcher, SequenceLemmas

-----------------------------------------------------------------------------
(***************************************************************************)
(* The signal setupReady() is emitted after the last of those that were    *)
(* waited for, and the defaults, the active accounts and the voicemail     *)
(* counts that are shown are those of now.                                 *)
(*                                                                         *)
(* What that needs of the queued calls: each is of an account that is      *)
(* there, in the queue once, and one that is waited for is ahead of those  *)
(* of the accounts that came later; a connection that is not heard has its *)
(* call in the queue, and the last signal under way carries the count of   *)
(* now.                                                                    *)
(***************************************************************************)

Event == [slot : {"onConnectionChanged"}, of : AllAccounts, conn : Nat]
         \cup [slot : {"accountReady"}, of : AllAccounts]

ReadyCall(a) == [slot |-> "accountReady", of |-> a]
ConnectionOf(a, c) == [slot |-> "onConnectionChanged", of |-> a, conn |-> c]

\* The types that the other parts need.
AccountTypes ==
  /\ valid \subseteq AllAccounts /\ mAccounts \subseteq entries /\ entries \subseteq AllAccounts
  /\ conn \in [AllAccounts -> Nat] /\ conns \in [AllAccounts -> Nat]
  /\ count \in [Sims -> 0..1] /\ mVoicemailCount \in [Sims -> 0..1]
  /\ signals \in [Sims -> Seq(0..1)]
  /\ events \in Seq(Event)
  /\ accountManager \in {"pending", "ready", "failed"}
  /\ accountManager # "ready" => entries = {} /\ events = << >> /\ ~mReady /\ awaited = {}
  /\ mReady \in BOOLEAN
  /\ calls \in Settings

\* What is queued is of entries, nothing twice, and of entries that are not ready.
QueuedOnce ==
  /\ IsInjective(events)
  /\ \A e \in ToSet(events) : e.of \in entries /\ (e.slot = "accountReady" => e.of \notin ready)
  /\ ready \subseteq entries /\ awaited \subseteq entries

\* Before the i-th of the queued calls is over, only awaited entries count down.
AwaitedUpTo(i) ==
  \A k \in 1..i : events[k].slot = "accountReady" => events[k].of \in awaited \ ready

\* The counter counts the entries that are still awaited, and each of them has
\* its call ahead of those of the entries that came later.
CountdownIsRight ==
  /\ accountManager = "ready" /\ ~mReady =>
       /\ mPendingAccountReady = Cardinality(awaited \ ready)
       /\ awaited \ ready # {}
  /\ \A a \in awaited \ ready : \E i \in 1..Len(events) : events[i] = ReadyCall(a) /\ AwaitedUpTo(i)

\* An entry follows its connection, or will when its queued call runs.
PresenceIsFollowed ==
  /\ \A a \in entries : conn[a] # 0 =>
       <<a, conn[a]>> \in watched \/ ConnectionOf(a, conn[a]) \in ToSet(events)
  /\ toldActive # activeAccounts =>
       \E e \in ToSet(events) : e.slot = "onConnectionChanged" /\ e.of \in mAccounts

\* The entry of a SIM hears the connection, if there is one.
Settled(a) == conn[a] = 0 \/ <<a, conn[a]>> \in heard

\* The last signal under way tells the count.
SignalsTell ==
  /\ \A a \in Sims, c \in Nat : <<a, c>> \in heard => c # 0 /\ a \in entries /\ Settled(a)
  /\ \A e \in ToSet(events) :
       e.slot = "onConnectionChanged" /\ e.of \in Sims => e.conn = conn[e.of] \/ Settled(e.of)
  /\ \A a \in Sims : signals[a] # << >> => <<a, conn[a]>> \in heard /\ Last(signals[a]) = count[a]

AccountsInv ==
  /\ AccountTypes /\ QueuedOnce /\ CountdownIsRight /\ PresenceIsFollowed /\ SignalsTell
  /\ SetupIsComplete /\ DefaultsAreKnown /\ VoicemailIsKnown

(***************************************************************************)
(* What an entry leaves to the event loop.                                 *)
(***************************************************************************)
LEMMA InitializeIs ==
  ASSUME NEW a \in AllAccounts, conn \in [AllAccounts -> Nat]
  PROVE  /\ initialize(a) = <<ConnectionOf(a, conn[a]), ReadyCall(a)>>
         /\ ConnectionOf(a, conn[a]) \in Event /\ ReadyCall(a) \in Event
         /\ ConnectionOf(a, conn[a]) # ReadyCall(a)
<1>1. initialize(a) = <<ConnectionOf(a, conn[a]), ReadyCall(a)>>
  BY DEF initialize, ConnectionOf, ReadyCall
<1>2. ConnectionOf(a, conn[a]) \in Event /\ ReadyCall(a) \in Event
  BY DEF ConnectionOf, ReadyCall, Event
<1>3. ConnectionOf(a, conn[a]).slot # ReadyCall(a).slot
  BY DEF ConnectionOf, ReadyCall
<1> QED
  BY <1>1, <1>2, <1>3

\* The calls of the accounts in A.
CallsOf(A) == {ConnectionOf(a, conn[a]) : a \in A} \cup {ReadyCall(a) : a \in A}

LEMMA InitializeAfter ==
  ASSUME NEW s \in Seq(Event), NEW a \in AllAccounts, conn \in [AllAccounts -> Nat]
  PROVE  /\ s \o initialize(a) \in Seq(Event)
         /\ ToSet(s \o initialize(a)) = ToSet(s) \cup CallsOf({a})
         /\ IsInjective(s) /\ ToSet(s) \cap CallsOf({a}) = {} => IsInjective(s \o initialize(a))
<1> DEFINE x == ConnectionOf(a, conn[a])
           y == ReadyCall(a)
<1>1. initialize(a) = <<x, y>> /\ x \in Event /\ y \in Event /\ x # y
  BY InitializeIs
<1>2. CallsOf({a}) = {x, y}
  BY DEF CallsOf
<1> HIDE DEF x, y
<1>3. s \o <<x, y>> = Append(Append(s, x), y)
  BY <1>1, ListConcatTwo
<1>4. /\ Append(s, x) \in Seq(Event) /\ ToSet(Append(s, x)) = ToSet(s) \cup {x}
      /\ IsInjective(Append(s, x)) <=> IsInjective(s) /\ x \notin ToSet(s)
  BY <1>1, ListAppend
<1>5. /\ Append(Append(s, x), y) \in Seq(Event)
      /\ ToSet(Append(Append(s, x), y)) = ToSet(Append(s, x)) \cup {y}
      /\ IsInjective(Append(Append(s, x), y)) <=> IsInjective(Append(s, x)) /\ y \notin ToSet(Append(s, x))
  BY <1>1, <1>4, ListAppend
<1> QED
  BY <1>1, <1>2, <1>3, <1>4, <1>5

LEMMA InitializeMany ==
  ASSUME NEW s \in Seq(AllAccounts), conn \in [AllAccounts -> Nat]
  PROVE  /\ initializeAll(s) \in Seq(Event)
         /\ ToSet(initializeAll(s)) = CallsOf(ToSet(s))
         /\ IsInjective(s) => IsInjective(initializeAll(s))
<1> DEFINE E(q) == [i \in 1..Len(q) |-> initialize(q[i])]
           P == {q \in Seq(AllAccounts) :
                   /\ initializeAll(q) \in Seq(Event)
                   /\ ToSet(initializeAll(q)) = CallsOf(ToSet(q))
                   /\ IsInjective(q) => IsInjective(initializeAll(q))}
<1>1. initializeAll(<< >>) = << >>
  BY ListEmpty DEF initializeAll, FlattenSeq
<1>2. << >> \in P
  <2> DEFINE empty == << >>
  <2>1. CallsOf({}) = {}
    BY DEF CallsOf
  <2>2. /\ initializeAll(empty) = empty /\ empty \in Seq(Event) /\ empty \in Seq(AllAccounts)
        /\ ToSet(empty) = {} /\ IsInjective(empty)
    BY <1>1, ListEmpty
  <2> HIDE DEF empty
  <2>3. empty \in P
    BY <2>1, <2>2
  <2> QED
    BY <2>3 DEF empty
<1>6. \A b \in AllAccounts : initialize(b) \in Seq(Event)
  <2> TAKE b \in AllAccounts
  <2>1. initialize(b) = <<ConnectionOf(b, conn[b]), ReadyCall(b)>> /\ ConnectionOf(b, conn[b]) \in Event /\ ReadyCall(b) \in Event
    BY InitializeIs
  <2> QED
    BY <2>1
<1>7. \A q \in Seq(AllAccounts) :
        /\ E(q) \in Seq(Seq(Event)) /\ Len(E(q)) = Len(q)
        /\ \A i \in 1..Len(q) : E(q)[i] = initialize(q[i])
        /\ E(q) = << >> <=> q = << >>
  <2> TAKE q \in Seq(AllAccounts)
  <2>1. Len(q) \in Nat /\ \A i \in 1..Len(q) : initialize(q[i]) \in Seq(Event)
    BY <1>6
  <2> DEFINE S == Seq(Event)
  <2>2. \A i \in 1..Len(q) : initialize(q[i]) \in S
    BY <2>1
  <2> HIDE DEF S
  <2>3. E(q) \in [1..Len(q) -> S]
    BY <2>2
  <2>4. E(q) \in Seq(S) /\ Len(E(q)) = Len(q)
    BY <2>1, <2>3
  <2>5. \A i \in 1..Len(q) : E(q)[i] = initialize(q[i])
    OBVIOUS
  <2> HIDE DEF E
  <2>6. E(q) = << >> <=> q = << >>
    BY <2>4, EmptySeq
  <2> QED
    BY <2>4, <2>5, <2>6 DEF S
<1>3. ASSUME NEW q \in P, NEW a \in AllAccounts PROVE Append(q, a) \in P
  <2> DEFINE r == Append(q, a)
  <2>1. q \in Seq(AllAccounts) /\ r \in Seq(AllAccounts)
    OBVIOUS
  <2>2. /\ Len(q) \in Nat /\ Len(r) = Len(q) + 1 /\ r[Len(q) + 1] = a
        /\ \A i \in 1..Len(q) : r[i] = q[i]
    BY <2>1
  <2>3. initialize(a) \in Seq(Event)
    BY <1>6
  <2>4. E(q) \in Seq(Seq(Event)) /\ (E(q) = << >> <=> q = << >>)
    BY <1>7, <2>1
  <2>5. E(r) = Append(E(q), initialize(a))
    <3> DEFINE S == Seq(Event)
               new == initialize(a)
               t == Append(E(q), new)
    <3>1. /\ E(q) \in Seq(S) /\ Len(E(q)) = Len(q) /\ \A i \in 1..Len(q) : E(q)[i] = initialize(q[i])
      BY <1>7, <2>1
    <3>2. /\ E(r) \in Seq(S) /\ Len(E(r)) = Len(r) /\ \A i \in 1..Len(r) : E(r)[i] = initialize(r[i])
      BY <1>7, <2>1
    <3>3. new \in S
      BY <2>3
    <3> HIDE DEF E, S
    <3>4. /\ t \in Seq(S) /\ Len(t) = Len(q) + 1 /\ t[Len(q) + 1] = new
          /\ \A i \in 1..Len(q) : t[i] = E(q)[i]
      BY <3>1, <3>3, AppendProperties
    <3> HIDE DEF t
    <3>5. \A i \in 1..Len(r) : E(r)[i] = t[i]
      <4> TAKE i \in 1..Len(r)
      <4>1. i \in 1..Len(q) \/ i = Len(q) + 1
        BY <2>2
      <4> QED
        BY <2>2, <3>1, <3>2, <3>4, <4>1
    <3>6. E(r) = t
      <4>1. Len(E(r)) = Len(t)
        BY <2>2, <3>2, <3>4
      <4> QED
        BY <3>2, <3>4, <3>5, <4>1, SeqEqual
    <3> QED
      BY <3>6 DEF t
  <2>6. initializeAll(r) = initializeAll(q) \o initialize(a)
    <3>1. FlattenSeq(E(r)) = IF E(q) = << >> THEN initialize(a) ELSE FlattenSeq(E(q)) \o initialize(a)
      BY <2>3, <2>4, <2>5, FlattenAppend
    <3>2. initializeAll(r) = FlattenSeq(E(r)) /\ initializeAll(q) = FlattenSeq(E(q))
      BY DEF initializeAll
    <3>3. << >> \o initialize(a) = initialize(a)
      BY <2>3
    <3> HIDE DEF E
    <3>4. CASE q = << >>
      BY <1>1, <2>4, <3>1, <3>2, <3>3, <3>4
    <3>5. CASE q # << >>
      BY <2>4, <3>1, <3>2, <3>5
    <3> QED
      BY <3>4, <3>5
  <2>7. ToSet(r) = ToSet(q) \cup {a} /\ (IsInjective(r) <=> IsInjective(q) /\ a \notin ToSet(q))
    BY <2>1, ListAppend
  <2> HIDE DEF r, E
  <2> DEFINE c == initializeAll(q)
  <2>8. c \in Seq(Event) /\ ToSet(c) = CallsOf(ToSet(q)) /\ (IsInjective(q) => IsInjective(c))
    OBVIOUS
  <2> HIDE DEF c, P
  <2>9. /\ c \o initialize(a) \in Seq(Event) /\ ToSet(c \o initialize(a)) = ToSet(c) \cup CallsOf({a})
        /\ IsInjective(c) /\ ToSet(c) \cap CallsOf({a}) = {} => IsInjective(c \o initialize(a))
    BY <2>8, InitializeAfter
  <2>10. CallsOf(ToSet(q)) \cup CallsOf({a}) = CallsOf(ToSet(r))
    BY <2>7 DEF CallsOf
  <2>11. a \notin ToSet(q) => CallsOf(ToSet(q)) \cap CallsOf({a}) = {}
    BY DEF CallsOf, ConnectionOf, ReadyCall
  <2> QED
    BY <2>1, <2>6, <2>7, <2>8, <2>9, <2>10, <2>11 DEF c, P, r
<1>4. P \in SUBSET Seq(AllAccounts)
  OBVIOUS
<1> HIDE DEF P
<1>5. P = Seq(AllAccounts)
  BY <1>2, <1>3, <1>4, ListInduction
<1> QED
  BY <1>5 DEF P

(***************************************************************************)
(* Default accounts.                                                       *)
(***************************************************************************)
LEMMA FirstAccountIs ==
  ASSUME NEW S
  PROVE  FirstAccount(S) \in (S \cap AllAccounts) \cup {NoAccount}
<1> DEFINE s == Keep(Order, S)
<1>1. s \in Seq(AllAccounts) /\ ToSet(s) = AllAccounts \cap S
  BY AccountsAssumption, KeepElements DEF AllAccounts
<1> HIDE DEF s
<1>2. CASE s = << >>
  BY <1>2 DEF FirstAccount, s
<1>3. CASE s # << >>
  <2>1. Head(s) \in ToSet(s)
    BY <1>1, <1>3, ListTail
  <2> QED
    BY <1>1, <1>3, <2>1 DEF FirstAccount, s
<1> QED
  BY <1>2, <1>3

LEMMA DefaultIsKnown ==
  ASSUME NEW accounts, NEW s \in Settings
  PROVE  LET a == DefaultForCalls(accounts, s)
         IN  /\ a \in accounts \cup {NoAccount}
             /\ a # NoAccount => a \notin Sims \/ a = s
<1> DEFINE others == {a \in accounts \ Sims : Active(a)}
           named == {a \in accounts : a = s \/ (s = "unset" /\ a \notin Sims)}
<1>1. DefaultForCalls(accounts, s) = IF others # {} THEN FirstAccount(others) ELSE FirstAccount(named)
  BY DEF DefaultForCalls, AccountOfSetting
<1>2. FirstAccount(others) \in others \cup {NoAccount} /\ FirstAccount(named) \in named \cup {NoAccount}
  BY FirstAccountIs
<1> QED
  BY <1>1, <1>2

LEMMA DefaultsRefreshed ==
  ASSUME calls \in Settings, RefreshDefaults
  PROVE  DefaultsAreKnown'
<1>1. /\ mDefaultMessagingAccount' = AccountOfSetting(messages, mAccounts')
      /\ mDefaultCallAccount' = DefaultForCalls(mAccounts', calls)
      /\ messages' = messages /\ calls' = calls
  BY DEF RefreshDefaults
<1>2. /\ mDefaultCallAccount' \in mAccounts' \cup {NoAccount}
      /\ mDefaultCallAccount' # NoAccount => mDefaultCallAccount' \notin Sims \/ mDefaultCallAccount' = calls
  BY <1>1, DefaultIsKnown
<1> QED
  BY <1>1, <1>2 DEF DefaultsAreKnown, AccountOfSetting

LEMMA DefaultsStay ==
  ASSUME DefaultsAreKnown, UNCHANGED <<defaults, mAccounts>>
  PROVE  DefaultsAreKnown'
BY DEF DefaultsAreKnown, AccountOfSetting, defaults

(***************************************************************************)
(* The steps.                                                              *)
(***************************************************************************)
\* What does not look at the variables that change stays true.
LEMMA AccountsFrame ==
  ASSUME AccountsInv
  PROVE  /\ UNCHANGED <<events, entries, ready, awaited>> => QueuedOnce'
         /\ UNCHANGED <<events, ready, awaited, mPendingAccountReady, accountManager, mReady>> => CountdownIsRight'
         /\ UNCHANGED <<events, entries, conn, online, watched, mAccounts, toldActive>> => PresenceIsFollowed'
         /\ UNCHANGED <<events, entries, conn, heard, signals, count>> => SignalsTell'
         /\ UNCHANGED <<conn, heard, signals, mVoicemailCount, count>> => VoicemailIsKnown'
         /\ UNCHANGED <<setupReady, mReady, awaited, ready>> => SetupIsComplete'
         /\ UNCHANGED <<defaults, mAccounts>> => DefaultsAreKnown'
<1> USE DEF AccountsInv
<1>1. UNCHANGED <<events, entries, ready, awaited>> => QueuedOnce'
  BY DEF QueuedOnce
<1>2. UNCHANGED <<events, ready, awaited, mPendingAccountReady, accountManager, mReady>> => CountdownIsRight'
  BY DEF CountdownIsRight, AwaitedUpTo
<1>3. UNCHANGED <<events, entries, conn, online, watched, mAccounts, toldActive>> => PresenceIsFollowed'
  BY DEF PresenceIsFollowed, activeAccounts, Active
<1>4. UNCHANGED <<events, entries, conn, heard, signals, count>> => SignalsTell'
  BY DEF SignalsTell, Settled
<1>5. UNCHANGED <<conn, heard, signals, mVoicemailCount, count>> => VoicemailIsKnown'
  BY DEF VoicemailIsKnown
<1>6. UNCHANGED <<setupReady, mReady, awaited, ready>> => SetupIsComplete'
  BY DEF SetupIsComplete
<1>7. UNCHANGED <<defaults, mAccounts>> => DefaultsAreKnown'
  BY DefaultsStay
<1> QED
  BY <1>1, <1>2, <1>3, <1>4, <1>5, <1>6, <1>7

LEMMA ManagerReadyStep ==
  ASSUME AccountsInv, onAccountManagerReady
  PROVE  AccountsInv'
<1> USE DEF AccountsInv
<1>1. CASE /\ accountManager' = "failed"
           /\ UNCHANGED <<mPendingAccountReady, mReady, awaited, ready, setupReady, network, signals,
                          mAccounts, entry, events, defaults, toldActive>>
  <2>1. accountManager # "ready"
    BY DEF onAccountManagerReady
  <2>2. AccountTypes'
    BY <1>1, <2>1 DEF AccountTypes, network, entry, defaults
  <2>3. CountdownIsRight'
    BY <1>1, <2>1 DEF CountdownIsRight, AwaitedUpTo
  <2> QED
    BY <1>1, <2>2, <2>3, AccountsFrame DEF network, entry, defaults
<1>2. CASE /\ accountManager' = "ready" /\ accountManager = "pending"
           /\ onNewAccounts(valid)
           /\ mPendingAccountReady' = Cardinality(mAccounts')
           /\ mReady' = (valid = {})
           /\ setupReady' = IF valid = {} THEN setupReady + 1 ELSE setupReady
           /\ awaited' = valid
           /\ UNCHANGED ready
  <2> DEFINE s == Keep(Order, valid)
             R == initializeAll(s)
  <2>1. /\ entries = {} /\ events = << >> /\ ~mReady /\ mAccounts = {} /\ ready = {} /\ setupReady = 0
        /\ valid \subseteq AllAccounts /\ conn \in [AllAccounts -> Nat]
    BY <1>2 DEF AccountTypes, QueuedOnce, SetupIsComplete
  <2>2. s \in Seq(AllAccounts) /\ ToSet(s) = valid /\ IsInjective(s)
    <3>1. Order \in Seq(AllAccounts) /\ IsInjective(Order) /\ ToSet(Order) \cap valid = valid
      BY <2>1, AccountsAssumption DEF AllAccounts
    <3> QED
      BY <3>1, KeepElements
  <2> HIDE DEF s
  <2>3. R \in Seq(Event) /\ ToSet(R) = CallsOf(valid) /\ IsInjective(R)
    BY <2>1, <2>2, InitializeMany
  <2>4. /\ entries' = valid /\ mAccounts' = valid /\ events' = R /\ ready' = {} /\ awaited' = valid
        /\ toldActive' = activeAccounts' /\ RefreshDefaults
        /\ UNCHANGED <<network, signals, watched, heard, mVoicemailCount>>
    <3>1. /\ entries' = entries \cup valid /\ mAccounts' = mAccounts \cup valid
          /\ events' = events \o R
          /\ UNCHANGED <<network, signals, watched, heard, mVoicemailCount>>
          /\ toldActive' = activeAccounts' /\ RefreshDefaults
      BY <1>2 DEF onNewAccounts, s
    <3> HIDE DEF R
    <3>2. << >> \o R = R
      BY <2>3
    <3> QED
      BY <1>2, <2>1, <3>1, <3>2
  <2> HIDE DEF R
  <2>5. \A e \in ToSet(R) : /\ e.of \in valid
                            /\ e.slot = "onConnectionChanged" => e.conn = conn[e.of]
    BY <2>3 DEF CallsOf, ConnectionOf, ReadyCall
  <2>6. \A a \in valid : ConnectionOf(a, conn[a]) \in ToSet(R) /\ ReadyCall(a) \in ToSet(R)
    BY <2>3 DEF CallsOf
  <2>7. AccountTypes'
    BY <1>2, <2>1, <2>3, <2>4 DEF AccountTypes, network, RefreshDefaults
  <2>8. QueuedOnce'
    BY <2>3, <2>4, <2>5 DEF QueuedOnce
  <2>9. CountdownIsRight'
    <3>1. mPendingAccountReady' = Cardinality(awaited' \ ready') /\ (~mReady' => awaited' \ ready' # {})
      <4>1. valid \ {} = valid
        OBVIOUS
      <4> QED
        BY <1>2, <2>4, <4>1
    <3>2. ASSUME NEW a \in valid PROVE \E i \in 1..Len(R) : R[i] = ReadyCall(a)
      BY <2>3, <2>6 DEF ToSet
    <3>3. \A k \in 1..Len(R) : R[k].of \in valid
      BY <2>3, <2>5 DEF ToSet
    <3>4. \A i \in 1..Len(R) : \A k \in 1..i : k \in 1..Len(R)
      BY <2>3
    <3>5. \A i \in 1..Len(R) : AwaitedUpTo(i)'
      BY <2>4, <3>3, <3>4 DEF AwaitedUpTo
    <3> QED
      BY <2>4, <3>1, <3>2, <3>5 DEF CountdownIsRight, ReadyCall
  <2>10. PresenceIsFollowed'
    BY <2>4, <2>6 DEF PresenceIsFollowed, network, ConnectionOf
  <2>11. \A a \in Sims, c \in Nat : <<a, c>> \notin heard
    BY <2>1 DEF SignalsTell
  <2>12. SignalsTell'
    <3>1. UNCHANGED <<signals, heard, conn, count>>
      BY <2>4 DEF network
    <3>2. \A a \in Sims : signals[a] = << >>
      BY <2>11, AccountsAssumption DEF SignalsTell, AccountTypes
    <3>3. \A e \in ToSet(events') : e.slot = "onConnectionChanged" => e.conn = conn'[e.of]
      BY <2>4, <2>5, <3>1
    <3>4. \A a \in Sims, c \in Nat : <<a, c>> \notin heard'
      BY <2>11, <3>1
    <3>5. \A a \in Sims : signals'[a] = << >>
      BY <3>1, <3>2
    <3>6. (\A a \in Sims, c \in Nat : <<a, c>> \in heard => c # 0 /\ a \in entries /\ Settled(a))'
      BY <3>4
    <3>7. (\A e \in ToSet(events) :
             e.slot = "onConnectionChanged" /\ e.of \in Sims => e.conn = conn[e.of] \/ Settled(e.of))'
      BY <3>3
    <3>8. (\A a \in Sims : signals[a] # << >> => <<a, conn[a]>> \in heard /\ Last(signals[a]) = count[a])'
      BY <3>5
    <3> QED
      BY <3>6, <3>7, <3>8 DEF SignalsTell
  <2>13. SetupIsComplete'
    <3>1. mReady' <=> valid = {}
      BY <1>2
    <3>2. CASE valid = {}
      <4>1. setupReady' = 1 /\ awaited' = {}
        BY <1>2, <2>1, <3>2
      <4> QED
        BY <3>1, <3>2, <4>1 DEF SetupIsComplete
    <3>3. CASE valid # {}
      <4>1. setupReady' = 0
        BY <1>2, <2>1, <3>3
      <4> QED
        BY <3>1, <3>3, <4>1 DEF SetupIsComplete
    <3> QED
      BY <3>2, <3>3
  <2>14. DefaultsAreKnown'
    BY <2>4, DefaultsRefreshed DEF AccountTypes
  <2>15. VoicemailIsKnown'
    <3>1. \A a \in Sims : conn[a] \in Nat
      BY <2>1, AccountsAssumption
    <3> QED
      BY <2>4, <2>11, <3>1 DEF VoicemailIsKnown, network
  <2> QED
    BY <2>7, <2>8, <2>9, <2>10, <2>12, <2>13, <2>14, <2>15
<1> QED
  BY <1>1, <1>2 DEF onAccountManagerReady

LEMMA NewAccountStep ==
  ASSUME AccountsInv, NEW a \in AllAccounts, NewAccount(a)
  PROVE  AccountsInv'
<1> USE DEF AccountsInv
<1>1. CASE accountManager # "ready"
  <2>1. /\ valid' = valid \cup {a}
        /\ UNCHANGED <<conn, conns, online, count, signals, mAccounts, entry, events, setup, defaults, toldActive>>
    BY <1>1 DEF NewAccount
  <2>2. AccountTypes'
    BY <2>1 DEF AccountTypes, entry, setup, defaults
  <2> QED
    BY <2>1, <2>2, AccountsFrame DEF entry, setup
<1>2. CASE accountManager = "ready"
  <2>1. /\ valid' = valid \cup {a} /\ a \notin entries
        /\ entries' = entries \cup {a} /\ mAccounts' = mAccounts \cup {a}
        /\ events' = events \o initialize(a)
        /\ UNCHANGED <<conn, conns, online, count, signals, watched, heard, mVoicemailCount, setup>>
        /\ toldActive' = activeAccounts' /\ RefreshDefaults
    BY <1>2 DEF NewAccount
  <2>2. conn \in [AllAccounts -> Nat] /\ events \in Seq(Event)
    BY DEF AccountTypes
  <2>3. ToSet(events) \cap CallsOf({a}) = {}
    BY <2>1 DEF QueuedOnce, CallsOf, ConnectionOf, ReadyCall
  <2>4. /\ events' \in Seq(Event) /\ ToSet(events') = ToSet(events) \cup CallsOf({a}) /\ IsInjective(events')
    BY <2>1, <2>2, <2>3, InitializeAfter DEF QueuedOnce
  <2>5. /\ Len(events) \in Nat /\ Len(events') \in Nat /\ Len(events) <= Len(events')
        /\ \A i \in 1..Len(events) : events'[i] = events[i]
    <3> DEFINE t == initialize(a)
    <3>1. t \in Seq(Event)
      <4>1. t = <<ConnectionOf(a, conn[a]), ReadyCall(a)>> /\ ConnectionOf(a, conn[a]) \in Event /\ ReadyCall(a) \in Event
        BY <2>2, InitializeIs
      <4> QED
        BY <4>1
    <3> HIDE DEF t
    <3>2. /\ Len(events \o t) = Len(events) + Len(t)
          /\ \A i \in 1..Len(events) + Len(t) : (events \o t)[i] = IF i <= Len(events) THEN events[i] ELSE t[i - Len(events)]
      BY <2>2, <3>1, ConcatProperties
    <3> QED
      BY <2>1, <2>2, <3>1, <3>2 DEF t
  <2>6. AccountTypes'
    BY <1>2, <2>1, <2>4 DEF AccountTypes, setup, RefreshDefaults
  <2>7. QueuedOnce'
    <3>1. \A e \in CallsOf({a}) : e.of = a
      BY DEF CallsOf, ConnectionOf, ReadyCall
    <3>2. a \notin ready
      BY <2>1 DEF QueuedOnce
    <3> QED
      BY <2>1, <2>4, <3>1, <3>2 DEF QueuedOnce, setup
  <2>8. CountdownIsRight'
    <3>1. ASSUME NEW i \in 1..Len(events), AwaitedUpTo(i) PROVE AwaitedUpTo(i)'
      <4>1. \A k \in 1..i : k \in 1..Len(events)
        BY <2>5
      <4> QED
        BY <2>1, <2>5, <3>1, <4>1 DEF AwaitedUpTo, setup
    <3>2. ASSUME NEW b \in awaited \ ready
          PROVE  \E i \in 1..Len(events') : events'[i] = ReadyCall(b) /\ AwaitedUpTo(i)'
      <4>1. PICK i \in 1..Len(events) : events[i] = ReadyCall(b) /\ AwaitedUpTo(i)
        BY DEF CountdownIsRight
      <4> QED
        BY <2>5, <3>1, <4>1
    <3> QED
      BY <2>1, <3>2 DEF CountdownIsRight, setup, ReadyCall
  <2>9. PresenceIsFollowed'
    <3>1. ConnectionOf(a, conn[a]) \in ToSet(events')
      BY <2>4 DEF CallsOf
    <3> QED
      BY <2>1, <2>4, <3>1 DEF PresenceIsFollowed, ConnectionOf
  <2>10. SignalsTell'
    <3>1. \A e \in CallsOf({a}) : e.slot = "onConnectionChanged" => e.conn = conn[e.of]
      BY DEF CallsOf, ConnectionOf, ReadyCall
    <3> QED
      BY <2>1, <2>4, <3>1 DEF SignalsTell, Settled
  <2>11. SetupIsComplete' /\ VoicemailIsKnown'
    BY <2>1, AccountsFrame DEF setup
  <2>12. DefaultsAreKnown'
    BY <2>1, DefaultsRefreshed DEF AccountTypes
  <2> QED
    BY <2>6, <2>7, <2>8, <2>9, <2>10, <2>11, <2>12
<1> QED
  BY <1>1, <1>2

LEMMA RemovedStep ==
  ASSUME AccountsInv, NEW a \in AllAccounts, onAccountRemoved(a)
  PROVE  AccountsInv'
<1> USE DEF AccountsInv
<1>1. valid' = valid \ {a} /\ UNCHANGED <<conn, conns, online, count, signals, entry, events, setup>>
  BY DEF onAccountRemoved
<1>2. QueuedOnce' /\ CountdownIsRight' /\ SignalsTell' /\ VoicemailIsKnown' /\ SetupIsComplete'
  BY <1>1, AccountsFrame DEF entry, setup
<1>3. CASE a \in mAccounts
  <2>1. mAccounts' = mAccounts \ {a} /\ toldActive' = activeAccounts' /\ RefreshDefaults
    BY <1>3 DEF onAccountRemoved
  <2>2. AccountTypes'
    BY <1>1, <2>1 DEF AccountTypes, entry, setup, RefreshDefaults
  <2>3. PresenceIsFollowed'
    BY <1>1, <2>1 DEF PresenceIsFollowed, entry, ConnectionOf
  <2>4. DefaultsAreKnown'
    BY <2>1, DefaultsRefreshed DEF AccountTypes
  <2> QED
    BY <1>2, <2>2, <2>3, <2>4
<1>4. CASE a \notin mAccounts
  <2>1. UNCHANGED <<mAccounts, toldActive, defaults>>
    BY <1>4 DEF onAccountRemoved
  <2>2. AccountTypes'
    BY <1>1, <2>1 DEF AccountTypes, entry, setup, defaults
  <2> QED
    BY <1>1, <1>2, <2>1, <2>2, AccountsFrame DEF entry
<1> QED
  BY <1>3, <1>4

LEMMA SettingStep ==
  ASSUME AccountsInv, SettingChanged
  PROVE  AccountsInv'
<1> USE DEF AccountsInv
<1>1. UNCHANGED <<network, signals, mAccounts, entry, events, setup, toldActive>>
  BY DEF SettingChanged
<1>2. AccountTypes'
  BY <1>1 DEF AccountTypes, SettingChanged, network, entry, setup
<1>3. DefaultsAreKnown'
  <2>1. CASE /\ calls' \in Settings
             /\ mDefaultCallAccount' = DefaultForCalls(mAccounts, calls')
             /\ UNCHANGED <<messages, mDefaultMessagingAccount>>
    <3>1. /\ mDefaultCallAccount' \in mAccounts \cup {NoAccount}
          /\ mDefaultCallAccount' # NoAccount => mDefaultCallAccount' \notin Sims \/ mDefaultCallAccount' = calls'
      BY <2>1, DefaultIsKnown
    <3> QED
      BY <1>1, <2>1, <3>1 DEF DefaultsAreKnown, AccountOfSetting
  <2>2. CASE /\ mDefaultMessagingAccount' = AccountOfSetting(messages', mAccounts)
             /\ UNCHANGED <<calls, mDefaultCallAccount>>
    BY <1>1, <2>2 DEF DefaultsAreKnown, AccountOfSetting
  <2> QED
    BY <2>1, <2>2 DEF SettingChanged
<1> QED
  BY <1>1, <1>2, <1>3, AccountsFrame DEF network, entry, setup

\* The presence of an account changes.
LEMMA PresenceStep ==
  ASSUME AccountsInv, NEW a \in AllAccounts, PresenceChanged(a)
  PROVE  AccountsInv'
<1> USE DEF AccountsInv
<1>1. /\ conn[a] # 0
      /\ UNCHANGED <<valid, conn, conns, count, signals, mAccounts, entry, events, setup, defaults>>
      /\ \A b \in AllAccounts : b # a => (b \in online' <=> b \in online)
      /\ IF <<a, conn[a]>> \in watched THEN activeChanged(a) ELSE UNCHANGED toldActive
  BY DEF PresenceChanged
<1>2. AccountTypes'
  BY <1>1 DEF AccountTypes, entry, setup, defaults
<1>3. PresenceIsFollowed'
  <2>1. a \notin mAccounts => activeAccounts' = activeAccounts
    BY <1>1 DEF activeAccounts, Active, AccountTypes
  <2>2. toldActive' # activeAccounts' =>
          \E e \in ToSet(events) : e.slot = "onConnectionChanged" /\ e.of \in mAccounts
    <3>1. CASE a \notin mAccounts
      BY <1>1, <2>1, <3>1 DEF activeChanged, PresenceIsFollowed
    <3>2. CASE a \in mAccounts /\ <<a, conn[a]>> \in watched
      BY <1>1, <3>2 DEF activeChanged
    <3>3. CASE a \in mAccounts /\ <<a, conn[a]>> \notin watched
      <4>1. ConnectionOf(a, conn[a]) \in ToSet(events)
        BY <1>1, <3>3 DEF PresenceIsFollowed, AccountTypes
      <4> QED
        BY <3>3, <4>1 DEF ConnectionOf
    <3> QED
      BY <3>1, <3>2, <3>3
  <2> QED
    BY <1>1, <2>2 DEF PresenceIsFollowed, ConnectionOf, entry
<1> QED
  BY <1>1, <1>2, <1>3, AccountsFrame DEF entry, setup

\* The entry of account a follows connection c, which may be gone if another one
\* is heard or there is none.
LEMMA FollowStep ==
  ASSUME AccountsInv, NEW a \in entries, NEW c \in Nat, onConnectionChanged(a, c),
         conn' \in [AllAccounts -> Nat],
         \A b \in AllAccounts : b # a => conn'[b] = conn[b],
         UNCHANGED <<count, signals>>,
         c = conn'[a] \/ (conn'[a] = conn[a] /\ (a \in Sims => Settled(a)))
  PROVE  /\ mVoicemailCount' \in [Sims -> 0..1] /\ VoicemailIsKnown' /\ heard \subseteq heard'
         /\ \A b \in Sims : b = a \/ Settled(b) => Settled(b)'
         /\ \A b \in Sims, d \in Nat : <<b, d>> \in heard' => d # 0 /\ b \in entries /\ Settled(b)'
<1> USE DEF AccountsInv
<1>1. /\ heard' = IF a \in Sims /\ c # 0 THEN heard \cup {<<a, c>>} ELSE heard
      /\ mVoicemailCount' = IF a \in Sims /\ c # 0 /\ c = conn'[a]
                            THEN [mVoicemailCount EXCEPT ![a] = count[a]] ELSE mVoicemailCount
  BY DEF onConnectionChanged
<1>2. /\ mVoicemailCount' \in [Sims -> 0..1]
      /\ \A b \in Sims : b # a => mVoicemailCount'[b] = mVoicemailCount[b]
      /\ a \in Sims /\ c # 0 /\ c = conn'[a] => mVoicemailCount'[a] = count[a]
      /\ c # conn'[a] => mVoicemailCount' = mVoicemailCount
  <2>1. mVoicemailCount \in [Sims -> 0..1] /\ count \in [Sims -> 0..1]
    BY DEF AccountTypes
  <2>2. CASE a \in Sims /\ c # 0 /\ c = conn'[a]
    <3>1. count[a] \in 0..1 /\ mVoicemailCount' = [mVoicemailCount EXCEPT ![a] = count[a]]
      BY <1>1, <2>1, <2>2
    <3> QED
      BY <2>1, <2>2, <3>1
  <2>3. CASE ~(a \in Sims /\ c # 0 /\ c = conn'[a])
    BY <1>1, <2>1, <2>3
  <2> QED
    BY <2>2, <2>3
<1>3. \A b \in Sims : b \in AllAccounts /\ conn[b] \in Nat /\ conn'[b] \in Nat
  BY AccountsAssumption DEF AccountTypes
<1>4. \A b \in Sims, d \in Nat : <<b, d>> \in heard => d # 0 /\ b \in entries /\ Settled(b)
  BY DEF SignalsTell
<1>5. \A b \in Sims : b = a \/ Settled(b) => Settled(b)'
  BY <1>1, <1>3 DEF Settled
<1>6. \A b \in Sims, d \in Nat : <<b, d>> \in heard' => d # 0 /\ b \in entries /\ Settled(b)'
  BY <1>1, <1>4, <1>5
<1>7. ASSUME NEW b \in Sims, <<b, conn'[b]>> \in heard', signals'[b] = << >>
      PROVE  mVoicemailCount'[b] = count'[b]
  <2>1. CASE b # a
    <3>1. <<b, conn[b]>> \in heard /\ signals[b] = << >>
      BY <1>1, <1>3, <1>7, <2>1
    <3> QED
      BY <1>2, <2>1, <3>1 DEF VoicemailIsKnown
  <2>2. CASE b = a /\ c = conn'[a]
    <3>1. c # 0
      BY <1>3, <1>6, <1>7, <2>2
    <3> QED
      BY <1>2, <1>7, <2>2, <3>1
  <2>3. CASE b = a /\ c # conn'[a]
    <3>1. <<b, conn[b]>> \in heard /\ signals[b] = << >> /\ mVoicemailCount' = mVoicemailCount
      BY <1>1, <1>2, <1>7, <2>3
    <3> QED
      BY <3>1 DEF VoicemailIsKnown
  <2> QED
    BY <2>1, <2>2, <2>3
<1>8. VoicemailIsKnown'
  BY <1>7 DEF VoicemailIsKnown
<1> QED
  BY <1>1, <1>2, <1>5, <1>6, <1>8

LEMMA ConnectionStep ==
  ASSUME AccountsInv, NEW a \in AllAccounts, ConnectionChanged(a)
  PROVE  AccountsInv'
<1> USE DEF AccountsInv
<1>1. /\ UNCHANGED <<valid, count, signals, setup, defaults, events>>
      /\ conn' \in [AllAccounts -> Nat] /\ conns' \in [AllAccounts -> Nat]
      /\ \A b \in AllAccounts : b # a => conn'[b] = conn[b] /\ (b \in online' <=> b \in online)
      /\ conn'[a] = 0 \/ conn[a] = 0
      /\ a \in Sims => signals[a] = << >>
  <2>1. conn \in [AllAccounts -> Nat] /\ conns \in [AllAccounts -> Nat]
    BY DEF AccountTypes
  <2>2. CASE /\ conn[a] = 0 /\ conns' = [conns EXCEPT ![a] = @ + 1]
             /\ conn' = [conn EXCEPT ![a] = conns'[a]] /\ online' = online \cup {a}
    <3>1. conns' \in [AllAccounts -> Nat]
      BY <2>1, <2>2
    <3> QED
      BY <2>1, <2>2, <3>1 DEF ConnectionChanged
  <2>3. CASE /\ conn' = [conn EXCEPT ![a] = 0] /\ online' = online \ {a} /\ UNCHANGED conns
    BY <2>1, <2>3 DEF ConnectionChanged
  <2> QED
    BY <2>2, <2>3 DEF ConnectionChanged
<1>2. QueuedOnce' /\ CountdownIsRight' /\ SetupIsComplete' /\ DefaultsAreKnown'
  <2>1. UNCHANGED <<entries, mAccounts>>
    BY DEF ConnectionChanged, onConnectionChanged, entry
  <2> QED
    BY <1>1, <2>1, AccountsFrame DEF setup
<1>3. CASE a \in entries
  <2>1. /\ onConnectionChanged(a, conn'[a]) /\ UNCHANGED <<entries, mAccounts>> /\ activeChanged(a)
        /\ watched' = IF conn'[a] # 0 THEN watched \cup {<<a, conn'[a]>>} ELSE watched
    BY <1>3 DEF ConnectionChanged, onConnectionChanged
  <2>2. /\ mVoicemailCount' \in [Sims -> 0..1] /\ VoicemailIsKnown' /\ heard \subseteq heard'
        /\ \A b \in Sims : b = a \/ Settled(b) => Settled(b)'
        /\ \A b \in Sims, d \in Nat : <<b, d>> \in heard' => d # 0 /\ b \in entries /\ Settled(b)'
    BY <1>1, <1>3, <2>1, FollowStep
  <2>3. AccountTypes'
    BY <1>1, <2>1, <2>2 DEF AccountTypes, setup, defaults
  <2>4. PresenceIsFollowed'
    <3>1. \A b \in entries : conn'[b] # 0 =>
            <<b, conn'[b]>> \in watched' \/ ConnectionOf(b, conn'[b]) \in ToSet(events)
      BY <1>1, <2>1 DEF PresenceIsFollowed, AccountTypes
    <3>2. a \notin mAccounts => activeAccounts' = activeAccounts
      BY <1>1, <2>1 DEF activeAccounts, Active, AccountTypes
    <3> QED
      BY <1>1, <2>1, <3>1, <3>2 DEF PresenceIsFollowed, activeChanged, ConnectionOf
  <2>5. SignalsTell'
    <3>1. \A e \in ToSet(events) : e.slot = "onConnectionChanged" /\ e.of \in Sims =>
                                     e.conn = conn'[e.of] \/ Settled(e.of)'
      <4> TAKE e \in ToSet(events)
      <4>1. e.of \in entries /\ e.of \in AllAccounts
        BY DEF QueuedOnce, AccountTypes
      <4> QED
        BY <1>1, <2>2, <4>1 DEF SignalsTell
    <3>2. \A b \in Sims : signals[b] # << >> => b # a /\ b \in AllAccounts
      BY <1>1, AccountsAssumption
    <3>3. \A b \in Sims : signals'[b] # << >> =>
                            <<b, conn'[b]>> \in heard' /\ Last(signals'[b]) = count'[b]
      BY <1>1, <2>2, <3>2 DEF SignalsTell
    <3> QED
      BY <2>1, <2>2, <1>1, <3>1, <3>3 DEF SignalsTell
  <2> QED
    BY <1>2, <2>2, <2>3, <2>4, <2>5
<1>4. CASE a \notin entries
  <2>1. UNCHANGED <<entry, mAccounts, toldActive>>
    BY <1>4 DEF ConnectionChanged
  <2>2. AccountTypes'
    BY <1>1, <2>1 DEF AccountTypes, entry, setup, defaults
  <2>3. PresenceIsFollowed'
    <3>1. activeAccounts' = activeAccounts
      BY <1>1, <1>4, <2>1 DEF activeAccounts, Active, AccountTypes
    <3> QED
      BY <1>1, <1>4, <2>1, <3>1 DEF PresenceIsFollowed, ConnectionOf, entry, AccountTypes
  <2>4. \A b \in Sims : b \in AllAccounts /\ conn[b] \in Nat /\ conn'[b] \in Nat
    BY <1>1, AccountsAssumption DEF AccountTypes
  <2>5. SignalsTell'
    BY <1>1, <1>4, <2>1, <2>4 DEF SignalsTell, Settled, QueuedOnce, entry, AccountTypes
  <2>6. VoicemailIsKnown'
    <3>1. \A b \in Sims : <<b, conn'[b]>> \in heard => b # a
      BY <1>4, <2>4 DEF SignalsTell
    <3> QED
      BY <1>1, <2>1, <2>4, <3>1 DEF VoicemailIsKnown, entry
  <2> QED
    BY <1>2, <2>2, <2>3, <2>5, <2>6
<1> QED
  BY <1>3, <1>4

\* The event loop runs a queued call.
LEMMA EventStep ==
  ASSUME AccountsInv, ProcessEvent
  PROVE  AccountsInv'
<1> USE DEF AccountsInv
<1> DEFINE e == Head(events)
<1>1. /\ events \in Seq(Event) /\ events # << >> /\ IsInjective(events) /\ events' = Tail(events)
  BY DEF AccountTypes, QueuedOnce, ProcessEvent
<1>2. /\ events' \in Seq(Event) /\ e \in Event /\ ToSet(events) = {e} \cup ToSet(events')
      /\ IsInjective(events') /\ e \notin ToSet(events')
  BY <1>1, ListTail, ListTailInjective
<1>3. /\ Len(events) \in Nat /\ Len(events) # 0 /\ Len(events') = Len(events) - 1
      /\ \A i \in 1..Len(events') : events'[i] = events[i + 1]
      /\ events[1] = e
  BY <1>1
<1>4. e.of \in entries /\ e.of \in AllAccounts
  BY <1>2 DEF QueuedOnce, AccountTypes
<1>5. CASE e.slot = "accountReady"
  <2> DEFINE a == e.of
  <2>1. e = ReadyCall(a)
    BY <1>2, <1>5 DEF Event, ReadyCall
  <2>2. onAccountReady(a)
    BY <1>5 DEF ProcessEvent
  <2>3. /\ ready' = ready \cup {a}
        /\ IF mReady
           THEN UNCHANGED <<mPendingAccountReady, mReady, setupReady>>
           ELSE /\ mPendingAccountReady' = mPendingAccountReady - 1
                /\ mReady' = (mPendingAccountReady = 1)
                /\ setupReady' = IF mPendingAccountReady = 1 THEN setupReady + 1 ELSE setupReady
        /\ UNCHANGED <<accountManager, awaited, network, signals, mAccounts, entry, defaults, toldActive>>
    BY <2>2 DEF onAccountReady
  <2>4. accountManager = "ready"
    BY <1>1 DEF AccountTypes
  <2>5. a \notin ready
    BY <1>2, <1>5 DEF QueuedOnce
  <2> HIDE DEF e
  <2>6. AccountTypes'
    BY <1>2, <2>3, <2>4 DEF AccountTypes, network, entry, defaults
  <2>7. QueuedOnce'
    <3>1. \A x \in ToSet(events') : x.slot = "accountReady" => x.of # a
      <4> TAKE x \in ToSet(events')
      <4>1. x \in Event /\ x # e
        BY <1>2, ListEmpty
      <4> QED
        BY <2>1, <4>1 DEF Event, ReadyCall
    <3> QED
      BY <1>2, <1>4, <2>3, <3>1 DEF QueuedOnce, entry
  <2> DEFINE left == awaited \ ready
  <2>8. ~mReady => a \in left /\ mPendingAccountReady = Cardinality(left)
    <3> SUFFICES ASSUME ~mReady PROVE a \in left /\ mPendingAccountReady = Cardinality(left)
      OBVIOUS
    <3>1. mPendingAccountReady = Cardinality(left) /\ left # {}
      BY <2>4 DEF CountdownIsRight
    <3>2. PICK b \in left : \E i \in 1..Len(events) : AwaitedUpTo(i)
      BY <3>1 DEF CountdownIsRight
    <3>3. AwaitedUpTo(1)
      BY <1>3, <3>2 DEF AwaitedUpTo
    <3> QED
      BY <1>3, <1>5, <3>1, <3>3 DEF AwaitedUpTo
  <2>9. awaited' \ ready' = left \ {a}
    BY <2>3
  <2>10. IsFiniteSet(left) /\ Cardinality(left) \in Nat
    <3>1. IsFiniteSet(AllAccounts)
      BY AccountsAssumption, ListFinite DEF AllAccounts
    <3>2. left \subseteq AllAccounts
      BY DEF QueuedOnce, AccountTypes
    <3> QED
      BY <3>1, <3>2, FS_Subset, FS_CardinalityType
  <2> HIDE DEF left, a
  <2>11. ~mReady => Cardinality(left \ {a}) = mPendingAccountReady - 1
    BY <2>8, <2>10, FS_RemoveElement
  <2>12. ~mReady => (mPendingAccountReady = 1 <=> left \ {a} = {})
    <3>1. IsFiniteSet(left \ {a})
      BY <2>10, FS_Subset
    <3>2. Cardinality(left \ {a}) = 0 <=> left \ {a} = {}
      BY <3>1, FS_EmptySet
    <3> QED
      BY <2>8, <2>10, <2>11, <3>2
  <2>13. CountdownIsRight'
    <3>1. accountManager' = "ready" /\ ~mReady' =>
            mPendingAccountReady' = Cardinality(awaited' \ ready') /\ awaited' \ ready' # {}
      BY <2>3, <2>9, <2>11, <2>12
    <3>2. ASSUME NEW b \in left \ {a}
          PROVE  \E i \in 1..Len(events') : events'[i] = ReadyCall(b) /\ AwaitedUpTo(i)'
      <4>1. PICK i \in 1..Len(events) : events[i] = ReadyCall(b) /\ AwaitedUpTo(i)
        BY DEF CountdownIsRight, left
      <4>2. i # 1
        BY <1>3, <2>1, <3>2, <4>1 DEF ReadyCall
      <4> DEFINE j == i - 1
      <4>3. j \in 1..Len(events') /\ j + 1 = i
        BY <1>3, <4>2
      <4> HIDE DEF j
      <4>4. events'[j] = ReadyCall(b)
        BY <1>3, <4>1, <4>3
      <4>5. ASSUME NEW k \in 1..j, events'[k].slot = "accountReady" PROVE events'[k].of \in left \ {a}
        <5>1. k \in 1..Len(events') /\ k + 1 \in 1..i
          BY <4>3
        <5>2. events'[k] = events[k + 1]
          BY <1>3, <5>1
        <5>3. events'[k].of \in left
          BY <4>1, <4>5, <5>1, <5>2 DEF AwaitedUpTo, left
        <5>4. events'[k] \in ToSet(events')
          BY <1>2, <5>1 DEF ToSet
        <5>5. events'[k].of \notin ready'
          BY <2>7, <4>5, <5>4 DEF QueuedOnce
        <5> QED
          BY <2>3, <5>3, <5>5
      <4>6. AwaitedUpTo(j)'
        BY <2>9, <4>5 DEF AwaitedUpTo
      <4> QED
        BY <4>3, <4>4, <4>6
    <3> QED
      BY <2>9, <3>1, <3>2 DEF CountdownIsRight, ReadyCall
  <2>14. SetupIsComplete'
    <3>1. CASE mReady
      <4>1. UNCHANGED <<mReady, setupReady, awaited>> /\ ready \subseteq ready'
        BY <2>3, <3>1
      <4> QED
        BY <3>1, <4>1 DEF SetupIsComplete
    <3>2. CASE ~mReady
      <4>1. setupReady = 0
        BY <3>2 DEF SetupIsComplete
      <4>2. CASE mPendingAccountReady = 1
        <5>1. mReady' = (mPendingAccountReady = 1)
          BY <2>3, <3>2
        <5>2. mReady'
          BY <4>2, <5>1
        <5>3. setupReady' = 1 /\ left \ {a} = {}
          BY <2>3, <2>12, <3>2, <4>1, <4>2
        <5> QED
          BY <2>9, <5>2, <5>3 DEF SetupIsComplete
      <4>3. CASE mPendingAccountReady # 1
        <5>1. ~mReady' /\ setupReady' = 0
          BY <2>3, <3>2, <4>1, <4>3
        <5> QED
          BY <5>1 DEF SetupIsComplete
      <4> QED
        BY <4>2, <4>3
    <3> QED
      BY <3>1, <3>2
  <2>15. /\ \A x \in ToSet(events) : x.slot = "onConnectionChanged" => x \in ToSet(events')
         /\ ToSet(events') \subseteq ToSet(events)
    BY <1>2, <1>5
  <2>16. PresenceIsFollowed'
    BY <2>3, <2>15 DEF PresenceIsFollowed, network, entry, activeAccounts, Active, ConnectionOf
  <2>17. SignalsTell'
    BY <2>3, <2>15 DEF SignalsTell, Settled, network, entry
  <2>18. DefaultsAreKnown' /\ VoicemailIsKnown'
    BY <2>3, AccountsFrame DEF network, entry
  <2> QED
    BY <2>6, <2>7, <2>13, <2>14, <2>16, <2>17, <2>18
<1>6. CASE e.slot = "onConnectionChanged"
  <2> DEFINE a == e.of
             c == e.conn
  <2>1. e = ConnectionOf(a, c) /\ c \in Nat
    BY <1>2, <1>6 DEF Event, ConnectionOf
  <2>2. UNCHANGED <<network, signals, setup, defaults>> /\ onConnectionChanged(a, c)
    BY <1>6 DEF ProcessEvent
  <2>3. /\ UNCHANGED <<entries, mAccounts>> /\ activeChanged(a)
        /\ watched' = IF c # 0 /\ conn'[a] # 0 THEN watched \cup {<<a, conn'[a]>>} ELSE watched
    BY <2>2 DEF onConnectionChanged
  <2>4. a \in Sims => c = conn[a] \/ Settled(a)
    BY <1>2, <1>6 DEF SignalsTell
  <2> HIDE DEF e
  <2>5. /\ mVoicemailCount' \in [Sims -> 0..1] /\ VoicemailIsKnown' /\ heard \subseteq heard'
        /\ \A b \in Sims : b = a \/ Settled(b) => Settled(b)'
        /\ \A b \in Sims, d \in Nat : <<b, d>> \in heard' => d # 0 /\ b \in entries /\ Settled(b)'
    <3>1. /\ conn' \in [AllAccounts -> Nat] /\ UNCHANGED <<conn, count, signals>>
      BY <2>2 DEF AccountTypes, network
    <3>2. c = conn'[a] \/ (conn'[a] = conn[a] /\ (a \in Sims => Settled(a)))
      BY <2>4, <3>1
    <3> HIDE DEF a, c
    <3> QED
      BY <1>4, <2>1, <2>2, <3>1, <3>2, FollowStep DEF a
  <2>6. AccountTypes'
    BY <1>1, <1>2, <2>2, <2>3, <2>5 DEF AccountTypes, network, setup, defaults
  <2>7. QueuedOnce' /\ SetupIsComplete' /\ DefaultsAreKnown'
    BY <1>2, <2>2, <2>3, AccountsFrame DEF QueuedOnce, setup
  <2>8. CountdownIsRight'
    <3>1. UNCHANGED <<ready, awaited, mPendingAccountReady, accountManager, mReady>>
      BY <2>2 DEF setup
    <3>2. ASSUME NEW b \in awaited \ ready
          PROVE  \E i \in 1..Len(events') : events'[i] = ReadyCall(b) /\ AwaitedUpTo(i)'
      <4>1. PICK i \in 1..Len(events) : events[i] = ReadyCall(b) /\ AwaitedUpTo(i)
        BY DEF CountdownIsRight
      <4>2. i # 1
        BY <1>3, <1>6, <4>1 DEF ReadyCall
      <4> DEFINE j == i - 1
      <4>3. j \in 1..Len(events') /\ j + 1 = i
        BY <1>3, <4>2
      <4> HIDE DEF j
      <4>4. events'[j] = ReadyCall(b)
        BY <1>3, <4>1, <4>3
      <4>5. ASSUME NEW k \in 1..j, events'[k].slot = "accountReady" PROVE events'[k].of \in awaited \ ready
        <5>1. k \in 1..Len(events') /\ k + 1 \in 1..i
          BY <4>3
        <5>2. events'[k] = events[k + 1]
          BY <1>3, <5>1
        <5> QED
          BY <4>1, <4>5, <5>1, <5>2 DEF AwaitedUpTo
      <4>6. AwaitedUpTo(j)'
        BY <3>1, <4>5 DEF AwaitedUpTo
      <4> QED
        BY <4>3, <4>4, <4>6
    <3> QED
      BY <3>1, <3>2 DEF CountdownIsRight, ReadyCall
  <2>9. PresenceIsFollowed'
    <3>1. UNCHANGED <<conn, online>>
      BY <2>2 DEF network
    <3>2. ASSUME NEW b \in entries, conn[b] # 0
          PROVE  <<b, conn[b]>> \in watched' \/ ConnectionOf(b, conn[b]) \in ToSet(events')
      <4>1. CASE <<b, conn[b]>> \in watched
        BY <2>3, <4>1
      <4>2. CASE ConnectionOf(b, conn[b]) = e
        <5>1. b = a /\ conn[b] = c
          BY <2>1, <4>2 DEF ConnectionOf
        <5> QED
          BY <2>3, <3>1, <3>2, <5>1
      <4>3. CASE ConnectionOf(b, conn[b]) \in ToSet(events')
        BY <4>3
      <4> QED
        BY <1>2, <3>2, <4>1, <4>2, <4>3 DEF PresenceIsFollowed
    <3>3. toldActive' # activeAccounts' =>
            \E x \in ToSet(events') : x.slot = "onConnectionChanged" /\ x.of \in mAccounts
      <4>1. CASE a \in mAccounts
        BY <2>3, <4>1 DEF activeChanged
      <4>2. CASE a \notin mAccounts
        <5>1. toldActive' = toldActive /\ activeAccounts' = activeAccounts
          BY <2>3, <3>1, <4>2 DEF activeChanged, activeAccounts, Active
        <5> QED
          BY <1>2, <4>2, <5>1 DEF PresenceIsFollowed
      <4> QED
        BY <4>1, <4>2
    <3> QED
      BY <2>3, <3>1, <3>2, <3>3 DEF PresenceIsFollowed, ConnectionOf
  <2>10. SignalsTell'
    <3>1. UNCHANGED <<conn, count, signals, entries>>
      BY <2>2, <2>3 DEF network
    <3>2. \A b \in Sims : signals'[b] # << >> =>
                            <<b, conn'[b]>> \in heard' /\ Last(signals'[b]) = count'[b]
      BY <2>5, <3>1 DEF SignalsTell
    <3>3. \A x \in ToSet(events') : x.slot = "onConnectionChanged" /\ x.of \in Sims =>
                                     x.conn = conn'[x.of] \/ Settled(x.of)'
      BY <1>2, <2>5, <3>1 DEF SignalsTell
    <3> QED
      BY <2>5, <3>1, <3>2, <3>3 DEF SignalsTell
  <2> QED
    BY <2>5, <2>6, <2>7, <2>8, <2>9, <2>10
<1> QED
  BY <1>2, <1>5, <1>6 DEF Event

\* A voicemail comes or is heard.
LEMMA CountStep ==
  ASSUME AccountsInv, NEW a \in Sims, VoicemailCount(a)
  PROVE  AccountsInv'
<1> USE DEF AccountsInv
<1>1. /\ count' = [count EXCEPT ![a] = 1 - @]
      /\ signals' = IF <<a, conn[a]>> \in heard
                    THEN [signals EXCEPT ![a] = Append(@, count'[a])] ELSE signals
      /\ UNCHANGED <<valid, conn, conns, online, mAccounts, entry, events, setup, defaults, toldActive>>
  BY DEF VoicemailCount
<1>2. QueuedOnce' /\ CountdownIsRight' /\ PresenceIsFollowed' /\ SetupIsComplete' /\ DefaultsAreKnown'
  BY <1>1, AccountsFrame DEF entry, setup
<1>3. /\ count \in [Sims -> 0..1] /\ signals \in [Sims -> Seq(0..1)]
      /\ a \in AllAccounts /\ conn[a] \in Nat
  BY AccountsAssumption DEF AccountTypes
<1>4. /\ count' \in [Sims -> 0..1] /\ \A b \in Sims : b # a => count'[b] = count[b]
  BY <1>1, <1>3
<1>5. CASE <<a, conn[a]>> \in heard
  <2> DEFINE s == signals[a]
             t == Append(s, count'[a])
  <2>1. s \in Seq(0..1) /\ count'[a] \in 0..1 /\ signals' = [signals EXCEPT ![a] = t]
    BY <1>1, <1>3, <1>4, <1>5
  <2>2. t \in Seq(0..1) /\ t # << >> /\ Last(t) = count'[a]
    BY <2>1, ListAppend
  <2> HIDE DEF s, t
  <2>3. /\ signals' \in [Sims -> Seq(0..1)] /\ signals'[a] = t
        /\ \A b \in Sims : b # a => signals'[b] = signals[b]
    BY <1>3, <2>1, <2>2
  <2>4. AccountTypes'
    BY <1>1, <1>4, <2>3 DEF AccountTypes, entry, setup, defaults
  <2>6. SignalsTell'
    <3>1. \A b \in Sims : signals'[b] # << >> =>
                            <<b, conn[b]>> \in heard /\ Last(signals'[b]) = count'[b]
      BY <1>4, <1>5, <2>2, <2>3 DEF SignalsTell
    <3> QED
      BY <1>1, <3>1 DEF SignalsTell, Settled, entry
  <2>7. VoicemailIsKnown'
    BY <1>1, <1>4, <2>2, <2>3 DEF VoicemailIsKnown, entry
  <2> QED
    BY <1>2, <2>4, <2>6, <2>7
<1>6. CASE <<a, conn[a]>> \notin heard
  <2>1. signals' = signals /\ signals[a] = << >>
    BY <1>1, <1>6 DEF SignalsTell, Settled
  <2>2. AccountTypes'
    BY <1>1, <1>4, <2>1 DEF AccountTypes, entry, setup, defaults
  <2>3. SignalsTell'
    <3>1. \A b \in Sims : signals[b] # << >> =>
                            <<b, conn[b]>> \in heard /\ Last(signals[b]) = count'[b]
      BY <1>4, <2>1 DEF SignalsTell
    <3> QED
      BY <1>1, <2>1, <3>1 DEF SignalsTell, Settled, entry
  <2>4. VoicemailIsKnown'
    BY <1>1, <1>4, <1>6, <2>1 DEF VoicemailIsKnown, entry
  <2> QED
    BY <1>2, <2>2, <2>3, <2>4
<1> QED
  BY <1>5, <1>6

\* A signal reaches the entry.
LEMMA SignalStep ==
  ASSUME AccountsInv, NEW a \in Sims, onVoicemailCountChanged(a)
  PROVE  AccountsInv'
<1> USE DEF AccountsInv
<1> DEFINE s == signals[a]
<1>1. /\ s # << >>
      /\ mVoicemailCount' = [mVoicemailCount EXCEPT ![a] = Head(s)]
      /\ signals' = [signals EXCEPT ![a] = Tail(s)]
      /\ UNCHANGED <<network, mAccounts, entries, watched, heard, events, setup, defaults, toldActive>>
  BY DEF onVoicemailCountChanged
<1>2. QueuedOnce' /\ CountdownIsRight' /\ PresenceIsFollowed' /\ SetupIsComplete' /\ DefaultsAreKnown'
  BY <1>1, AccountsFrame DEF network, setup
<1>3. /\ signals \in [Sims -> Seq(0..1)] /\ mVoicemailCount \in [Sims -> 0..1] /\ s \in Seq(0..1)
  BY DEF AccountTypes
<1>4. /\ Tail(s) \in Seq(0..1) /\ Head(s) \in 0..1
      /\ IF Tail(s) = << >> THEN Last(s) = Head(s) ELSE Last(Tail(s)) = Last(s)
  <2>1. Tail(s) \in Seq(0..1) /\ Head(s) \in 0..1
    BY <1>1, <1>3, ListTail
  <2>2. /\ Len(s) \in Nat /\ Len(s) # 0 /\ Len(Tail(s)) = Len(s) - 1 /\ Head(s) = s[1]
        /\ \A i \in 1..Len(s) - 1 : Tail(s)[i] = s[i + 1]
    BY <1>1, <1>3
  <2>3. Tail(s) = << >> <=> Len(s) = 1
    <3> DEFINE r == Tail(s)
    <3>1. r \in Seq(0..1) /\ Len(r) = Len(s) - 1
      BY <2>1, <2>2
    <3> HIDE DEF r
    <3>2. r = << >> <=> Len(r) = 0
      BY <3>1, EmptySeq
    <3> QED
      BY <2>2, <3>1, <3>2 DEF r
  <2>4. Tail(s) # << >> => Last(Tail(s)) = Last(s)
    <3> SUFFICES ASSUME Tail(s) # << >> PROVE Last(Tail(s)) = Last(s)
      OBVIOUS
    <3>1. Len(s) - 1 \in 1..Len(s) - 1 /\ (Len(s) - 1) + 1 = Len(s)
      BY <2>2, <2>3
    <3> QED
      BY <2>2, <3>1 DEF Last
  <2>5. Tail(s) = << >> => Last(s) = Head(s)
    BY <2>2, <2>3 DEF Last
  <2> QED
    BY <2>1, <2>4, <2>5
<1>5. <<a, conn[a]>> \in heard /\ Last(s) = count[a]
  BY <1>1 DEF SignalsTell
<1> DEFINE h == Head(s)
           t == Tail(s)
<1> HIDE DEF s, h, t
<1>6. /\ mVoicemailCount' \in [Sims -> 0..1] /\ mVoicemailCount'[a] = h
      /\ signals' \in [Sims -> Seq(0..1)] /\ signals'[a] = t
      /\ \A b \in Sims : b # a => signals'[b] = signals[b] /\ mVoicemailCount'[b] = mVoicemailCount[b]
  BY <1>1, <1>3, <1>4 DEF h, t
<1>7. IF t = << >> THEN h = count[a] ELSE Last(t) = count[a]
  BY <1>4, <1>5 DEF h, t
<1>8. AccountTypes'
  BY <1>1, <1>6 DEF AccountTypes, network, setup, defaults
<1>9. SignalsTell'
  <2>1. \A b \in Sims : signals'[b] # << >> =>
                          <<b, conn[b]>> \in heard /\ Last(signals'[b]) = count[b]
    BY <1>5, <1>6, <1>7 DEF SignalsTell
  <2> QED
    BY <1>1, <2>1 DEF SignalsTell, Settled, network
<1>10. VoicemailIsKnown'
  BY <1>1, <1>6, <1>7 DEF VoicemailIsKnown, network
<1> QED
  BY <1>2, <1>8, <1>9, <1>10

(***************************************************************************)
(* The theorems.                                                           *)
(***************************************************************************)
LEMMA AccountsStep ==
  ASSUME AccountsInv, [AccountsNext]_accountsVars
  PROVE  AccountsInv'
<1>1. CASE onAccountManagerReady
  BY <1>1, ManagerReadyStep
<1>2. CASE ProcessEvent
  BY <1>2, EventStep
<1>3. CASE SettingChanged
  BY <1>3, SettingStep
<1>4. ASSUME NEW a \in AllAccounts,
             NewAccount(a) \/ onAccountRemoved(a) \/ ConnectionChanged(a) \/ PresenceChanged(a)
      PROVE  AccountsInv'
  BY <1>4, NewAccountStep, RemovedStep, ConnectionStep, PresenceStep
<1>5. ASSUME NEW a \in Sims, VoicemailCount(a) \/ onVoicemailCountChanged(a)
      PROVE  AccountsInv'
  BY <1>5, CountStep, SignalStep
<1>6. CASE UNCHANGED accountsVars
  <2>1. AccountTypes'
    BY <1>6 DEF AccountsInv, AccountTypes, accountsVars, network, entry, setup, defaults
  <2> QED
    BY <1>6, <2>1, AccountsFrame DEF AccountsInv, accountsVars, network, entry, setup
<1> QED
  BY <1>1, <1>2, <1>3, <1>4, <1>5, <1>6 DEF AccountsNext

LEMMA AccountsStart ==
  ASSUME AccountsInit
  PROVE  AccountsInv
<1> DEFINE empty == << >>
<1>1. /\ valid \subseteq AllAccounts /\ conn \in [AllAccounts -> 0..1] /\ conns = conn
      /\ count \in [Sims -> 0..1] /\ mVoicemailCount = [a \in Sims |-> 0]
      /\ signals = [a \in Sims |-> empty] /\ events = empty
      /\ accountManager = "pending" /\ mAccounts = {} /\ entries = {} /\ watched = {} /\ heard = {}
      /\ mReady = FALSE /\ setupReady = 0 /\ awaited = {} /\ ready = {}
      /\ calls \in Settings /\ messages \in Settings
      /\ mDefaultCallAccount = NoAccount /\ mDefaultMessagingAccount = NoAccount /\ toldActive = {}
  BY DEF AccountsInit
<1>2. empty \in Seq(Event) /\ empty \in Seq(0..1) /\ ToSet(empty) = {} /\ IsInjective(empty)
  BY ListEmpty
<1>3. events = << >> /\ \A a \in Sims : signals[a] = << >>
  BY <1>1
<1> HIDE DEF empty
<1>4. AccountTypes
  <2>1. conn \in [AllAccounts -> Nat] /\ mVoicemailCount \in [Sims -> 0..1]
    BY <1>1
  <2>2. signals \in [Sims -> Seq(0..1)]
    BY <1>1, <1>2
  <2> QED
    BY <1>1, <1>2, <1>3, <2>1, <2>2 DEF AccountTypes
<1>5. QueuedOnce /\ CountdownIsRight /\ SetupIsComplete
  BY <1>1, <1>2 DEF QueuedOnce, CountdownIsRight, SetupIsComplete
<1>6. PresenceIsFollowed
  BY <1>1 DEF PresenceIsFollowed, activeAccounts
<1>7. SignalsTell
  BY <1>1, <1>2, <1>3 DEF SignalsTell
<1>8. DefaultsAreKnown
  <2>1. AccountOfSetting(messages, {}) = NoAccount
    <3>1. FirstAccount({}) = NoAccount
      BY FirstAccountIs
    <3>2. {a \in {} : a = messages \/ (messages = "unset" /\ a \notin Sims)} = {}
      OBVIOUS
    <3> QED
      BY <3>1, <3>2 DEF AccountOfSetting
  <2> QED
    BY <1>1, <2>1 DEF DefaultsAreKnown
<1>9. VoicemailIsKnown
  BY <1>1 DEF VoicemailIsKnown
<1> QED
  BY <1>4, <1>5, <1>6, <1>7, <1>8, <1>9 DEF AccountsInv

\* The inductive invariant of the accounts: each entry has the calls it queued
\* in the queue once, those of the accounts that are waited for ahead of the
\* others, and hears the connection it has or will when its call runs
\* (accountentry.cpp:168-271, telepathyhelper.cpp:501-550).
THEOREM AccountsInvariant == AccountsSpec => []AccountsInv
<1>1. AccountsInit => AccountsInv
  BY AccountsStart
<1>2. AccountsInv /\ [AccountsNext]_accountsVars => AccountsInv'
  BY AccountsStep
<1> QED
  BY <1>1, <1>2, PTL DEF AccountsSpec

\* setupReady() is emitted once, after every account the manager knew when it
\* became ready, however many accounts come and go and are ready meanwhile
\* (telepathyhelper.cpp:501-550 and 575-590).
THEOREM SetupWaitsForAll == AccountsSpec => []SetupIsComplete
<1>1. AccountsInv => SetupIsComplete
  BY DEF AccountsInv
<1> QED
  BY <1>1, AccountsInvariant, PTL

\* A default account is one the process has and the setting stands for
\* (telepathyhelper.cpp:605-663).
THEOREM DefaultAccountsExist == AccountsSpec => []DefaultsAreKnown
<1>1. AccountsInv => DefaultsAreKnown
  BY DEF AccountsInv
<1> QED
  BY <1>1, AccountsInvariant, PTL

\* Once the queued calls have run, QML has read which accounts are active
\* (accountentry.cpp:212-271).
THEOREM QmlKnowsActive == AccountsSpec => []ActiveIsTold
<1>1. AccountsInv => ActiveIsTold
  BY ListEmpty DEF AccountsInv, PresenceIsFollowed, ActiveIsTold
<1> QED
  BY <1>1, AccountsInvariant, PTL

\* Without a signal under way the entry of a SIM has the voicemail count of the
\* network, whatever connections came before and though the count changed while
\* there was none (ofonoaccountentry.cpp:171-272).
THEOREM VoicemailCountIsRight == AccountsSpec => []VoicemailIsKnown
<1>1. AccountsInv => VoicemailIsKnown
  BY DEF AccountsInv
<1> QED
  BY <1>1, AccountsInvariant, PTL

-----------------------------------------------------------------------------
(***************************************************************************)
(* Every call the client was told of is in one place, the manager or the   *)
(* conference call, and the client knows the foreground call.              *)
(*                                                                         *)
(* What that needs: the entries of the manager and of the conference call  *)
(* are different ones, each is heard by the one that has it, and all come  *)
(* from the observer of now unless they are dropped with the next channel. *)
(***************************************************************************)

\* The channels the present observer has told the manager of.
Shown == observed \ mReadyMap

\* The types that the other parts need.
EntryTypes ==
  /\ callState \in [Channels -> {"none", "initialising", "initialised", "active", "ended"}]
  /\ merged \subseteq Calls
  /\ observed \subseteq Channels /\ mReadyMap \subseteq observed
  /\ mCallEntries \in Seq(Calls)
  /\ mConferenceCall \in {None, Conference}
  /\ mCalls \subseteq Calls
  /\ mNeedsUpdate \in BOOLEAN

\* Where the entries are, and who hears of them.
EntriesConnected ==
  /\ IsInjective(mCallEntries)
  /\ ToSet(mCallEntries) \cap mCalls = {}
  /\ toManager = ToSet(mCallEntries) \cup ({mConferenceCall} \ {None})
  /\ toConference = mCalls

\* What the manager has comes from the present observer, unless it is to be
\* dropped when the first channel arrives.
EntriesAreShown ==
  /\ ~mNeedsUpdate => ToSet(mCallEntries) \cup mCalls \cup ({mConferenceCall} \ {None}) \subseteq Shown
  /\ mNeedsUpdate => Shown = {}

\* The conference call holds merged calls, and exists after the conference.
MergedCalls ==
  /\ mCalls \subseteq merged
  /\ mConferenceCall = None => mCalls = {}
  /\ callState[Conference] = "none" => mConferenceCall = None /\ merged = {}
  /\ \A c \in observed : callState[c] # "none"

\* Whoever was announced has an entry, in the conference call once it is there.
AnnouncedAreListed ==
  /\ \A c \in Announced : c \in ToSet(mCallEntries) \cup mCalls
  /\ mConferenceCall = Conference /\ callState[Conference] # "ended" =>
       Announced \cap merged \subseteq mCalls

EntriesInv ==
  /\ EntryTypes /\ EntriesConnected /\ EntriesAreShown /\ MergedCalls /\ AnnouncedAreListed


LEMMA IsAnnounced ==
  \A c : c \in Announced <=> /\ c \in Calls /\ c \in Shown /\ callState[c] \notin {"none", "ended"}
                             /\ ~(c \in merged /\ callState[Conference] = "ended")
BY DEF Announced, Shown, Exists

\* Calls that come, dial or are answered, and are held, change neither the
\* entries nor what was announced.
LEMMA CallStep ==
  ASSUME EntriesInv, NEW c \in Channels,
         \/ c \in Calls /\ (NewCall(c) \/ Initialised(c) \/ Answered(c))
         \/ HoldChanged(c)
  PROVE  EntriesInv'
<1> USE CallEntriesAssumption
<1>1. /\ UNCHANGED <<merged, observer, manager>>
      /\ callState' \in [Channels -> {"none", "initialising", "initialised", "active", "ended"}]
      /\ callState'[Conference] = callState[Conference]
      /\ \A d \in Channels : callState[d] # "none" =>
            (callState'[d] # "none" /\ (callState'[d] = "ended" <=> callState[d] = "ended"))
  BY DEF NewCall, Initialised, Answered, HoldChanged, EntriesInv, EntryTypes, isActive, Channels
<1>2. EntryTypes' /\ EntriesConnected' /\ EntriesAreShown'
  BY <1>1 DEF EntriesInv, EntryTypes, EntriesConnected, EntriesAreShown, Shown, observer, manager
<1>3. MergedCalls'
  BY <1>1 DEF EntriesInv, EntryTypes, MergedCalls, observer, manager
<1>4. Announced' = Announced
  <2>1. Shown' = Shown /\ merged' = merged
    BY <1>1 DEF Shown, observer
  <2>2. \A d \in Shown : d \in Channels /\ callState[d] # "none"
    BY DEF Shown, EntriesInv, EntryTypes, MergedCalls
  <2>3. \A d \in Calls \cap Shown : callState'[d] \notin {"none", "ended"} <=> callState[d] \notin {"none", "ended"}
    BY <1>1, <2>2
  <2>4. \A d : d \in Announced' <=> /\ d \in Calls /\ d \in Shown /\ callState'[d] \notin {"none", "ended"}
                                   /\ ~(d \in merged /\ callState'[Conference] = "ended")
    BY <2>1 DEF Announced, Shown, Exists
  <2> QED
    BY <1>1, <2>3, <2>4, IsAnnounced
<1>5. AnnouncedAreListed'
  BY <1>1, <1>4 DEF EntriesInv, AnnouncedAreListed, observer, manager
<1> QED
  BY <1>2, <1>3, <1>5 DEF EntriesInv

LEMMA NewConferenceStep ==
  ASSUME EntriesInv, NEW members \in SUBSET Calls, NewConference(members)
  PROVE  EntriesInv'
<1> USE CallEntriesAssumption DEF EntriesInv
<1>1. /\ UNCHANGED <<observer, manager>> /\ merged' = members
      /\ callState[Conference] = "none" /\ callState'[Conference] = "active"
      /\ mConferenceCall = None /\ mCalls = {}
      /\ callState' \in [Channels -> {"none", "initialising", "initialised", "active", "ended"}]
      /\ \A d \in Channels : d # Conference => callState'[d] = callState[d]
  BY DEF NewConference, EntryTypes, MergedCalls, Channels
<1>2. EntryTypes' /\ EntriesConnected' /\ EntriesAreShown'
  BY <1>1 DEF EntryTypes, EntriesConnected, EntriesAreShown, Shown, observer, manager
<1>3. MergedCalls'
  BY <1>1 DEF EntryTypes, MergedCalls, observer, manager
<1>4. \A d : d \in Announced' => d \in Announced
  <2>1. \A d : d \in Announced' => d \in Calls /\ d \in Shown /\ callState'[d] \notin {"none", "ended"}
    BY <1>1 DEF Announced, Shown, Exists, observer
  <2>2. \A d \in Calls : d \in Channels /\ d # Conference
    BY DEF Channels
  <2> QED
    BY <1>1, <2>1, <2>2, IsAnnounced
<1>5. AnnouncedAreListed'
  BY <1>1, <1>4 DEF AnnouncedAreListed, observer, manager
<1> QED
  BY <1>2, <1>3, <1>5

\* The observer comes, is told of channels, and goes.
LEMMA ObserverStep ==
  ASSUME EntriesInv,
         \/ Register \/ Unregister
         \/ \E channels \in SUBSET Channels : ObserveChannels(channels)
  PROVE  EntriesInv'
<1> USE CallEntriesAssumption DEF EntriesInv
<1>1. /\ UNCHANGED <<telepathy, mCallEntries, mConferenceCall, mCalls, toManager, toConference>>
      /\ \/ mNeedsUpdate' = mNeedsUpdate /\ Shown' = Shown
         \/ mNeedsUpdate' = TRUE /\ Shown' = {}
      /\ observed' \subseteq Channels /\ mReadyMap' \subseteq observed'
      /\ \A c \in observed' : callState[c] # "none"
  BY DEF Register, Unregister, ObserveChannels, manager, Shown, EntryTypes, MergedCalls, Exists
<1>2. EntryTypes' /\ EntriesConnected' /\ MergedCalls'
  BY <1>1 DEF EntryTypes, EntriesConnected, MergedCalls, telepathy
<1>3. EntriesAreShown'
  BY <1>1 DEF EntryTypes, EntriesAreShown
<1>4. \A d : d \in Announced' => d \in Announced
  BY <1>1 DEF Announced, Shown, Exists, telepathy
<1>5. AnnouncedAreListed'
  BY <1>1, <1>4 DEF AnnouncedAreListed, telepathy
<1> QED
  BY <1>2, <1>3, <1>5

LEMMA EndedStep ==
  ASSUME EntriesInv, NEW c \in Channels, Ended(c)
  PROVE  EntriesInv'
<1> USE CallEntriesAssumption DEF EntriesInv
<1> DEFINE E == ToSet(mCallEntries)
<1>1. /\ UNCHANGED <<merged, observer>> /\ callState[c] \notin {"none", "ended"}
      /\ callState'[c] = "ended"
      /\ callState' \in [Channels -> {"none", "initialising", "initialised", "active", "ended"}]
      /\ \A d \in Channels : d # c => callState'[d] = callState[d]
      /\ Conference \in Channels
  BY DEF Ended, EntryTypes, Exists, Channels
<1>2. /\ mCallEntries \in Seq(Calls) /\ E \subseteq Calls /\ IsInjective(mCallEntries)
      /\ E \cap mCalls = {} /\ toManager = E \cup ({mConferenceCall} \ {None}) /\ toConference = mCalls
      /\ mConferenceCall \in {None, Conference} /\ mCalls \subseteq Calls /\ mCalls \subseteq merged
  BY ListEmpty DEF EntryTypes, EntriesConnected, MergedCalls
<1>3. \A d : d \in Announced' <=> d \in Announced /\ d # c /\ (c = Conference => d \notin merged)
  <2>1. \A d : d \in Announced' <=> /\ d \in Calls /\ d \in Shown /\ callState'[d] \notin {"none", "ended"}
                                   /\ ~(d \in merged /\ callState'[Conference] = "ended")
    BY <1>1 DEF Announced, Shown, Exists, observer
  <2>2. \A d \in Calls : d \in Channels /\ d # Conference
    BY DEF Channels
  <2> QED
    BY <1>1, <2>1, <2>2, IsAnnounced
<1>4. Shown' = Shown /\ mNeedsUpdate' = mNeedsUpdate
  BY <1>1 DEF Ended, Shown, observer, EntryLeavesManager, EntryLeavesConference, manager
<1>5. /\ mCallEntries' \in Seq(Calls) /\ IsInjective(mCallEntries')
      /\ \/ c \in E /\ ToSet(mCallEntries') = E \ {c} /\ UNCHANGED <<mCalls, mConferenceCall, toConference>>
         \/ c = Conference /\ mConferenceCall = c /\ mConferenceCall' = None
              /\ UNCHANGED mCallEntries /\ mCalls' = {} /\ toConference' = {}
         \/ c \in mCalls /\ mCalls' = mCalls \ {c} /\ toConference' = toConference \ {c}
              /\ UNCHANGED <<mCallEntries, mConferenceCall>>
         \/ c \notin toManager \cup mCalls
              /\ UNCHANGED <<mCallEntries, mConferenceCall, mCalls, toConference>>
      /\ toManager' = toManager \ {c}
  <2>0. c \in toManager => c \notin toConference
    BY <1>2
  <2>1. CASE c \in toManager /\ c = mConferenceCall
    <3>1. EntryLeavesManager(c)
      BY <2>0, <2>1 DEF Ended
    <3> QED
      BY <1>2, <2>1, <3>1 DEF EntryLeavesManager
  <2>2. CASE c \in toManager /\ c # mConferenceCall
    <3>1. EntryLeavesManager(c)
      BY <2>0, <2>2 DEF Ended
    <3>2. c \in E
      BY <1>2, <2>2
    <3>3. mCallEntries' = Keep(mCallEntries, Calls \ {c})
      BY <2>2, <3>1 DEF EntryLeavesManager, Without
    <3>4. /\ mCallEntries' \in Seq(Calls) /\ IsInjective(mCallEntries')
          /\ ToSet(mCallEntries') = E \ {c}
      <4>1. E \cap (Calls \ {c}) = E \ {c}
        BY <1>2
      <4> QED
        BY <1>2, <3>3, <4>1, KeepElements
    <3> QED
      BY <2>2, <3>1, <3>2, <3>4 DEF EntryLeavesManager
  <2>3. CASE c \notin toManager /\ c \in toConference
    <3>1. EntryLeavesConference(c)
      BY <2>3 DEF Ended
    <3> QED
      BY <1>2, <2>3, <3>1 DEF EntryLeavesConference
  <2>4. CASE c \notin toManager /\ c \notin toConference
    BY <1>2, <2>4 DEF Ended, manager
  <2> QED
    BY <2>1, <2>2, <2>3, <2>4
<1>6. EntryTypes'
  BY <1>1, <1>2, <1>4, <1>5 DEF EntryTypes, observer
<1>7. EntriesConnected'
  <2> DEFINE F == ToSet(mCallEntries')
  <2>1. F \cap mCalls' = {} /\ toConference' = mCalls'
    BY <1>2, <1>5
  <2>2. toManager' = F \cup ({mConferenceCall'} \ {None})
    <3>1. c # None /\ (c = Conference => c \notin E) /\ (c # Conference => c # mConferenceCall)
      BY <1>2 DEF Channels
    <3> QED
      BY <1>2, <1>5, <3>1
  <2> QED
    BY <1>5, <2>1, <2>2 DEF EntriesConnected
<1>8. EntriesAreShown'
  BY <1>2, <1>4, <1>5 DEF EntriesAreShown
<1>9. MergedCalls'
  BY <1>1, <1>2, <1>5 DEF MergedCalls, observer, EntryTypes
<1>10. AnnouncedAreListed'
  BY <1>1, <1>2, <1>3, <1>5 DEF AnnouncedAreListed, Channels
<1> QED
  BY <1>6, <1>7, <1>8, <1>9, <1>10


\* A call moves between the manager and the conference call.
LEMMA MovedStep ==
  ASSUME EntriesInv, NEW c \in Calls, Merged(c) \/ Removed(c)
  PROVE  EntriesInv'
<1> USE CallEntriesAssumption DEF EntriesInv
<1> DEFINE E == ToSet(mCallEntries)
           F == ToSet(mCallEntries')
<1>1. /\ UNCHANGED <<callState, observer, mConferenceCall, mNeedsUpdate>>
      /\ callState[Conference] \notin {"none", "ended"}
      /\ c \in Channels /\ c # Conference /\ c # None
  BY DEF Merged, Removed, Exists, Channels
<1>2. /\ mCallEntries \in Seq(Calls) /\ E \subseteq Calls /\ IsInjective(mCallEntries)
      /\ E \cap mCalls = {} /\ toManager = E \cup ({mConferenceCall} \ {None}) /\ toConference = mCalls
      /\ mConferenceCall \in {None, Conference} /\ mCalls \subseteq Calls /\ mCalls \subseteq merged
      /\ merged \subseteq Calls
      /\ mConferenceCall = None => mCalls = {}
  BY ListEmpty DEF EntryTypes, EntriesConnected, MergedCalls
<1>3. /\ mCallEntries' \in Seq(Calls) /\ IsInjective(mCallEntries')
      /\ toManager' = F \cup ({mConferenceCall} \ {None}) /\ toConference' = mCalls'
      /\ \/ c \in E /\ F = E \ {c} /\ mCalls' = mCalls \cup {c} /\ mConferenceCall = Conference
         \/ c \in mCalls /\ F = E \cup {c} /\ mCalls' = mCalls \ {c}
         \/ F = E /\ mCalls' = mCalls /\ (Merged(c) => mConferenceCall = None \/ c \notin E)
      /\ \/ Merged(c) /\ merged' = merged \cup {c} /\ c \notin merged /\ mCalls \subseteq mCalls'
         \/ Removed(c) /\ merged' = merged \ {c} /\ mCalls' = mCalls \ {c}
  <2>1. CASE Merged(c)
    <3>1. CASE mConferenceCall = Conference
      <4>1. /\ mCallEntries' = Keep(mCallEntries, Calls \ {c}) /\ toManager' = toManager \ (E \cap {c})
            /\ mCalls' = mCalls \cup ({c} \cap E) /\ toConference' = toConference \cup ({c} \cap E)
            /\ merged' = merged \cup {c} /\ c \notin merged
        BY <2>1, <3>1 DEF Merged, takeCalls
      <4>2. /\ mCallEntries' \in Seq(Calls) /\ IsInjective(mCallEntries')
            /\ F = E \ {c}
        <5>1. E \cap (Calls \ {c}) = E \ {c}
          BY <1>2
        <5> QED
          BY <1>2, <4>1, <5>1, KeepElements
      <4> HIDE DEF E, F
      <4> QED
        BY <1>1, <1>2, <2>1, <3>1, <4>1, <4>2
    <3>2. CASE mConferenceCall # Conference
      <4>1. UNCHANGED <<mCallEntries, toManager, mCalls, toConference>> /\ merged' = merged \cup {c} /\ c \notin merged
        BY <2>1, <3>2 DEF Merged
      <4> QED
        BY <1>2, <2>1, <3>2, <4>1
    <3> QED
      BY <3>1, <3>2
  <2>2. CASE Removed(c)
    <3>1. CASE c \in mCalls
      <4>1. /\ mCallEntries' = Append(mCallEntries, c) /\ toManager' = toManager \cup {c}
            /\ mCalls' = mCalls \ {c} /\ toConference' = toConference \ {c} /\ merged' = merged \ {c}
        BY <1>2, <2>2, <3>1 DEF Removed, addCalls
      <4>2. /\ mCallEntries' \in Seq(Calls) /\ IsInjective(mCallEntries')
            /\ F = E \cup {c}
        BY <1>2, <3>1, <4>1, ListAppend
      <4> HIDE DEF E, F
      <4> QED
        BY <1>2, <2>2, <3>1, <4>1, <4>2
    <3>2. CASE c \notin mCalls
      <4>1. UNCHANGED <<mCallEntries, toManager, mCalls, toConference>> /\ merged' = merged \ {c} /\ c \in merged
        BY <2>2, <3>2 DEF Removed
      <4>2. F = E /\ mCalls' = mCalls \ {c}
        BY <3>2, <4>1
      <4>3. Merged(c) => c \notin merged
        BY DEF Merged
      <4> QED
        BY <1>2, <2>2, <3>2, <4>1, <4>2, <4>3
    <3> QED
      BY <3>1, <3>2
  <2> QED
    BY <2>1, <2>2
<1> HIDE DEF E, F
<1>4. F \subseteq E \cup mCalls \cup {c} /\ mCalls' \subseteq E \cup mCalls
  BY <1>3
<1>5. F \cup mCalls' = E \cup mCalls /\ F \cap mCalls' = {} /\ mCalls' \subseteq merged'
  BY <1>2, <1>3
<1>6. EntryTypes'
  BY <1>1, <1>2, <1>3 DEF EntryTypes, observer
<1>7. EntriesConnected'
  BY <1>1, <1>3, <1>5 DEF EntriesConnected, F
<1>8. EntriesAreShown'
  <2>1. Shown' = Shown
    BY <1>1 DEF Shown, observer
  <2> QED
    BY <1>1, <1>5, <2>1 DEF EntriesAreShown, E, F
<1>9. MergedCalls'
  <2>1. mConferenceCall = None => mCalls' = {}
    BY <1>2, <1>3
  <2> QED
    BY <1>1, <1>5, <2>1 DEF MergedCalls, observer
<1>10. AnnouncedAreListed'
  <2>1. \A d : d \in Announced' <=> d \in Announced
    <3>1. \A d : d \in Announced' <=> /\ d \in Calls /\ d \in Shown /\ callState[d] \notin {"none", "ended"}
                                     /\ ~(d \in merged' /\ callState[Conference] = "ended")
      BY <1>1 DEF Announced, Shown, Exists, observer
    <3> QED
      BY <1>1, <3>1, IsAnnounced
  <2>2. /\ \A d \in Announced : d \in E \cup mCalls
        /\ mConferenceCall = Conference => Announced \cap merged \subseteq mCalls
    BY <1>1 DEF AnnouncedAreListed, E
  <2>3. mConferenceCall = Conference => Announced \cap merged' \subseteq mCalls'
    BY <1>2, <1>3, <2>2
  <2> QED
    BY <1>1, <1>5, <2>1, <2>2, <2>3 DEF AnnouncedAreListed, F
<1> QED
  BY <1>6, <1>7, <1>8, <1>9, <1>10

\* A channel is ready: old entries are dropped, and it finds its place.
LEMMA ReadyStep ==
  ASSUME EntriesInv, NEW c \in Channels, CallChannelReady(c)
  PROVE  EntriesInv'
<1> USE CallEntriesAssumption DEF EntriesInv
<1> DEFINE kept == Kept(mCallEntries)
           conference == IF mNeedsUpdate THEN None ELSE mConferenceCall
           inside == IF mNeedsUpdate THEN {} ELSE mCalls
           connected == IF mNeedsUpdate THEN {} ELSE toManager
           E == ToSet(kept)
           F == ToSet(mCallEntries')
           taken == E \cap merged
<1>1. /\ UNCHANGED telepathy /\ Shown' = Shown \cup {c} /\ c \in observed /\ c \notin Shown
      /\ mReadyMap' \subseteq observed' /\ observed' = observed /\ mNeedsUpdate' = FALSE
      /\ callState[c] # "none"
  BY DEF CallChannelReady, Shown, EntryTypes, MergedCalls, onCallChannelAvailable
<1>2. /\ kept \in Seq(Calls) /\ E \subseteq Calls /\ IsInjective(kept)
      /\ E \cap inside = {} /\ connected = E \cup ({conference} \ {None})
      /\ conference \in {None, Conference} /\ inside \subseteq Calls /\ inside \subseteq merged
      /\ merged \subseteq Calls
      /\ conference = None => inside = {}
      /\ E \cup inside \cup ({conference} \ {None}) \subseteq Shown
  <2>1. CASE mNeedsUpdate
    BY <2>1, ListEmpty DEF Kept, EntryTypes
  <2>2. CASE ~mNeedsUpdate
    BY <2>2, ListEmpty DEF Kept, EntryTypes, EntriesConnected, EntriesAreShown, MergedCalls
  <2> QED
    BY <2>1, <2>2 DEF EntryTypes
<1>3. /\ \A d \in Announced : d \in E \cup inside
      /\ conference = Conference /\ callState[Conference] # "ended" =>
           Announced \cap merged \subseteq inside
  <2>1. CASE mNeedsUpdate
    BY <2>1, IsAnnounced DEF EntriesAreShown
  <2>2. CASE ~mNeedsUpdate
    BY <2>2 DEF Kept, AnnouncedAreListed
  <2> QED
    BY <2>1, <2>2
<1>4. onCallChannelAvailable(c)
  BY DEF CallChannelReady
<1> HIDE DEF kept, conference, inside, connected
<1>5. /\ mCallEntries' \in Seq(Calls) /\ IsInjective(mCallEntries')
      /\ toConference' = mCalls'
      /\ \/ /\ c = Conference /\ conference = None /\ mConferenceCall' = Conference
            /\ F = E \ taken /\ mCalls' = taken /\ toManager' = (connected \ taken) \cup {c}
         \/ /\ c \in Calls /\ conference # None /\ c \in merged /\ mConferenceCall' = conference
            /\ F = E /\ mCalls' = inside \cup {c} /\ toManager' = connected
         \/ /\ c \in Calls /\ ~(conference # None /\ c \in merged) /\ mConferenceCall' = conference
            /\ F = E \cup {c} /\ mCalls' = inside /\ toManager' = connected \cup {c}
  <2>1. CASE c = Conference
    <3>1. conference = None /\ ~(conference # None /\ c \in merged)
      BY <1>1, <1>2, <2>1
    <3>2. /\ mConferenceCall' = c
          /\ mCallEntries' = Keep(kept, Calls \ taken)
          /\ mCalls' = taken /\ toConference' = taken
          /\ toManager' = (connected \ taken) \cup {c}
      BY <1>4, <2>1, <3>1 DEF onCallChannelAvailable, kept, conference, inside, connected
    <3>3. /\ mCallEntries' \in Seq(Calls) /\ IsInjective(mCallEntries') /\ F = E \ taken
      <4>1. E \cap (Calls \ taken) = E \ taken
        BY <1>2
      <4> QED
        BY <1>2, <3>2, <4>1, KeepElements
    <3> QED
      BY <2>1, <3>1, <3>2, <3>3
  <2>2. CASE c # Conference /\ conference # None /\ c \in merged
    <3>1. /\ mConferenceCall' = conference
          /\ mCallEntries' = kept
          /\ mCalls' = inside \cup {c} /\ toConference' = inside \cup {c}
          /\ toManager' = connected
      BY <1>4, <2>2 DEF onCallChannelAvailable, kept, conference, inside, connected
    <3> QED
      BY <1>2, <2>2, <3>1 DEF Channels
  <2>3. CASE c # Conference /\ ~(conference # None /\ c \in merged)
    <3>1. /\ mConferenceCall' = conference
          /\ mCallEntries' = Append(kept, c)
          /\ mCalls' = inside /\ toConference' = inside
          /\ toManager' = connected \cup {c}
      BY <1>4, <2>3 DEF onCallChannelAvailable, kept, conference, inside, connected
    <3>2. c \in Calls /\ c \notin E
      BY <1>1, <1>2, <2>3 DEF Channels
    <3>3. /\ mCallEntries' \in Seq(Calls) /\ IsInjective(mCallEntries') /\ F = E \cup {c}
      BY <1>2, <3>1, <3>2, ListAppend
    <3> QED
      BY <2>3, <3>1, <3>2, <3>3
  <2> QED
    BY <2>1, <2>2, <2>3
<1> HIDE DEF E, F
<1>6. /\ F \cup mCalls' = E \cup inside \cup ({c} \cap Calls)
      /\ F \cap mCalls' = {} /\ mCalls' \subseteq merged
      /\ mConferenceCall' \in {None, Conference}
      /\ toManager' = F \cup ({mConferenceCall'} \ {None})
      /\ mConferenceCall' = None => mCalls' = {}
      /\ {mConferenceCall'} \ {None} \subseteq ({conference} \ {None}) \cup {c}
  BY <1>1, <1>2, <1>5
<1>7. EntryTypes'
  BY <1>1, <1>5, <1>6 DEF EntryTypes, telepathy
<1>8. EntriesConnected'
  BY <1>5, <1>6 DEF EntriesConnected, F
<1>9. EntriesAreShown'
  <2>1. F \cup mCalls' \cup ({mConferenceCall'} \ {None}) \subseteq Shown'
    BY <1>1, <1>2, <1>6
  <2> QED
    BY <1>1, <2>1 DEF EntriesAreShown, F
<1>10. MergedCalls'
  <2>1. ASSUME callState[Conference] = "none" PROVE mConferenceCall' = None
    BY <1>1, <1>2, <1>5, <2>1 DEF MergedCalls, Shown
  <2> QED
    BY <1>1, <1>6, <2>1 DEF MergedCalls, telepathy
<1>11. AnnouncedAreListed'
  <2>1. \A d \in Announced' : d \in Calls /\ (d \in Announced \/ d = c)
    BY <1>1 DEF Announced, Shown, Exists, telepathy
  <2>2. \A d \in Announced' : d \in F \cup mCalls'
    BY <1>3, <1>6, <2>1
  <2>3. ASSUME mConferenceCall' = Conference, callState[Conference] # "ended"
        PROVE  Announced' \cap merged \subseteq mCalls'
    BY <1>2, <1>3, <1>5, <2>1, <2>2, <2>3
  <2> QED
    BY <1>1, <2>2, <2>3 DEF AnnouncedAreListed, F, telepathy
<1> QED
  BY <1>7, <1>8, <1>9, <1>10, <1>11


LEMMA EntriesStep ==
  ASSUME EntriesInv, [Next]_vars
  PROVE  EntriesInv'
<1>1. ASSUME NEW c \in Calls,
             NewCall(c) \/ Initialised(c) \/ Answered(c) \/ Merged(c) \/ Removed(c)
      PROVE  EntriesInv'
  <2>1. c \in Channels
    BY DEF Channels
  <2> QED
    BY <1>1, <2>1, CallStep, MovedStep
<1>2. ASSUME NEW c \in Channels, HoldChanged(c) \/ Ended(c) \/ CallChannelReady(c)
      PROVE  EntriesInv'
  BY <1>2, CallStep, EndedStep, ReadyStep
<1>3. CASE \E members \in SUBSET Calls : NewConference(members)
  BY <1>3, NewConferenceStep
<1>4. CASE Register \/ Unregister \/ \E channels \in SUBSET Channels : ObserveChannels(channels)
  BY <1>4, ObserverStep
<1>5. CASE UNCHANGED vars
  BY <1>5 DEF vars, telepathy, observer, manager, EntriesInv, EntryTypes, EntriesConnected,
              EntriesAreShown, MergedCalls, AnnouncedAreListed, Announced, Shown, Exists
<1> QED
  BY <1>1, <1>2, <1>3, <1>4, <1>5 DEF Next

-----------------------------------------------------------------------------
(* The entries are where they belong, and known to who holds them           *)
(* (CallManager, CallEntry, ChannelObserver).                               *)
THEOREM EntriesInvariant == Spec => []EntriesInv
<1>1. Init => EntriesInv
  <2> SUFFICES ASSUME Init PROVE EntriesInv
    OBVIOUS
  <2> USE CallEntriesAssumption
  <2>1. EntryTypes
    BY ListEmpty DEF Init, EntryTypes
  <2>2. EntriesConnected /\ EntriesAreShown /\ MergedCalls
    BY ListEmpty DEF Init, EntriesConnected, EntriesAreShown, MergedCalls, Shown
  <2>3. AnnouncedAreListed
    BY DEF Init, AnnouncedAreListed, Announced
  <2> QED
    BY <2>1, <2>2, <2>3 DEF EntriesInv
<1> QED
  BY <1>1, EntriesStep, PTL DEF Spec

(* However channels become ready, are merged, split and observed anew,      *)
(* every call the client was told of has one home, and its end is reported  *)
(* there (CallManager::takeCalls(), addCalls(), onCallEnded()).             *)
THEOREM CallsHaveOneHome == Spec => []OneHome
<1>1. EntriesInv => OneHome
  <2> SUFFICES ASSUME EntriesInv PROVE OneHome
    OBVIOUS
  <2>1. ToSet(mCallEntries) \subseteq Calls /\ mConferenceCall \in {None, Conference}
    BY ListEmpty DEF EntriesInv, EntryTypes
  <2>2. toManager \cap Calls = ToSet(mCallEntries)
    BY <2>1, CallEntriesAssumption DEF EntriesInv, EntriesConnected
  <2> QED
    BY <2>2 DEF EntriesInv, EntriesConnected, AnnouncedAreListed, OneHome
<1> QED
  BY <1>1, EntriesInvariant, PTL

(* The calls in the conference call are those that are merged, in whatever  *)
(* order merges and channels are heard of (CallEntry::                      *)
(* onConferenceChannelMerged(), onConferenceChannelRemoved(), CallManager:: *)
(* onCallChannelAvailable()).                                               *)
THEOREM MergedCallsAreInConference == Spec => []ConferenceHasItsCalls
<1>1. EntriesInv => ConferenceHasItsCalls
  BY DEF EntriesInv, AnnouncedAreListed, MergedCalls, ConferenceHasItsCalls
<1> QED
  BY <1>1, EntriesInvariant, PTL

-----------------------------------------------------------------------------
\* What the manager shows depends on its list, on which of these calls are
\* active or dialing, and on which are held.
LEMMA SameCallsShown ==
  ASSUME EntriesInv, UNCHANGED <<mCallEntries, mConferenceCall>>,
         \A d \in ToSet(mCallEntries) : (isActive(d) \/ Dialing(d))' <=> isActive(d) \/ Dialing(d)
  PROVE  /\ hasBackgroundCall' = hasBackgroundCall
         /\ (\A d \in toManager : d \in held' <=> d \in held) => foregroundCall' = foregroundCall
<1> USE CallEntriesAssumption
<1> DEFINE shown == {c \in Calls : isActive(c) \/ Dialing(c)}
           single == Keep(mCallEntries, shown)
           conf == IF mConferenceCall = None THEN << >> ELSE <<mConferenceCall>>
<1>1. /\ mCallEntries \in Seq(Calls) /\ ToSet(mCallEntries) \subseteq Calls
      /\ mConferenceCall \in {None, Conference}
      /\ toManager = ToSet(mCallEntries) \cup ({mConferenceCall} \ {None})
  BY ListEmpty DEF EntriesInv, EntryTypes, EntriesConnected
<1>2. activeCalls = conf \o single
  BY DEF activeCalls
<1>3. activeCalls' = activeCalls
  <2>1. Keep(mCallEntries, shown') = Keep(mCallEntries, shown)
    <3>1. \A d \in ToSet(mCallEntries) : d \in shown' <=> d \in shown
      BY <1>1 DEF isActive, Dialing
    <3> HIDE DEF shown
    <3> QED
      BY <1>1, <3>1, KeepSame
  <2> QED
    BY <2>1 DEF activeCalls
<1>4. activeCalls \in Seq(Channels) /\ ToSet(activeCalls) \subseteq toManager
  <2>1. single \in Seq(Calls) /\ ToSet(single) \subseteq ToSet(mCallEntries)
    <3> HIDE DEF shown
    <3> QED
      BY <1>1, KeepElements
  <2>2. single \in Seq(Channels)
    <3>1. Calls \subseteq Channels
      BY DEF Channels
    <3> HIDE DEF single
    <3> QED
      BY <2>1, <3>1, SeqMonotonic
  <2>3. conf \in Seq(Channels) /\ ToSet(conf) \subseteq toManager
    <3>1. CASE mConferenceCall = None
      BY <3>1, ListEmpty
    <3>2. CASE mConferenceCall = Conference
      <4>1. Conference \in Channels /\ Conference # None /\ Conference \in toManager
        BY <1>1, <3>2 DEF Channels
      <4>2. conf = Append(<< >>, Conference)
        BY <3>2, <4>1
      <4>3. << >> \in Seq(Channels) /\ ToSet(<< >>) = {}
        BY ListEmpty
      <4>4. conf \in Seq(Channels) /\ ToSet(conf) = {Conference}
        <5> DEFINE empty == << >>
        <5>1. empty \in Seq(Channels) /\ ToSet(empty) = {} /\ conf = Append(empty, Conference)
          BY <4>2, <4>3
        <5> HIDE DEF conf, empty
        <5>2. Append(empty, Conference) \in Seq(Channels) /\ ToSet(Append(empty, Conference)) = {Conference}
          BY <4>1, <5>1, ListAppend
        <5> QED
          BY <5>1, <5>2
      <4> QED
        BY <4>1, <4>4
    <3> QED
      BY <1>1, <3>1, <3>2
  <2> HIDE DEF conf, single
  <2> QED
    BY <1>1, <1>2, <2>1, <2>2, <2>3, ListConcat
<1>5. hasBackgroundCall' = hasBackgroundCall
  BY <1>3 DEF hasBackgroundCall
<1>6. ASSUME \A d \in toManager : d \in held' <=> d \in held
      PROVE  foregroundCall' = foregroundCall
  <2>1. \A x \in ToSet(activeCalls) : x \in Channels \ held' <=> x \in Channels \ held
    BY <1>4, <1>6
  <2>2. Keep(activeCalls, Channels \ held') = Keep(activeCalls, Channels \ held)
    <3> DEFINE s == activeCalls
               R == Channels \ held'
               S == Channels \ held
    <3> HIDE DEF s, R, S
    <3>1. s \in Seq(Channels) /\ \A x \in ToSet(s) : x \in R <=> x \in S
      BY <1>4, <2>1 DEF s, R, S
    <3>2. Keep(s, R) = Keep(s, S)
      BY <3>1, KeepSame
    <3> QED
      BY <3>2 DEF s, R, S
  <2> QED
    BY <1>3, <2>2 DEF foregroundCall
<1> QED
  BY <1>5, <1>6

(* The client is told when the foreground call changes, and whether there   *)
(* is another call (the signals of CallManager and the connections of       *)
(* setupCallEntry()).                                                       *)
THEOREM ForegroundReachesClient == Spec => []ForegroundIsTold
<1> DEFINE E == ToSet(mCallEntries)
<1> USE CallEntriesAssumption
<1>1. Init => ForegroundIsTold
  <2> SUFFICES ASSUME Init PROVE told.fg = foregroundCall /\ told.many = hasBackgroundCall
    BY DEF ForegroundIsTold
  <2>1. mCallEntries = << >> /\ mConferenceCall = None /\ told = [fg |-> None, bg |-> None, many |-> FALSE]
    BY DEF Init
  <2>2. activeCalls = << >>
    BY <2>1, KeepEmpty DEF activeCalls
  <2>3. foregroundCall = None /\ hasBackgroundCall = FALSE
    BY <2>2, KeepEmpty, ListEmpty DEF foregroundCall, hasBackgroundCall, FirstOf
  <2> QED
    BY <2>1, <2>3
<1>2. EntriesInv /\ ForegroundIsTold /\ [Next]_vars => ForegroundIsTold'
  <2> SUFFICES ASSUME EntriesInv, ForegroundIsTold, [Next]_vars
               PROVE  ForegroundIsTold'
    OBVIOUS
  <2>1. ASSUME \/ Emit(TRUE, FALSE, TRUE)
               \/ Emit(TRUE, TRUE, TRUE)
        PROVE  ForegroundIsTold'
    BY <2>1 DEF Emit, ForegroundIsTold
  <2>2. ASSUME UNCHANGED <<mCallEntries, mConferenceCall, told>>,
               \A d \in E : (isActive(d) \/ Dialing(d))' <=> isActive(d) \/ Dialing(d),
               \A d \in E : Dialing(d) => Dialing(d)',
               \A d \in toManager : d \in held' <=> d \in held
        PROVE  ForegroundIsTold'
    <3>1. hasBackgroundCall' = hasBackgroundCall /\ foregroundCall' = foregroundCall
      BY <2>2, SameCallsShown
    <3> QED
      BY <2>2, <3>1 DEF ForegroundIsTold
  <2>3. EntryTypes /\ toManager = E \cup ({mConferenceCall} \ {None}) /\ E \subseteq Calls
        /\ toConference = mCalls /\ E \cap mCalls = {} /\ mConferenceCall \in {None, Conference}
    BY ListEmpty DEF EntriesInv, EntriesConnected, EntryTypes
  <2>4. ASSUME NEW c \in Calls, NewCall(c) PROVE ForegroundIsTold'
    <3>1. /\ UNCHANGED <<mCallEntries, mConferenceCall, told, held>>
          /\ callState[c] = "none"
          /\ callState'[c] = IF c \in Incoming THEN "initialised" ELSE "initialising"
          /\ \A d \in Calls : d # c => callState'[d] = callState[d]
      BY <2>3, <2>4 DEF NewCall, manager, EntryTypes, Channels
    <3>2. \A d \in Calls : isActive(d)' = isActive(d) /\ Dialing(d)' = Dialing(d)
      BY <3>1 DEF isActive, Dialing
    <3> QED
      BY <2>2, <2>3, <3>1, <3>2
  <2>5. ASSUME NEW members \in SUBSET Calls, NewConference(members) PROVE ForegroundIsTold'
    <3>1. /\ UNCHANGED <<mCallEntries, mConferenceCall, told, held>>
          /\ \A d \in Calls : callState'[d] = callState[d]
      BY <2>3, <2>5 DEF NewConference, manager, EntryTypes, Channels
    <3>2. \A d \in Calls : isActive(d)' = isActive(d) /\ Dialing(d)' = Dialing(d)
      BY <3>1 DEF isActive, Dialing
    <3> QED
      BY <2>2, <2>3, <3>1, <3>2
  <2>6. ASSUME NEW c \in Calls, Initialised(c) PROVE ForegroundIsTold'
    <3>1. /\ UNCHANGED <<mCallEntries, mConferenceCall, told, held>>
          /\ callState[c] = "initialising" /\ callState'[c] = "initialised"
          /\ \A d \in Calls : d # c => callState'[d] = callState[d]
      BY <2>3, <2>6 DEF Initialised, manager, EntryTypes, Channels
    <3>2. CASE c \in E /\ c \notin Incoming
      BY <3>1, <3>2 DEF ForegroundIsTold, Dialing
    <3>3. CASE c \notin E \/ c \in Incoming
      <4>1. \A d \in E : isActive(d)' = isActive(d) /\ Dialing(d)' = Dialing(d)
        BY <2>3, <3>1, <3>3 DEF isActive, Dialing
      <4> QED
        BY <2>2, <3>1, <4>1
    <3> QED
      BY <3>2, <3>3
  <2>7. ASSUME NEW c \in Calls, Answered(c) PROVE ForegroundIsTold'
    <3>1. CASE c \in toManager
      BY <2>1, <2>7, <3>1 DEF Answered
    <3>2. CASE c \notin toManager
      <4>1. /\ UNCHANGED <<mCallEntries, mConferenceCall, told, held>>
            /\ \A d \in Calls : d # c => callState'[d] = callState[d]
        BY <2>3, <2>7, <3>2 DEF Answered, manager, EntryTypes, Channels, Quiet
      <4>2. \A d \in E : isActive(d)' = isActive(d) /\ Dialing(d)' = Dialing(d)
        BY <2>3, <3>2, <4>1 DEF isActive, Dialing
      <4> QED
        BY <2>2, <4>1, <4>2
    <3> QED
      BY <3>1, <3>2
  <2>8. ASSUME NEW c \in Channels, HoldChanged(c) PROVE ForegroundIsTold'
    <3>1. /\ UNCHANGED <<mCallEntries, mConferenceCall, callState>>
          /\ \A d : d # c => (d \in held' <=> d \in held)
      BY <2>8 DEF HoldChanged, manager
    <3>2. \A d \in E : isActive(d)' = isActive(d) /\ Dialing(d)' = Dialing(d)
      BY <3>1 DEF isActive, Dialing
    <3>3. CASE c \in toManager
      <4>1. told'.fg = foregroundCall' /\ told'.many = told.many
        BY <2>8, <3>3 DEF HoldChanged, Emit
      <4>2. hasBackgroundCall' = hasBackgroundCall
        BY <3>1, <3>2, SameCallsShown
      <4> QED
        BY <3>1, <3>2, <4>1, <4>2 DEF ForegroundIsTold
    <3>4. CASE c \notin toManager
      <4>1. told' = told
        BY <2>8, <3>4 DEF HoldChanged, Quiet
      <4> QED
        BY <2>2, <3>1, <3>2, <3>4, <4>1
    <3> QED
      BY <3>3, <3>4
  <2>9. ASSUME NEW c \in Channels, Ended(c) PROVE ForegroundIsTold'
    <3>1. CASE c \in toManager
      <4>1. c \notin toConference
        BY <2>3, <3>1 DEF EntriesInv, EntryTypes
      <4>2. EmitAll
        BY <2>9, <3>1, <4>1 DEF Ended, EntryLeavesManager
      <4> QED
        BY <2>1, <4>2 DEF EmitAll
    <3>2. CASE c \notin toManager
      <4>1. UNCHANGED <<mCallEntries, mConferenceCall, told>>
        BY <2>9, <3>2 DEF Ended, EntryLeavesConference, manager
      <4>2. /\ \A d \in Channels : d # c => callState'[d] = callState[d]
            /\ \A d : d # c => (d \in held' <=> d \in held)
        BY <2>3, <2>9 DEF Ended, EntryTypes
      <4>3. \A d \in E : isActive(d)' = isActive(d) /\ Dialing(d)' = Dialing(d)
        BY <2>3, <3>2, <4>2 DEF isActive, Dialing, Channels
      <4> QED
        BY <2>2, <3>2, <4>1, <4>2, <4>3
    <3> QED
      BY <3>1, <3>2
  <2>10. ASSUME NEW c \in Calls, Merged(c) \/ Removed(c) PROVE ForegroundIsTold'
    <3>1. CASE EmitAll
      BY <2>1, <3>1 DEF EmitAll
    <3>2. CASE UNCHANGED <<mCallEntries, told>>
      <4>1. UNCHANGED <<mCallEntries, mConferenceCall, told, held, callState>>
        BY <2>10, <3>2 DEF Merged, Removed
      <4> QED
        BY <2>2, <4>1 DEF isActive, Dialing
    <3> QED
      BY <2>10, <3>1, <3>2 DEF Merged, Removed
  <2>11. ASSUME NEW c \in Channels, CallChannelReady(c) PROVE ForegroundIsTold'
    BY <2>1, <2>11 DEF CallChannelReady, onCallChannelAvailable, EmitAll
  <2>12. CASE \/ Register \/ Unregister \/ \E channels \in SUBSET Channels : ObserveChannels(channels)
              \/ UNCHANGED vars
    <3>1. UNCHANGED <<mCallEntries, mConferenceCall, told, held, callState>>
      BY <2>12 DEF Register, Unregister, ObserveChannels, vars, manager, telepathy
    <3> QED
      BY <2>2, <3>1 DEF isActive, Dialing
  <2> QED
    BY <2>4, <2>5, <2>6, <2>7, <2>8, <2>9, <2>10, <2>11, <2>12 DEF Next
<1> QED
  BY <1>1, <1>2, EntriesInvariant, PTL DEF Spec

-----------------------------------------------------------------------------
(***************************************************************************)
(* When a watcher has nothing to wait for, it shows a contact the address  *)
(* book has for its identifier.                                            *)
(*                                                                         *)
(* What that needs on the way there: what was found, or is shown, is right *)
(* for the address book of now, or one of the signals behind it (Upset)    *)
(* makes the watcher search again.                                         *)
(***************************************************************************)

\* What a search finds, and what travels from the address book.
Hits == [card : Cards, id : Keyed, name : Names]
NewsOfBook == [kind : {"added", "changed", "removed", "results"},
               card : Cards \cup {NoCard}, found : SUBSET Hits]

\* The types that the other parts need.
WatcherTypes ==
    /\ mIdentifier \in Keyed \cup {Hidden, Empty}
    /\ mAddressableFields \in {"none", "tel", "other"} /\ mCompleted \in BOOLEAN
    /\ mContactId \in Cards \cup {NoCard}
    /\ mRequest = NoSearch \/ mRequest \in [for : Keyed, answered : BOOLEAN]
    /\ book \in [Cards -> [id : Keyed \cup {Empty}, name : Names]]
    /\ news \in Seq(NewsOfBook)

\* The answer of the search that runs is on the way once it was given, and
\* no other.
OneAnswer ==
    /\ ~mRequest.answered => \A i \in 1 .. Len(news) : news[i].kind # "results"
    /\ \A i, j \in 1 .. Len(news) : news[i].kind = "results" /\ news[j].kind = "results" => i = j

\* Of the news from the i-th on, one makes a watcher search that shows the card,
\* or nobody.
Upset(card, i) ==
    \E k \in i .. Len(news) :
        \/ news[k].kind = "changed"
        \/ news[k].kind = "added" /\ card = NoCard
        \/ news[k].kind = "removed" /\ card # NoCard /\ news[k].card = card

\* It is right to show the card under the name.
Right(card, name) == book[card].id = mIdentifier /\ book[card].name = name
NobodyIsRight == \A c \in Cards : book[c].id # mIdentifier

\* What was found is right, or the news behind it lead to another search.
AnswerIsRight ==
    Ready => \A i \in 1 .. Len(news) : news[i].kind = "results" =>
        /\ \A r \in news[i].found :
              r.id = mIdentifier /\ (Right(r.card, r.name) \/ Upset(r.card, i + 1))
        /\ news[i].found = {} => NobodyIsRight \/ Upset(NoCard, i + 1)

\* The same of what is shown when no search runs; a search is for the identifier.
ShownIsRight ==
    Ready => IF mRequest = NoSearch
             THEN \/ Upset(mContactId, 1)
                  \/ IF mContactId = NoCard THEN NobodyIsRight
                     ELSE \E name \in Names : mAlias = <<mContactId, name>> /\ Right(mContactId, name)
             ELSE mRequest.for = mIdentifier

WatcherInv == WatcherTypes /\ OneAnswer /\ AnswerIsRight /\ ShownIsRight

(***************************************************************************)
(* The queue.                                                              *)
(***************************************************************************)
\* What is left of the queue when its first element is heard.
LEMMA TailOfNews ==
  ASSUME news \in Seq(NewsOfBook), news # << >>
  PROVE  /\ Tail(news) \in Seq(NewsOfBook) /\ Head(news) \in NewsOfBook /\ Head(news) = news[1]
         /\ Len(news) \in Nat /\ Len(news) # 0 /\ Len(Tail(news)) = Len(news) - 1
         /\ \A i \in 1 .. Len(news) - 1 : Tail(news)[i] = news[i + 1]
BY ListTail

\* What is behind an element is one place nearer when the first is gone.
LEMMA UpsetTail ==
  ASSUME news \in Seq(NewsOfBook), news # << >>, news' = Tail(news), NEW card, NEW i \in Nat, i # 0
  PROVE  Upset(card, i + 1) => Upset(card, i)'
<1> SUFFICES ASSUME Upset(card, i + 1) PROVE Upset(card, i)'
  OBVIOUS
<1>1. PICK k \in i + 1 .. Len(news) :
        \/ news[k].kind = "changed"
        \/ news[k].kind = "added" /\ card = NoCard
        \/ news[k].kind = "removed" /\ card # NoCard /\ news[k].card = card
  BY DEF Upset
<1> DEFINE j == k - 1
<1>2. j \in i .. Len(news') /\ j \in 1 .. Len(news) - 1 /\ j + 1 = k
  BY TailOfNews
<1> HIDE DEF j
<1>3. news'[j] = news[k]
  BY <1>2, TailOfNews
<1> QED
  BY <1>1, <1>2, <1>3 DEF Upset

\* What the first of the news does not upset is upset later, if at all.
LEMMA UpsetFirst ==
  ASSUME news \in Seq(NewsOfBook), NEW card, Upset(card, 1),
         news[1].kind # "changed", ~(news[1].kind = "added" /\ card = NoCard),
         ~(news[1].kind = "removed" /\ card # NoCard /\ news[1].card = card)
  PROVE  Upset(card, 1 + 1)
<1>1. PICK k \in 1 .. Len(news) :
        \/ news[k].kind = "changed"
        \/ news[k].kind = "added" /\ card = NoCard
        \/ news[k].kind = "removed" /\ card # NoCard /\ news[k].card = card
  BY DEF Upset
<1>2. k # 1
  BY <1>1
<1>3. k \in 1 + 1 .. Len(news)
  BY <1>2
<1> QED
  BY <1>1, <1>3 DEF Upset

\* Searching anew, or leaving the search as it is.
LEMMA SearchStarts ==
  ASSUME NEW queue \in Seq(NewsOfBook), mRequest = NoSearch \/ mRequest \in [for : Keyed, answered : BOOLEAN],
         startSearching(mIdentifier', mAddressableFields', mCompleted', queue),
         mIdentifier' \in Keyed \cup {Hidden, Empty},
         ~mRequest.answered => \A i \in 1 .. Len(queue) : queue[i].kind # "results",
         \A i, j \in 1 .. Len(queue) : queue[i].kind = "results" /\ queue[j].kind = "results" => i = j
  PROVE  /\ mRequest' = NoSearch \/ mRequest' \in [for : Keyed, answered : BOOLEAN]
         /\ news' \in Seq(NewsOfBook)
         /\ OneAnswer' /\ AnswerIsRight' /\ ShownIsRight'
<1>1. CASE Ready'
  <2> DEFINE S == {m \in ToSet(queue) : m.kind # "results"}
  <2>1. mRequest' = [for |-> mIdentifier', answered |-> FALSE] /\ news' = Keep(queue, S)
    BY <1>1 DEF startSearching, Ready
  <2>2. mIdentifier' \in Keyed /\ mIdentifier' # Empty
    BY <1>1, WatcherAssumption DEF Ready, Interactive
  <2>3. news' \in Seq(NewsOfBook) /\ ToSet(news') = ToSet(queue) \cap S
    <3> HIDE DEF S
    <3> QED
      BY <2>1, KeepElements
  <2>4. \A i \in 1 .. Len(news') : news'[i].kind # "results"
    BY <2>3 DEF ToSet
  <2>5. mRequest' \in [for : Keyed, answered : BOOLEAN] /\ mRequest' # NoSearch /\ ~mRequest'.answered
        /\ mRequest'.for = mIdentifier'
    BY <2>1, <2>2 DEF NoSearch
  <2> HIDE DEF S
  <2> QED
    BY <2>3, <2>4, <2>5 DEF OneAnswer, AnswerIsRight, ShownIsRight
<1>2. CASE ~Ready'
  <2>1. mRequest' = mRequest /\ news' = queue
    BY <1>2 DEF startSearching, Ready
  <2> QED
    BY <1>2, <2>1 DEF OneAnswer, AnswerIsRight, ShownIsRight
<1> QED
  BY <1>1, <1>2

\* The first of the news is heard and does not concern the search.
LEMMA NewsGone ==
  ASSUME WatcherInv, news # << >>, news' = Tail(news), UNCHANGED <<mIdentifier, mAddressableFields, mCompleted, book>>
  PROVE  /\ news' \in Seq(NewsOfBook) /\ AnswerIsRight'
         /\ ~mRequest.answered => \A i \in 1 .. Len(news') : news'[i].kind # "results"
         /\ \A i, j \in 1 .. Len(news') : news'[i].kind = "results" /\ news'[j].kind = "results" => i = j
<1> USE DEF WatcherInv
<1>1. /\ news \in Seq(NewsOfBook) /\ Tail(news) \in Seq(NewsOfBook)
      /\ Len(news) \in Nat /\ Len(news') = Len(news) - 1
      /\ \A i \in 1 .. Len(news') : news'[i] = news[i + 1] /\ i + 1 \in 1 .. Len(news) /\ i \in Nat /\ i # 0
  BY TailOfNews DEF WatcherTypes
<1>2. AnswerIsRight'
  <2> SUFFICES ASSUME Ready, NEW i \in 1 .. Len(news'), news'[i].kind = "results"
               PROVE  /\ \A r \in news'[i].found :
                           r.id = mIdentifier /\ (Right(r.card, r.name) \/ Upset(r.card, i + 1)')
                      /\ news'[i].found = {} => NobodyIsRight \/ Upset(NoCard, i + 1)'
    BY DEF AnswerIsRight, Ready, Right, NobodyIsRight
  <2>1. /\ \A r \in news[i + 1].found :
             r.id = mIdentifier /\ (Right(r.card, r.name) \/ Upset(r.card, (i + 1) + 1))
        /\ news[i + 1].found = {} => NobodyIsRight \/ Upset(NoCard, (i + 1) + 1)
    BY <1>1 DEF AnswerIsRight
  <2>2. \A card : Upset(card, (i + 1) + 1) => Upset(card, i + 1)'
    <3>1. i + 1 \in Nat /\ i + 1 # 0
      BY <1>1
    <3> QED
      BY <1>1, <3>1, UpsetTail
  <2> QED
    BY <1>1, <2>1, <2>2
<1>3. ~mRequest.answered => \A i \in 1 .. Len(news') : news'[i].kind # "results"
  BY <1>1 DEF OneAnswer
<1>4. \A i, j \in 1 .. Len(news') : news'[i].kind = "results" /\ news'[j].kind = "results" => i = j
  <2> TAKE i, j \in 1 .. Len(news')
  <2>1. i + 1 = j + 1 => i = j
    OBVIOUS
  <2> QED
    BY <1>1, <2>1 DEF OneAnswer
<1> QED
  BY <1>1, <1>2, <1>3, <1>4

\* It is not a result, and what is shown stays.
LEMMA ShownStays ==
  ASSUME WatcherInv, news # << >>, news' = Tail(news),
         UNCHANGED <<mIdentifier, mAddressableFields, mCompleted, book, mContactId, mAlias, mRequest>>,
         Ready => /\ news[1].kind # "changed" /\ ~(news[1].kind = "added" /\ mContactId = NoCard)
                  /\ ~(news[1].kind = "removed" /\ mContactId # NoCard /\ news[1].card = mContactId)
  PROVE  WatcherInv'
<1> USE DEF WatcherInv
<1>1. /\ news' \in Seq(NewsOfBook) /\ AnswerIsRight'
      /\ ~mRequest.answered => \A i \in 1 .. Len(news') : news'[i].kind # "results"
      /\ \A i, j \in 1 .. Len(news') : news'[i].kind = "results" /\ news'[j].kind = "results" => i = j
  BY NewsGone
<1>2. WatcherTypes' /\ OneAnswer'
  BY <1>1 DEF WatcherTypes, OneAnswer
<1>3. ShownIsRight'
  <2>1. Ready /\ Upset(mContactId, 1) => Upset(mContactId, 1)'
    <3>1. Ready /\ Upset(mContactId, 1) => Upset(mContactId, 1 + 1)
      BY UpsetFirst DEF WatcherTypes
    <3>2. Upset(mContactId, 1 + 1) => Upset(mContactId, 1)'
      BY UpsetTail DEF WatcherTypes, Upset
    <3> QED
      BY <3>1, <3>2
  <2> QED
    BY <2>1 DEF ShownIsRight, Ready, Right, NobodyIsRight
<1> QED
  BY <1>1, <1>2, <1>3

(***************************************************************************)
(* The steps.                                                              *)
(***************************************************************************)
\* A signal makes the watcher search again.
LEMMA SearchAfterNews ==
  ASSUME WatcherInv, news # << >>, Search(Tail(news)), mContactId' \in Cards \cup {NoCard},
         UNCHANGED <<mIdentifier, mAddressableFields, mCompleted, book>>
  PROVE  WatcherInv'
<1> USE DEF WatcherInv
<1> DEFINE t == Tail(news)
<1>1. /\ t \in Seq(NewsOfBook) /\ Len(news) \in Nat /\ Len(t) = Len(news) - 1
      /\ \A i \in 1 .. Len(t) : t[i] = news[i + 1] /\ i + 1 \in 1 .. Len(news)
  BY TailOfNews DEF WatcherTypes
<1>2. startSearching(mIdentifier', mAddressableFields', mCompleted', t)
  BY DEF Search
<1> HIDE DEF t
<1>3. ~mRequest.answered => \A i \in 1 .. Len(t) : t[i].kind # "results"
  BY <1>1 DEF OneAnswer
<1>4. \A i, j \in 1 .. Len(t) : t[i].kind = "results" /\ t[j].kind = "results" => i = j
  <2> TAKE i, j \in 1 .. Len(t)
  <2>1. i + 1 = j + 1 => i = j
    OBVIOUS
  <2> QED
    BY <1>1, <2>1 DEF OneAnswer
<1>5. /\ mRequest' = NoSearch \/ mRequest' \in [for : Keyed, answered : BOOLEAN]
      /\ news' \in Seq(NewsOfBook)
      /\ OneAnswer' /\ AnswerIsRight' /\ ShownIsRight'
  BY <1>1, <1>2, <1>3, <1>4, SearchStarts DEF WatcherTypes
<1> QED
  BY <1>5 DEF WatcherTypes

\* The search is over.
LEMMA ResultsStep ==
  ASSUME WatcherInv, news # << >>, Head(news).kind = "results", SearchEnds(Head(news).found),
         UNCHANGED <<mIdentifier, mAddressableFields, mCompleted, book>>
  PROVE  WatcherInv'
<1> USE DEF WatcherInv
<1> DEFINE found == news[1].found
<1>1. /\ news \in Seq(NewsOfBook) /\ news[1] \in NewsOfBook /\ Head(news) = news[1] /\ Len(news) \in Nat /\ Len(news) # 0
      /\ Len(news') = Len(news) - 1
      /\ \A i \in 1 .. Len(news') : news'[i] = news[i + 1] /\ i + 1 \in 1 .. Len(news) /\ i + 1 # 1
      /\ news' = Tail(news) /\ mRequest' = NoSearch
  BY TailOfNews DEF WatcherTypes, SearchEnds
<1>2. found \subseteq Hits /\ 1 \in 1 .. Len(news) /\ news[1].kind = "results"
  BY <1>1 DEF NewsOfBook
<1>3. \A i \in 1 .. Len(news') : news'[i].kind # "results"
  BY <1>1, <1>2 DEF OneAnswer
<1>4. news' \in Seq(NewsOfBook)
  BY NewsGone, <1>1
<1>5. OneAnswer' /\ AnswerIsRight'
  BY <1>3 DEF OneAnswer, AnswerIsRight
<1> HIDE DEF found
<1>6. \/ found # {} /\ onResultsAvailable(found)
      \/ found = {} /\ mContactId' = NoCard
  BY <1>1 DEF SearchEnds, Clear, Shows, found
<1>7. \/ mContactId' = NoCard /\ (Ready => found = {})
      \/ \E r \in found : mContactId' = r.card /\ mAlias' = <<r.card, r.name>>
  <2>1. CASE found # {} /\ onResultsAvailable(found)
    <3>1. Showable(found) \subseteq found
      BY DEF Showable, WatcherTypes
    <3>2. Ready => Showable(found) = found
      <4>1. Ready => \A r \in found : r.id = mIdentifier
        BY <1>2 DEF AnswerIsRight, found
      <4>2. Ready => mAddressableFields \in {"tel", "other"}
        BY DEF Ready, WatcherTypes
      <4> QED
        BY <4>1, <4>2 DEF Showable
    <3>3. CASE Showable(found) = {}
      BY <2>1, <3>2, <3>3 DEF onResultsAvailable, Clear, Shows
    <3>4. CASE Showable(found) # {}
      <4>1. \E r \in Showable(found) : mContactId' = r.card /\ mAlias' = <<r.card, r.name>>
        BY <2>1, <3>4 DEF onResultsAvailable, Shows
      <4> QED
        BY <3>1, <4>1
    <3> QED
      BY <3>3, <3>4
  <2>2. CASE found = {} /\ mContactId' = NoCard
    BY <2>2
  <2> QED
    BY <1>6, <2>1, <2>2
<1>8. mContactId' \in Cards \cup {NoCard}
  BY <1>2, <1>7 DEF Hits
<1>9. WatcherTypes'
  BY <1>1, <1>4, <1>8 DEF WatcherTypes
<1>10. ShownIsRight'
  <2> SUFFICES ASSUME Ready
               PROVE  \/ Upset(mContactId, 1)'
                      \/ IF mContactId' = NoCard THEN NobodyIsRight
                         ELSE \E name \in Names : mAlias' = <<mContactId', name>> /\ Right(mContactId', name)
    BY <1>1 DEF ShownIsRight, Ready, NobodyIsRight, Right
  <2>1. \A card : Upset(card, 1 + 1) => Upset(card, 1)'
    BY <1>1, UpsetTail
  <2>2. CASE mContactId' = NoCard /\ found = {}
    <3>1. NobodyIsRight \/ Upset(NoCard, 1 + 1)
      BY <1>2, <2>2 DEF AnswerIsRight, found
    <3>2. Upset(NoCard, 1)' => Upset(mContactId, 1)'
      BY <2>2 DEF Upset
    <3> QED
      BY <2>1, <2>2, <3>1, <3>2
  <2>3. ASSUME NEW r \in found, mContactId' = r.card, mAlias' = <<r.card, r.name>>
        PROVE  \/ Upset(mContactId, 1)'
               \/ mContactId' # NoCard /\ \E name \in Names : mAlias' = <<mContactId', name>> /\ Right(mContactId', name)
    <3>1. r.card \in Cards /\ r.card # NoCard /\ r.name \in Names
      BY <1>2, WatcherAssumption DEF Hits
    <3>2. Right(r.card, r.name) \/ Upset(r.card, 1 + 1)
      BY <1>2 DEF AnswerIsRight, found
    <3>3. Upset(r.card, 1)' => Upset(mContactId, 1)'
      BY <2>3 DEF Upset
    <3> QED
      BY <2>1, <2>3, <3>1, <3>2, <3>3
  <2> QED
    BY <1>7, <2>2, <2>3
<1> QED
  BY <1>5, <1>9, <1>10

\* The first of the news is heard.
LEMMA HearsStep ==
  ASSUME WatcherInv, Hears
  PROVE  WatcherInv'
<1> USE DEF WatcherInv
<1> DEFINE m == Head(news)
<1>1. /\ news # << >> /\ UNCHANGED <<mIdentifier, mAddressableFields, mCompleted, book>>
      /\ m = news[1] /\ m \in NewsOfBook
  BY TailOfNews DEF Hears, WatcherTypes
<1>2. CASE m.kind = "added"
  <2>1. onContactsAdded
    BY <1>2 DEF Hears
  <2>2. CASE mContactId # NoCard \/ mIdentifier = Empty
    <3>1. news' = Tail(news) /\ UNCHANGED <<mContactId, mAlias, mRequest>>
      BY <2>1, <2>2 DEF onContactsAdded
    <3>2. mIdentifier = Empty => ~Ready
      BY DEF Ready, Interactive
    <3> QED
      BY <1>1, <1>2, <2>2, <3>1, <3>2, ShownStays
  <2>3. CASE ~(mContactId # NoCard \/ mIdentifier = Empty)
    <3>1. Search(Tail(news)) /\ mContactId' = mContactId
      BY <2>1, <2>3 DEF onContactsAdded
    <3> QED
      BY <1>1, <3>1, SearchAfterNews DEF WatcherTypes
  <2> QED
    BY <2>2, <2>3
<1>3. CASE m.kind = "changed"
  <2>1. Search(Tail(news)) /\ mContactId' = mContactId
    BY <1>3 DEF Hears, onContactsChanged
  <2> QED
    BY <1>1, <2>1, SearchAfterNews DEF WatcherTypes
<1>4. CASE m.kind = "removed"
  <2>1. onContactsRemoved(m.card)
    BY <1>4 DEF Hears
  <2>2. CASE m.card = mContactId
    <3>1. Search(Tail(news)) /\ mContactId' = NoCard
      BY <2>1, <2>2 DEF onContactsRemoved, Clear, Shows
    <3> QED
      BY <1>1, <3>1, SearchAfterNews
  <2>3. CASE m.card # mContactId
    <3>1. news' = Tail(news) /\ UNCHANGED <<mContactId, mAlias, mRequest>>
      BY <2>1, <2>3 DEF onContactsRemoved
    <3> QED
      BY <1>1, <1>4, <2>3, <3>1, ShownStays
  <2> QED
    BY <2>2, <2>3
<1>5. CASE m.kind = "results"
  <2>1. SearchEnds(m.found)
    BY <1>5 DEF Hears
  <2> QED
    BY <1>1, <1>5, <2>1, ResultsStep
<1> QED
  BY <1>1, <1>2, <1>3, <1>4, <1>5 DEF NewsOfBook

\* The identifier, the fields or the component change.
LEMMA SetStep ==
  ASSUME WatcherInv, NEW id \in Keyed \cup {Hidden, Empty}, mIdentifier' = id,
         mContactId' \in Cards \cup {NoCard}, UNCHANGED book,
         mAddressableFields' \in {"none", "tel", "other"}, mCompleted' \in BOOLEAN,
         \/ startSearching(mIdentifier', mAddressableFields', mCompleted', news)
         \/ ~Interactive(id) /\ UNCHANGED <<mRequest, news>>
  PROVE  WatcherInv'
<1> USE DEF WatcherInv
<1>1. startSearching(mIdentifier', mAddressableFields', mCompleted', news)
  BY DEF startSearching
<1>2. /\ mRequest' = NoSearch \/ mRequest' \in [for : Keyed, answered : BOOLEAN]
      /\ news' \in Seq(NewsOfBook)
      /\ OneAnswer' /\ AnswerIsRight' /\ ShownIsRight'
  BY <1>1, SearchStarts DEF WatcherTypes, OneAnswer
<1> QED
  BY <1>2 DEF WatcherTypes

\* Something is sent by the address book.
LEMMA AppendOfNews ==
  ASSUME WatcherInv, NEW m \in NewsOfBook, news' = Append(news, m)
  PROVE  /\ news' \in Seq(NewsOfBook) /\ Len(news) \in Nat /\ Len(news') = Len(news) + 1
         /\ news'[Len(news) + 1] = m
         /\ \A i \in 1 .. Len(news) : news'[i] = news[i]
         /\ \A card : \A i \in Nat \ {0} : Upset(card, i) => Upset(card, i)'
         /\ \A card : \A i \in Nat : /\ i <= Len(news) + 1
                                 /\ \/ m.kind = "changed"
                                    \/ m.kind = "added" /\ card = NoCard
                                    \/ m.kind = "removed" /\ card # NoCard /\ m.card = card
                                 => Upset(card, i)'
<1> USE DEF WatcherInv
<1>1. /\ news' \in Seq(NewsOfBook) /\ Len(news) \in Nat /\ Len(news') = Len(news) + 1
      /\ news'[Len(news) + 1] = m
      /\ \A i \in 1 .. Len(news) : news'[i] = news[i]
  BY AppendProperties DEF WatcherTypes
<1> QED
  BY <1>1 DEF Upset

\* The address book answers the search with what it has at that moment.
LEMMA AnswersStep ==
  ASSUME WatcherInv, Answers
  PROVE  WatcherInv'
<1> USE DEF WatcherInv
<1> DEFINE m == News("results", NoCard, Found(mRequest.for))
<1>1. /\ ~mRequest.answered /\ mRequest \in [for : Keyed, answered : BOOLEAN]
      /\ mRequest' = [mRequest EXCEPT !.answered = TRUE] /\ news' = Append(news, m)
      /\ UNCHANGED <<mIdentifier, mAddressableFields, mCompleted, mContactId, mAlias, book>>
  BY DEF Answers, WatcherTypes
<1>2. /\ mRequest' \in [for : Keyed, answered : BOOLEAN] /\ mRequest'.answered /\ mRequest'.for = mRequest.for
      /\ mRequest' # NoSearch
  BY <1>1, WatcherAssumption DEF NoSearch
<1>3. /\ Found(mRequest.for) \subseteq Hits
      /\ \A r \in Found(mRequest.for) : r.id = mRequest.for /\ book[r.card].id = r.id /\ book[r.card].name = r.name
      /\ Found(mRequest.for) = {} => \A c \in Cards : book[c].id # mRequest.for
  <2> DEFINE id == mRequest.for
  <2>1. id \in Keyed /\ \A c \in Cards : book[c].name \in Names
    BY <1>1 DEF WatcherTypes
  <2> HIDE DEF id
  <2>2. \A c \in Cards : book[c].id = id => [card |-> c, id |-> id, name |-> book[c].name] \in Found(id)
    BY DEF Found
  <2>3. ASSUME NEW r \in Found(id)
        PROVE  r \in Hits /\ r.id = id /\ book[r.card].id = r.id /\ book[r.card].name = r.name
    <3>1. PICK c \in Cards : book[c].id = id /\ r = [card |-> c, id |-> id, name |-> book[c].name]
      BY DEF Found
    <3> QED
      BY <2>1, <3>1 DEF Hits
  <2> QED
    BY <2>2, <2>3 DEF id
<1>4. m \in NewsOfBook /\ m.kind = "results" /\ m.found = Found(mRequest.for)
  BY <1>3 DEF NewsOfBook, News
<1> HIDE DEF m
<1>5. /\ news' \in Seq(NewsOfBook) /\ Len(news) \in Nat /\ Len(news') = Len(news) + 1
      /\ news'[Len(news) + 1] = m
      /\ \A i \in 1 .. Len(news) : news'[i] = news[i]
  BY <1>1, <1>4, AppendOfNews
<1>6. \A i \in 1 .. Len(news') : news'[i].kind = "results" => i = Len(news) + 1
  <2> SUFFICES ASSUME NEW i \in 1 .. Len(news'), i # Len(news) + 1 PROVE news'[i].kind # "results"
    OBVIOUS
  <2>1. i \in 1 .. Len(news)
    BY <1>5
  <2> QED
    BY <1>1, <1>5, <2>1 DEF OneAnswer
<1>7. WatcherTypes' /\ OneAnswer'
  BY <1>1, <1>2, <1>5, <1>6 DEF WatcherTypes, OneAnswer
<1>8. Ready' => Ready /\ mRequest.for = mIdentifier
  BY <1>1 DEF Ready, ShownIsRight, NoSearch, Answers
<1>9. AnswerIsRight'
  <2> SUFFICES ASSUME Ready', NEW i \in 1 .. Len(news'), news'[i].kind = "results"
               PROVE  /\ \A r \in news'[i].found :
                           r.id = mIdentifier' /\ (Right(r.card, r.name)' \/ Upset(r.card, i + 1)')
                      /\ news'[i].found = {} => NobodyIsRight' \/ Upset(NoCard, i + 1)'
    BY DEF AnswerIsRight
  <2>1. news'[i].found = Found(mRequest.for)
    BY <1>4, <1>5, <1>6
  <2> QED
    BY <1>1, <1>3, <1>8, <2>1 DEF Right, NobodyIsRight
<1>10. ShownIsRight'
  BY <1>1, <1>2, <1>8 DEF ShownIsRight
<1> QED
  BY <1>7, <1>9, <1>10

\* An entry of the address book changes, and the news tell of it.
LEMMA EditStep ==
  ASSUME WatcherInv, NEW c \in Cards, NEW written \in [id : Keyed \cup {Empty}, name : Names],
         NEW kind \in {"added", "changed", "removed"}, Edit(c, written, kind),
         kind = "added" => book[c] = Absent,
         kind = "removed" => written = Absent
  PROVE  WatcherInv'
<1> USE DEF WatcherInv
<1> DEFINE m == News(kind, c, {})
<1>1. /\ book' = [book EXCEPT ![c] = written] /\ news' = Append(news, m)
      /\ UNCHANGED <<mIdentifier, mAddressableFields, mCompleted, mContactId, mAlias, mRequest>>
  BY DEF Edit
<1>2. m \in NewsOfBook /\ m.kind = kind /\ m.card = c
  BY DEF NewsOfBook, News
<1> HIDE DEF m
<1>3. /\ news' \in Seq(NewsOfBook) /\ Len(news) \in Nat /\ Len(news') = Len(news) + 1
      /\ news'[Len(news) + 1] = m
      /\ \A i \in 1 .. Len(news) : news'[i] = news[i]
      /\ \A card : \A i \in Nat \ {0} : Upset(card, i) => Upset(card, i)'
      /\ \A card : \A i \in Nat : /\ i <= Len(news) + 1
                              /\ \/ kind = "changed"
                                 \/ kind = "added" /\ card = NoCard
                                 \/ kind = "removed" /\ card # NoCard /\ c = card
                              => Upset(card, i)'
  BY <1>1, <1>2, AppendOfNews
<1>4. \A i \in 1 .. Len(news') : news'[i].kind = "results" => i \in 1 .. Len(news)
  BY <1>2, <1>3
<1>5. WatcherTypes'
  BY <1>1, <1>3 DEF WatcherTypes
<1>6. OneAnswer'
  BY <1>1, <1>3, <1>4 DEF OneAnswer
<1>7. Ready' = Ready /\ (Ready => mIdentifier \in Keyed /\ mIdentifier # Empty)
  BY <1>1, WatcherAssumption DEF Ready, Interactive, WatcherTypes
<1>8. ASSUME Ready, NEW card \in Cards, NEW name, NEW i \in 1 .. Len(news) + 1, Right(card, name)
      PROVE  Right(card, name)' \/ Upset(card, i)'
  <2>1. CASE card # c
    BY <1>1, <1>8, <2>1 DEF Right, WatcherTypes
  <2>2. CASE card = c
    <3>1. kind # "added"
      BY <1>7, <1>8, <2>2 DEF Right, Absent
    <3>2. card # NoCard
      BY WatcherAssumption
    <3> QED
      BY <1>3, <2>2, <3>1, <3>2
  <2> QED
    BY <2>1, <2>2
<1>9. ASSUME Ready, NEW i \in 1 .. Len(news) + 1, NobodyIsRight
      PROVE  NobodyIsRight' \/ Upset(NoCard, i)'
  <2>1. CASE kind = "removed"
    <3>1. written.id = Empty /\ mIdentifier # Empty
      BY <1>7, <1>9, <2>1 DEF Absent
    <3> QED
      BY <1>1, <1>9, <3>1 DEF NobodyIsRight, WatcherTypes
  <2>2. CASE kind # "removed"
    BY <1>3, <2>2
  <2> QED
    BY <2>1, <2>2
<1>10. AnswerIsRight'
  <2> SUFFICES ASSUME Ready, NEW i \in 1 .. Len(news), news[i].kind = "results"
               PROVE  /\ \A r \in news[i].found :
                           r.id = mIdentifier /\ (Right(r.card, r.name)' \/ Upset(r.card, i + 1)')
                      /\ news[i].found = {} => NobodyIsRight' \/ Upset(NoCard, i + 1)'
    BY <1>1, <1>3, <1>4, <1>7 DEF AnswerIsRight
  <2>1. /\ \A r \in news[i].found :
             r.id = mIdentifier /\ (Right(r.card, r.name) \/ Upset(r.card, i + 1))
        /\ news[i].found = {} => NobodyIsRight \/ Upset(NoCard, i + 1)
    BY DEF AnswerIsRight
  <2>2. news[i] \in NewsOfBook
    BY <1>3 DEF WatcherTypes
  <2>3. \A r \in news[i].found : r.card \in Cards
    BY <2>2 DEF NewsOfBook, Hits
  <2>4. i + 1 \in 1 .. Len(news) + 1 /\ i + 1 \in Nat \ {0}
    BY <1>3
  <2> QED
    BY <1>3, <1>8, <1>9, <2>1, <2>3, <2>4
<1>11. ShownIsRight'
  <2> SUFFICES ASSUME Ready, mRequest = NoSearch
               PROVE  \/ Upset(mContactId, 1)'
                      \/ IF mContactId = NoCard THEN NobodyIsRight'
                         ELSE \E name \in Names : mAlias = <<mContactId, name>> /\ Right(mContactId, name)'
    BY <1>1, <1>7 DEF ShownIsRight, Upset, Right, NobodyIsRight
  <2>1. \/ Upset(mContactId, 1)
        \/ IF mContactId = NoCard THEN NobodyIsRight
           ELSE \E name \in Names : mAlias = <<mContactId, name>> /\ Right(mContactId, name)
    BY DEF ShownIsRight
  <2>2. 1 \in 1 .. Len(news) + 1 /\ 1 \in Nat \ {0} /\ 1 \in Nat /\ 1 <= Len(news) + 1
    BY <1>3
  <2>3. PICK card : card = mContactId
    OBVIOUS
  <2>4. (Upset(card, 1) <=> Upset(mContactId, 1)) /\ (Upset(card, 1)' <=> Upset(mContactId, 1)')
    BY <1>1, <2>3 DEF Upset
  <2>5. CASE Upset(mContactId, 1)
    BY <1>3, <2>2, <2>4, <2>5
  <2>6. CASE mContactId = NoCard /\ NobodyIsRight
    <3>1. NobodyIsRight' \/ Upset(NoCard, 1)'
      BY <1>9, <2>2, <2>6
    <3>2. Upset(NoCard, 1)' => Upset(card, 1)'
      BY <2>3, <2>6
    <3> QED
      BY <2>4, <2>6, <3>1, <3>2
  <2>7. ASSUME mContactId # NoCard, NEW name \in Names, mAlias = <<mContactId, name>>, Right(mContactId, name)
        PROVE  Upset(mContactId, 1)' \/ Right(mContactId, name)'
    <3>1. card \in Cards
      BY <2>3, <2>7 DEF WatcherTypes
    <3>2. Right(card, name)' \/ Upset(card, 1)'
      BY <1>8, <2>2, <2>3, <2>7, <3>1
    <3> QED
      BY <1>1, <2>3, <2>4, <3>2 DEF Right
  <2> QED
    BY <1>1, <2>1, <2>5, <2>6, <2>7 DEF Right
<1> QED
  BY <1>5, <1>6, <1>10, <1>11

\* Every step of the watcher and of the address book keeps the invariant.
LEMMA WatcherStep ==
  ASSUME WatcherInv, [WatcherNext]_watcherVars
  PROVE  WatcherInv'
<1>1. ASSUME NEW raw \in Identifiers \cup {Hidden, Empty}, setIdentifier(raw)
      PROVE  WatcherInv'
  <2> DEFINE id == IF Interactive(raw) THEN Normalized[raw] ELSE raw
  <2>1. id \in Keyed \cup {Hidden, Empty}
    BY DEF Interactive, Keyed
  <2>2. /\ mIdentifier' = id
        /\ IF Interactive(id)
           THEN /\ startSearching(id, mAddressableFields, mCompleted, news)
                /\ UNCHANGED mContactId
           ELSE mContactId' = NoCard /\ UNCHANGED <<mRequest, news>>
        /\ UNCHANGED <<mAddressableFields, mCompleted, book>>
    BY <1>1 DEF setIdentifier
  <2> HIDE DEF id
  <2>3. mContactId' \in Cards \cup {NoCard} /\ mAddressableFields' \in {"none", "tel", "other"} /\ mCompleted' \in BOOLEAN
    BY <2>2 DEF WatcherInv, WatcherTypes
  <2>4. \/ startSearching(mIdentifier', mAddressableFields', mCompleted', news)
        \/ ~Interactive(id) /\ UNCHANGED <<mRequest, news>>
    BY <2>2
  <2> QED
    BY <2>1, <2>2, <2>3, <2>4, SetStep
<1>2. ASSUME NEW fields \in {"none", "tel", "other"}, setAddressableFields(fields)
      PROVE  WatcherInv'
  <2>1. /\ mIdentifier' \in Keyed \cup {Hidden, Empty} /\ mContactId' \in Cards \cup {NoCard}
        /\ UNCHANGED book /\ mAddressableFields' \in {"none", "tel", "other"} /\ mCompleted' \in BOOLEAN
        /\ startSearching(mIdentifier', mAddressableFields', mCompleted', news)
    BY <1>2 DEF setAddressableFields, WatcherInv, WatcherTypes
  <2> QED
    BY <2>1, SetStep
<1>3. ASSUME componentComplete
      PROVE  WatcherInv'
  <2>1. /\ mIdentifier' \in Keyed \cup {Hidden, Empty} /\ mContactId' \in Cards \cup {NoCard}
        /\ UNCHANGED book /\ mAddressableFields' \in {"none", "tel", "other"} /\ mCompleted' \in BOOLEAN
        /\ startSearching(mIdentifier', mAddressableFields', mCompleted', news)
    BY <1>3 DEF componentComplete, WatcherInv, WatcherTypes
  <2> QED
    BY <2>1, SetStep
<1>4. ASSUME NEW c \in Cards, NEW id \in Keyed, AddCard(c, id)
      PROVE  WatcherInv'
  <2>1. [id |-> id, name |-> 1] \in [id : Keyed \cup {Empty}, name : Names]
    BY DEF Names
  <2> QED
    BY <1>4, <2>1, EditStep DEF AddCard
<1>5. ASSUME NEW c \in Cards, NEW id \in Keyed, NEW name \in Names, ChangeCard(c, id, name)
      PROVE  WatcherInv'
  <2>1. [id |-> id, name |-> name] \in [id : Keyed \cup {Empty}, name : Names]
    OBVIOUS
  <2> QED
    BY <1>5, <2>1, EditStep DEF ChangeCard
<1>6. ASSUME NEW c \in Cards, RemoveCard(c)
      PROVE  WatcherInv'
  <2>1. Absent \in [id : Keyed \cup {Empty}, name : Names]
    BY DEF Names, Absent
  <2> QED
    BY <1>6, <2>1, EditStep DEF RemoveCard
<1>7. CASE UNCHANGED watcherVars
  BY <1>7 DEF watcherVars, WatcherInv, WatcherTypes, OneAnswer, AnswerIsRight, ShownIsRight, Ready, Upset, Right, NobodyIsRight
<1> QED
  BY <1>1, <1>2, <1>3, <1>4, <1>5, <1>6, <1>7, HearsStep, AnswersStep DEF WatcherNext

LEMMA WatcherStart ==
  ASSUME WatcherInit
  PROVE  WatcherInv
<1> USE DEF WatcherInit
<1>1. book \in [Cards -> [id : Keyed \cup {Empty}, name : Names]]
  BY DEF Absent, Names
<1>2. news \in Seq(NewsOfBook) /\ Len(news) = 0
  BY ListEmpty
<1>3. ~Ready
  BY DEF Ready
<1>4. WatcherTypes
  BY <1>1, <1>2 DEF WatcherTypes
<1> QED
  BY <1>2, <1>3, <1>4 DEF WatcherInv, OneAnswer, AnswerIsRight, ShownIsRight

\* What was found or is shown is right for the address book of now, or a signal on
\* its way leads to another search, through every change of the identifier, the
\* fields and the address book (contactwatcher.cpp:230-426).
THEOREM WatcherInvariant == WatcherSpec => []WatcherInv
<1>1. WatcherInit => WatcherInv
  BY WatcherStart
<1>2. WatcherInv /\ [WatcherNext]_watcherVars => WatcherInv'
  BY WatcherStep
<1> QED
  BY <1>1, <1>2, PTL DEF WatcherSpec

\* Once the searches and the signals are over, the contact shown is one that the
\* address book has for the identifier, under the name it has now, and none is
\* shown only if it has none (contactwatcher.cpp:364-426).
THEOREM WatcherShowsContact == WatcherSpec => []ShownIsOfIdentifier
<1>1. WatcherInv => ShownIsOfIdentifier
  <2> SUFFICES ASSUME WatcherInv, Ready, AtRest
               PROVE  IF mContactId = NoCard
                      THEN \A c \in Cards : book[c].id # mIdentifier
                      ELSE /\ book[mContactId].id = mIdentifier
                           /\ mAlias = <<mContactId, book[mContactId].name>>
    BY DEF ShownIsOfIdentifier
  <2>1. mRequest = NoSearch /\ Len(news) = 0
    BY ListEmpty DEF AtRest
  <2>2. ~Upset(mContactId, 1)
    BY <2>1 DEF Upset
  <2>3. IF mContactId = NoCard THEN NobodyIsRight
        ELSE \E name \in Names : mAlias = <<mContactId, name>> /\ Right(mContactId, name)
    BY <2>1, <2>2 DEF WatcherInv, ShownIsRight
  <2> QED
    BY <2>3 DEF NobodyIsRight, Right
<1> QED
  BY <1>1, WatcherInvariant, PTL
=============================================================================
