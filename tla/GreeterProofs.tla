------------------------- MODULE GreeterProofs -------------------------
(***************************************************************************)
(* Theorems about the settings, the contacts and the ringtone of the greeter *)
(* (Greeter) and about where the sound goes (AudioRoute), which share no   *)
(* state.                                                                  *)
(***************************************************************************)
EXTENDS Greeter, AudioRoute, SequenceLemmas

-----------------------------------------------------------------------------
(***************************************************************************)
(* Two independent parts of Greeter.  First, the ringtone obeys the last   *)
(* order about the sound of calls.  Second (NewsInv), the settings and the *)
(* contacts a process knows are those of the service once it has heard     *)
(* what is on its way.  Both for every number of users, contacts, orders   *)
(* and changes.                                                            *)
(*                                                                         *)
(* StopsRinging speaks of an empty queue only.  What it needs of the       *)
(* others: when the last order was to stop and something rings or is going *)
(* to, an order to stop is in the queue behind every order to play.        *)
(***************************************************************************)

Queued == commands \in Seq(Orders)

\* The order at the head is the one the thread serves, and is about playing.
ServesHead ==
    worker.key # "none" \/ Held =>
        commands # <<>> /\ Head(commands) \in {"playCall", "playMessage"}

Rings == callPlays \/ \E i \in 1 .. Len(commands) : commands[i] = "playCall"

LastIsStop ==
    \E i \in 1 .. Len(commands) :
        /\ commands[i] = "stopCall"
        /\ \A j \in i + 1 .. Len(commands) : commands[j] # "playCall"

StopIsComing == lastAsked = "stopCall" /\ Rings => LastIsStop

IInv == Queued /\ ServesHead /\ StopIsComing

(***************************************************************************)
(* Adding an order, and taking one away.                                   *)
(***************************************************************************)
LEMMA OrderStep ==
    ASSUME IInv, NEW order \in Orders, Order(order)
    PROVE  IInv'
<1> USE DEF IInv
<1>1. commands \in Seq(Orders) /\ commands' = Append(commands, order)
  BY DEF Queued, Order, Queue
<1>2. UNCHANGED <<worker, callPlays>>
  BY DEF Order, Queue
<1>3. /\ commands' \in Seq(Orders) /\ Len(commands') = Len(commands) + 1
      /\ commands'[Len(commands) + 1] = order
      /\ \A i \in 1 .. Len(commands) : commands'[i] = commands[i]
  BY <1>1
<1>4. Queued'
  BY <1>3 DEF Queued
<1>5. ServesHead'
  BY <1>1, <1>2, <1>3 DEF ServesHead, Held
<1>6. StopIsComing'
  <2>1. CASE order = "stopCall"
    BY <2>1, <1>1, <1>3 DEF StopIsComing, LastIsStop
  <2>2. CASE order = "playCall"
    BY <2>2 DEF Order, StopIsComing
  <2>3. CASE order \notin {"playCall", "stopCall"}
    <3>1. lastAsked' = lastAsked
      BY <2>3 DEF Order
    <3> SUFFICES ASSUME lastAsked = "stopCall", Rings'
                 PROVE  LastIsStop'
      BY <3>1 DEF StopIsComing
    <3>2. Rings
      BY <1>1, <1>2, <1>3, <2>3 DEF Rings
    <3>3. PICK k \in 1 .. Len(commands) :
            /\ commands[k] = "stopCall"
            /\ \A j \in k + 1 .. Len(commands) : commands[j] # "playCall"
      BY <3>2 DEF StopIsComing, LastIsStop
    <3> QED
      BY <3>3, <1>1, <1>3, <2>3 DEF LastIsStop
  <2> QED
    BY <2>1, <2>2, <2>3
<1> QED
  BY <1>4, <1>5, <1>6

\* An order to stop that is behind an order to play stays in the queue.
LEMMA DoneStep ==
    ASSUME IInv, commands # <<>>, Done, lastAsked' = lastAsked,
           \/ Head(commands) = "stopCall" /\ ~callPlays'
           \/ Head(commands) = "playCall"
           \/ Head(commands) \notin {"stopCall", "playCall"} /\ callPlays' = callPlays
    PROVE  IInv'
<1> USE DEF IInv
<1>1. commands \in Seq(Orders) /\ commands' = Tail(commands) /\ worker' = Resting
  BY DEF Queued, Done
<1>2. /\ commands' \in Seq(Orders) /\ Len(commands') = Len(commands) - 1
      /\ \A i \in 1 .. Len(commands) - 1 : commands'[i] = commands[i + 1]
      /\ Head(commands) = commands[1] /\ Len(commands) \in Nat \ {0}
  BY <1>1
<1>3. Queued' /\ ServesHead'
  BY <1>1, <1>2 DEF Queued, ServesHead, Held, Resting
<1>4. StopIsComing'
  <2> SUFFICES ASSUME lastAsked = "stopCall", Rings'
               PROVE  LastIsStop'
    BY DEF StopIsComing
  <2>1. Rings
    <3>1. CASE callPlays'
      <4>1. CASE Head(commands) = "playCall"
        BY <4>1, <1>2 DEF Rings
      <4>2. CASE callPlays' = callPlays
        BY <3>1, <4>2 DEF Rings
      <4> QED
        BY <3>1, <4>1, <4>2
    <3>2. CASE ~callPlays'
      <4>1. PICK i \in 1 .. Len(commands) - 1 : commands'[i] = "playCall"
        BY <3>2, <1>2 DEF Rings
      <4> QED
        BY <4>1, <1>2 DEF Rings
    <3> QED
      BY <3>1, <3>2
  <2>2. PICK k \in 1 .. Len(commands) :
          /\ commands[k] = "stopCall"
          /\ \A j \in k + 1 .. Len(commands) : commands[j] # "playCall"
    BY <2>1 DEF StopIsComing, LastIsStop
  <2>3. k # 1
    <3>1. CASE Head(commands) # "stopCall"
      BY <3>1, <2>2, <1>2
    <3>2. CASE Head(commands) = "stopCall"
      <4>1. PICK i \in 1 .. Len(commands) - 1 : commands'[i] = "playCall"
        BY <3>2, <1>2 DEF Rings
      <4> QED
        BY <4>1, <2>2, <1>2
    <3> QED
      BY <3>1, <3>2
  <2>4. k - 1 \in 1 .. Len(commands') /\ commands'[k - 1] = "stopCall"
    BY <2>2, <2>3, <1>2
  <2>5. ASSUME NEW j \in (k - 1) + 1 .. Len(commands')
        PROVE  commands'[j] # "playCall"
    <3>1. j + 1 \in k + 1 .. Len(commands) /\ commands'[j] = commands[j + 1]
      BY <2>2, <1>2
    <3> QED
      BY <3>1, <2>2
  <2> QED
    BY <2>4, <2>5 DEF LastIsStop
<1> QED
  BY <1>3, <1>4

\* The thread goes on with the order it serves.
LEMMA ServingStep ==
    ASSUME IInv, commands # <<>>, Head(commands) \in {"playCall", "playMessage"},
           UNCHANGED <<commands, lastAsked>>, callPlays' => callPlays
    PROVE  IInv'
<1>1. Queued' /\ ServesHead'
  BY DEF IInv, Queued, ServesHead
<1>2. StopIsComing'
  BY DEF IInv, StopIsComing, Rings, LastIsStop
<1> QED
  BY <1>1, <1>2 DEF IInv

(***************************************************************************)
(* The thread: what it takes, what it learns.                              *)
(***************************************************************************)
LEMMA TakeStep ==
    ASSUME IInv, Take, lastAsked' = lastAsked
    PROVE  IInv'
<1>0. commands # <<>>
  BY DEF Take
<1>1. CASE WorkerStops /\ Done
  BY <1>0, <1>1, DoneStep DEF WorkerStops
<1>2. CASE Head(commands) \in {"playCall", "playMessage"} /\ UNCHANGED <<commands, callPlays>>
  BY <1>0, <1>2, ServingStep
<1> QED
  BY <1>1, <1>2 DEF Take

LEMMA LearnsStep ==
    ASSUME IInv, NEW v, Learns(v), worker.key # "none" \/ Held, lastAsked' = lastAsked
    PROVE  IInv'
<1>1. commands # <<>> /\ Head(commands) \in {"playCall", "playMessage"}
  BY DEF IInv, ServesHead
<1>2. CASE Head(commands) = "playCall"
  <2>1. CallSound(v)
    BY <1>2 DEF Learns
  <2>2. CASE Done
    BY <1>1, <1>2, <2>2, DoneStep
  <2>3. CASE ~callPlays' /\ UNCHANGED commands
    BY <1>1, <2>3, ServingStep
  <2> QED
    BY <2>1, <2>2, <2>3 DEF CallSound
<1>3. CASE Head(commands) = "playMessage"
  <2>1. MessageSound(v)
    BY <1>3 DEF Learns
  <2>2. CASE Done /\ callPlays' = callPlays
    BY <1>1, <1>3, <2>2, DoneStep
  <2>3. CASE UNCHANGED <<commands, callPlays>>
    BY <1>1, <2>3, ServingStep
  <2> QED
    BY <2>1, <2>2, <2>3 DEF MessageSound
<1> QED
  BY <1>1, <1>2, <1>3

LEMMA ThreadStep ==
    ASSUME IInv, Worker
    PROVE  IInv'
<1>0. lastAsked' = lastAsked
  BY DEF Worker
<1>1. CASE Take
  BY <1>0, <1>1, TakeStep
<1>2. CASE Look
  <2>1. CASE Valid(cache[worker.key])
    BY <1>0, <1>2, <2>1, LearnsStep DEF Look
  <2>2. CASE ~Valid(cache[worker.key])
    BY <1>0, <1>2, <2>2, ServingStep DEF Look, IInv, ServesHead
  <2> QED
    BY <2>1, <2>2
<1>3. CASE Answered
  BY <1>0, <1>3, ServingStep DEF Answered, IInv, ServesHead, Held
<1>4. CASE Store
  <2>1. Held
    BY <1>4 DEF Store, Held
  <2> QED
    BY <1>0, <1>4, <2>1, LearnsStep DEF Store
<1> QED
  BY <1>1, <1>2, <1>3, <1>4 DEF Worker

(***************************************************************************)
(* The steps of the main thread and of both services leave the orders      *)
(* alone.                                                                  *)
(***************************************************************************)
LEMMA Unchanged ==
    ASSUME IInv, UNCHANGED <<worker, commands, lastAsked, callPlays>>
    PROVE  IInv'
BY DEF IInv, Queued, ServesHead, Held, StopIsComing, Rings, LastIsStop

LEMMA NextStep ==
    ASSUME IInv, [Next]_vars
    PROVE  IInv'
<1>1. ASSUME NEW n \in Numbers, setContactFilter(n) PROVE IInv'
  BY <1>1, Unchanged DEF setContactFilter, ringtone
<1>2. CASE ReadsSilentMode
  BY <1>2, Unchanged DEF ReadsSilentMode, ringtone
<1>3. CASE MainHearsService
  BY <1>3, Unchanged DEF MainHearsService, ringtone
<1>4. CASE MainHearsGreeter
  BY <1>4, Unchanged DEF MainHearsGreeter, ringtone
<1>5. ASSUME NEW order \in Orders, Order(order) PROVE IInv'
  BY <1>5, OrderStep
<1>6. CASE Worker
  BY <1>6, ThreadStep
<1>7. CASE MessageSoundEnds
  BY <1>7, Unchanged DEF MessageSoundEnds
<1>8. ASSUME NEW u \in Users, NEW k \in Changing, SettingIsSet(u, k) PROVE IInv'
  BY <1>8, Unchanged DEF SettingIsSet, ringtone
<1>9. ASSUME NEW u \in Users, NEW c \in Contacts, ContactIsPublished(u, c) PROVE IInv'
  BY <1>9, Unchanged DEF ContactIsPublished, ringtone
<1>10. CASE ServiceAnswers
  BY <1>10, Unchanged DEF ServiceAnswers, ringtone
<1>11. ASSUME NEW u \in Users \cup {Nobody}, EntryChanges(u) PROVE IInv'
  BY <1>11, Unchanged DEF EntryChanges, ringtone
<1>12. CASE GreeterAnswers
  BY <1>12, Unchanged DEF GreeterAnswers, ringtone
<1>13. CASE UNCHANGED vars
  BY <1>13, Unchanged DEF vars, ringtone
<1> QED
  BY <1>1, <1>2, <1>3, <1>4, <1>5, <1>6, <1>7, <1>8, <1>9, <1>10, <1>11, <1>12, <1>13
     DEF Next

LEMMA InitHolds == Init => IInv
BY DEF Init, IInv, Queued, ServesHead, Held, StopIsComing, Rings, LastIsStop, Resting

\* Once the thread of the ringtone has served its orders, no call rings after
\* the last order was to stop (ringtone.cpp:133-141), however many orders came
\* while it waited for a setting with mMutex held.
THEOREM RingtoneObeys == Spec => []StopsRinging
<1>1. IInv => StopsRinging
  BY DEF IInv, Queued, StopIsComing, Rings, LastIsStop, StopsRinging
<1> QED
  BY <1>1, InitHolds, NextStep, PTL DEF Spec

(***************************************************************************)
(* The cache and the contacts.  What the process knows may be old, but     *)
(* then something is on the way that makes it new: a message about it in   *)
(* the mail, the last of which is good, or a request that is not answered. *)
(***************************************************************************)
SettingMail == [kind : {"changed"}, user : Users, key : Keys, val : Values \cup {"invalid"}]
ContactMail ==
    [kind : {"changed"}, user : Users, key : {"CurrentContact"},
     val : Contacts \cup {None, "invalid"}]
    \cup [kind : {"contact"}, user : Users, key : {"CurrentContact"}, val : Contacts \cup {None}]
UsersMail == [kind : {"users"}, user : {None}, key : {"none"}, val : {None}]
ErrorMail == [kind : {"error"}, user : Users \cup {None}, key : {"none"}, val : {None}]
Mail == SettingMail \cup ContactMail \cup UsersMail \cup ErrorMail

MmsNews(u) == {m \in SettingMail : m.user = u /\ m.key = "MmsEnabled"}
MmsTrue(u) == {m \in MmsNews(u) : m.val \in {value[u]["MmsEnabled"], "invalid"}}
\* An error is news too: it says that the contact is not known.
ContactErrors(u) == {m \in ErrorMail : m.user \in {u, None}}
ContactNews(u) == {m \in ContactMail : m.user = u} \cup ContactErrors(u)
ContactTrue(u) == {m \in ContactNews(u) : m.val \in {info[u], "invalid"} \/ m.kind = "error"}

EntryMails == Users \cup {None, Nobody, "error"}

ServiceTypes ==
    /\ greeterMode \in BOOLEAN
    /\ value \in [Users -> [Keys -> Values]]
    /\ info \in [Users -> Contacts \cup {None}]
    /\ requests \in Seq(Users \cup {None})
    /\ mail \in Seq(Mail)
    /\ entry \in Users \cup {Nobody}
    /\ listAsked \in Nat
    /\ listMail \in Seq(EntryMails)

Workers == [key : SoundKeys \cup {"none"}, step : {"runs", "asked", "answered"},
            user : Users \cup {None}, reply : Values \cup {"invalid"}]

\* The thread waits for an answer about a setting of sounds only.
WorkerType == worker \in Workers /\ (Held => worker.key # "none")

MemberTypes ==
    /\ mActiveUser \in Users \cup {None}
    /\ cache \in [Keys -> Values \cup {"invalid"}]
    /\ mContacts \in [Users -> Contacts \cup {None}]
    /\ WorkerType

\* Outside of the greeter nothing is asked of it.
SessionIsActive ==
    ~greeterMode => listMail = <<>> /\ listAsked = 0 /\ mActiveUser = SessionUser

MmsMailIsGood == \A u \in Users : LastGood(mail, MmsNews(u), MmsTrue(u))

CacheIsKnown ==
    Valid(cache["MmsEnabled"]) =>
        /\ mActiveUser # None
        /\ \/ Has(mail, MmsNews(mActiveUser))
           \/ cache["MmsEnabled"] = value[mActiveUser]["MmsEnabled"]

CopyIsKnown ==
    ~greeterMode =>
        \/ Has(mail, MmsNews(SessionUser))
        \/ mMmsEnabled = (value[SessionUser]["MmsEnabled"] = "on")

\* The contact of a user is going to be asked for.
Coming(u) == Has(requests, {u, None}) \/ Has(mail, UsersMail)

ContactMailIsGood ==
    \A u \in Users : Coming(u) \/ LastGood(mail, ContactNews(u), ContactTrue(u))

ContactsAreKnown ==
    \A u \in Users :
        Coming(u) \/ Has(mail, ContactNews(u)) \/ mContacts[u] = info[u] \/ u \in unknown

EntryIsKnown ==
    greeterMode =>
        \/ listAsked > 0
        \/ IF listMail = <<>> THEN mActiveUser = entry \/ entry = Nobody \/ entryUnknown
           ELSE listMail[Len(listMail)] \in {entry, None, "error"}

ContactIsShown ==
    LET found == Lookup(mContacts, mActiveUser, mFilter)
    IN  found # None => shown = found

TypesInv == ServiceTypes /\ MemberTypes
MmsInv == MmsMailIsGood /\ CacheIsKnown /\ CopyIsKnown
ContactsInv == ContactMailIsGood /\ ContactsAreKnown
EntryInv == SessionIsActive /\ EntryIsKnown

NewsInv == TypesInv /\ MmsInv /\ ContactsInv /\ EntryInv /\ ContactIsShown

\* Every user is in the list.
LEMMA ListHasUsers ==
    ASSUME NEW u \in Users
    PROVE  Has(UserList, {u, None})
BY DEF Has, Users

(***************************************************************************)
(* What leaves a part of the invariant alone.                              *)
(***************************************************************************)
LEMMA MmsFrame ==
    ASSUME MmsInv,
           UNCHANGED <<greeterMode, mail, value, mActiveUser, mMmsEnabled>>,
           cache'["MmsEnabled"] = cache["MmsEnabled"]
    PROVE  MmsInv'
<1>1. MmsMailIsGood'
  BY DEF MmsInv, MmsMailIsGood, MmsTrue
<1>2. CacheIsKnown' /\ CopyIsKnown'
  BY DEF MmsInv, CacheIsKnown, CopyIsKnown
<1> QED
  BY <1>1, <1>2 DEF MmsInv

LEMMA ContactsFrame ==
    ASSUME ContactsInv, UNCHANGED <<mail, requests, info, mContacts, unknown>>
    PROVE  ContactsInv'
BY DEF ContactsInv, ContactMailIsGood, ContactsAreKnown, Coming, ContactTrue

LEMMA EntryFrame ==
    ASSUME EntryInv, UNCHANGED <<greeterMode, mActiveUser, greeter>>
    PROVE  EntryInv'
BY DEF EntryInv, SessionIsActive, EntryIsKnown, greeter

LEMMA ShownFrame ==
    ASSUME ContactIsShown, UNCHANGED <<mContacts, mActiveUser, mFilter, shown>>
    PROVE  ContactIsShown'
BY DEF ContactIsShown, Lookup

LEMMA ShownAfterSignal ==
    ASSUME SignalIfNeeded(mContacts', mActiveUser', mFilter')
    PROVE  ContactIsShown'
BY DEF SignalIfNeeded, ContactIsShown, Lookup

\* A message that is not about MmsEnabled.
LEMMA MmsOtherMail ==
    ASSUME TypesInv, MmsInv, NEW e \in Mail, mail' = Append(mail, e),
           \A u \in Users : e \notin MmsNews(u),
           UNCHANGED <<greeterMode, value, cache, mActiveUser, mMmsEnabled>>
    PROVE  MmsInv'
<1>1. mail \in Seq(Mail)
  BY DEF TypesInv, ServiceTypes
<1>2. \A u \in Users : Has(mail, MmsNews(u)) => Has(mail', MmsNews(u))
  BY <1>1, HasAppend
<1>3. ASSUME NEW u \in Users PROVE LastGood(mail', MmsNews(u), MmsTrue(u)')
  <2>1. MmsTrue(u)' = MmsTrue(u)
    BY DEF MmsTrue
  <2>2. LastGood(mail, MmsNews(u), MmsTrue(u))
    BY DEF MmsInv, MmsMailIsGood
  <2> QED
    BY <1>1, <2>1, <2>2, GoodAppend
<1>4. MmsMailIsGood'
  BY <1>3 DEF MmsMailIsGood
<1>5. CacheIsKnown'
  BY <1>2 DEF MmsInv, CacheIsKnown, TypesInv, MemberTypes
<1>6. CopyIsKnown'
  BY <1>2, GreeterAssumption DEF MmsInv, CopyIsKnown
<1> QED
  BY <1>4, <1>5, <1>6 DEF MmsInv

\* A message that is not about a contact.
LEMMA ContactsOtherMail ==
    ASSUME TypesInv, ContactsInv, NEW e \in Mail, mail' = Append(mail, e),
           \A u \in Users : e \notin ContactNews(u),
           UNCHANGED <<requests, info, mContacts, unknown>>
    PROVE  ContactsInv'
<1>1. mail \in Seq(Mail)
  BY DEF TypesInv, ServiceTypes
<1>2. \A u \in Users : Coming(u) => Coming(u)'
  BY <1>1, HasAppend DEF Coming
<1>3. ASSUME NEW u \in Users, ~Coming(u)' PROVE LastGood(mail', ContactNews(u), ContactTrue(u)')
  <2>1. ContactTrue(u)' = ContactTrue(u)
    BY DEF ContactTrue
  <2>2. LastGood(mail, ContactNews(u), ContactTrue(u))
    BY <1>2, <1>3 DEF ContactsInv, ContactMailIsGood
  <2> QED
    BY <1>1, <2>1, <2>2, GoodAppend
<1>4. ContactMailIsGood'
  BY <1>3 DEF ContactMailIsGood
<1>5. ContactsAreKnown'
  BY <1>1, <1>2, HasAppend DEF ContactsInv, ContactsAreKnown
<1> QED
  BY <1>4, <1>5 DEF ContactsInv

(***************************************************************************)
(* The settings and the contact of a user change.                          *)
(***************************************************************************)
LEMMA SettingIsSetNews ==
    ASSUME NewsInv, NEW u \in Users, NEW k \in Changing, SettingIsSet(u, k)
    PROVE  NewsInv'
<1> USE DEF NewsInv
<1>0. k \in Keys
  BY ChangingAssumption
<1>1. mail \in Seq(Mail) /\ value \in [Users -> [Keys -> Values]] /\ k \in Keys
  BY <1>0 DEF TypesInv, ServiceTypes
<1>2. PICK new \in Values, told \in Values \cup {"invalid"} :
        /\ told \in {new, "invalid"}
        /\ value' = [value EXCEPT ![u][k] = new]
        /\ mail' = Append(mail, Message("changed", u, k, told))
  BY DEF SettingIsSet, Tells, Values
<1> DEFINE e == Message("changed", u, k, told)
<1>3. e \in SettingMail /\ e.user = u /\ e.key = k /\ e.val = told
  BY <1>1 DEF Message, SettingMail
<1>4. e \in Mail /\ \A v \in Users : e \notin ContactNews(v)
  BY <1>1, <1>3 DEF Mail, ContactNews, ContactErrors, ErrorMail, ContactMail, Keys, SoundKeys, Message
<1>5. UNCHANGED <<greeterMode, members, ringtone, info, requests, unknown, greeter>>
  BY DEF SettingIsSet
<1>6. TypesInv'
  <2>1. value' \in [Users -> [Keys -> Values]]
    BY <1>1, <1>2
  <2>2. mail' \in Seq(Mail)
    BY <1>1, <1>2, <1>4
  <2> QED
    BY <1>5, <2>1, <2>2
       DEF TypesInv, ServiceTypes, MemberTypes, members, ringtone, greeter, WorkerType, Held
<1>7. MmsInv'
  <2>1. ASSUME NEW v \in Users
        PROVE  \/ k = "MmsEnabled" /\ v = u
               \/ e \notin MmsNews(v) /\ value'[v]["MmsEnabled"] = value[v]["MmsEnabled"]
    BY <1>1, <1>2, <1>3 DEF MmsNews, Keys
  <2>2. k = "MmsEnabled" =>
          e \in MmsNews(u) /\ e \in MmsTrue(u)' /\ Has(mail', MmsNews(u))
    <3> SUFFICES ASSUME k = "MmsEnabled"
                 PROVE  e \in MmsNews(u) /\ e \in MmsTrue(u)' /\ Has(mail', MmsNews(u))
      OBVIOUS
    <3>1. e \in MmsNews(u) /\ value'[u]["MmsEnabled"] = new
      BY <1>1, <1>2, <1>3 DEF MmsNews
    <3>2. e \in MmsTrue(u)'
      BY <1>2, <1>3, <3>1 DEF MmsTrue
    <3> HIDE DEF e
    <3>3. Has(mail', MmsNews(u))
      BY <1>1, <1>2, <1>4, <3>1, HasAppend DEF e
    <3> QED
      BY <3>1, <3>2, <3>3
  <2> HIDE DEF e
  <2>3. mail' = Append(mail, e)
    BY <1>2 DEF e
  <2>4. ASSUME NEW v \in Users PROVE LastGood(mail', MmsNews(v), MmsTrue(v)')
    <3>1. CASE k = "MmsEnabled" /\ v = u
      BY <1>1, <1>4, <2>2, <2>3, <3>1, GoodAppend
    <3>2. CASE e \notin MmsNews(v) /\ value'[v]["MmsEnabled"] = value[v]["MmsEnabled"]
      <4>1. MmsTrue(v)' = MmsTrue(v)
        BY <3>2 DEF MmsTrue
      <4>2. LastGood(mail, MmsNews(v), MmsTrue(v))
        BY DEF MmsInv, MmsMailIsGood
      <4> QED
        BY <1>1, <1>4, <2>3, <3>2, <4>1, <4>2, GoodAppend
    <3> QED
      BY <2>1, <3>1, <3>2
  <2>5. \A v \in Users : \/ Has(mail', MmsNews(v))
                        \/ /\ ~Has(mail, MmsNews(v))
                           /\ value'[v]["MmsEnabled"] = value[v]["MmsEnabled"]
    BY <1>1, <1>4, <2>1, <2>2, <2>3, HasAppend
  <2>6. CacheIsKnown'
    BY <1>5, <2>5 DEF MmsInv, CacheIsKnown, members, TypesInv, MemberTypes
  <2>7. CopyIsKnown'
    BY <1>5, <2>5, GreeterAssumption DEF MmsInv, CopyIsKnown, members
  <2> QED
    BY <2>4, <2>6, <2>7 DEF MmsInv, MmsMailIsGood
<1>8. ContactsInv'
  <2> HIDE DEF e
  <2>1. mail' = Append(mail, e) /\ UNCHANGED <<requests, info, mContacts, unknown>>
    BY <1>2, <1>5 DEF e, members
  <2> QED
    BY <1>4, <2>1, ContactsOtherMail
<1>9. EntryInv' /\ ContactIsShown'
  BY <1>5, EntryFrame, ShownFrame DEF members
<1> QED
  BY <1>6, <1>7, <1>8, <1>9

LEMMA ContactIsPublishedNews ==
    ASSUME NewsInv, NEW u \in Users, NEW c \in Contacts, ContactIsPublished(u, c)
    PROVE  NewsInv'
<1> USE DEF NewsInv
<1>1. mail \in Seq(Mail) /\ info \in [Users -> Contacts \cup {None}]
  BY DEF TypesInv, ServiceTypes
<1>2. PICK told \in {c, "invalid"} :
        mail' = Append(mail, Message("changed", u, "CurrentContact", told))
  BY DEF ContactIsPublished, Tells
<1> DEFINE e == Message("changed", u, "CurrentContact", told)
<1>3. e \in ContactMail /\ e.user = u /\ e.val = told /\ e.key = "CurrentContact"
  BY DEF Message, ContactMail
<1>4. e \in Mail /\ e \in ContactNews(u) /\ \A v \in Users : e \notin MmsNews(v)
  BY <1>3 DEF Mail, ContactNews, MmsNews
<1>5. /\ info' = [info EXCEPT ![u] = c]
      /\ UNCHANGED <<greeterMode, members, ringtone, value, requests, unknown, greeter>>
  BY DEF ContactIsPublished
<1>6. TypesInv'
  <2>1. info' \in [Users -> Contacts \cup {None}]
    BY <1>1, <1>5
  <2>2. mail' \in Seq(Mail)
    BY <1>1, <1>2, <1>4
  <2> QED
    BY <1>5, <2>1, <2>2
       DEF TypesInv, ServiceTypes, MemberTypes, members, ringtone, greeter, WorkerType, Held
<1>7. e \in ContactTrue(u)'
  BY <1>1, <1>3, <1>4, <1>5 DEF ContactTrue
<1> HIDE DEF e
<1>8. mail' = Append(mail, e)
  BY <1>2 DEF e
<1>9. MmsInv'
  BY <1>4, <1>5, <1>8, MmsOtherMail DEF members
<1>10. ContactsInv'
  <2>1. Has(mail', ContactNews(u))
    BY <1>1, <1>4, <1>8, HasAppend
  <2>2. \A v \in Users : Coming(v) => Coming(v)'
    BY <1>1, <1>4, <1>5, <1>8, HasAppend DEF Coming
  <2>3. ASSUME NEW v \in Users, ~Coming(v)'
        PROVE  LastGood(mail', ContactNews(v), ContactTrue(v)')
    <3>1. CASE v = u
      BY <1>1, <1>4, <1>7, <1>8, <3>1, GoodAppend
    <3>2. CASE v # u
      <4>1. ContactTrue(v)' = ContactTrue(v) /\ e \notin ContactNews(v)
        BY <1>1, <1>3, <1>5, <3>2 DEF ContactTrue, ContactNews, ContactErrors, ErrorMail, ContactMail
      <4>2. LastGood(mail, ContactNews(v), ContactTrue(v))
        BY <2>2, <2>3 DEF ContactsInv, ContactMailIsGood
      <4> QED
        BY <1>1, <1>4, <1>8, <4>1, <4>2, GoodAppend
    <3> QED
      BY <3>1, <3>2
  <2>4. ASSUME NEW v \in Users
        PROVE  \/ Coming(v)' \/ Has(mail', ContactNews(v))
               \/ mContacts'[v] = info'[v] \/ v \in unknown'
    BY <1>1, <1>4, <1>5, <1>8, <2>1, <2>2, HasAppend
       DEF ContactsInv, ContactsAreKnown, members
  <2> QED
    BY <2>3, <2>4 DEF ContactsInv, ContactMailIsGood, ContactsAreKnown
<1>11. EntryInv' /\ ContactIsShown'
  BY <1>5, EntryFrame, ShownFrame DEF members
<1> QED
  BY <1>6, <1>9, <1>10, <1>11

(***************************************************************************)
(* The service and the greeter answer, and the greeter changes.            *)
(***************************************************************************)
LEMMA ServiceAnswersNews ==
    ASSUME NewsInv, ServiceAnswers
    PROVE  NewsInv'
<1> USE DEF NewsInv
<1>1. /\ mail \in Seq(Mail) /\ info \in [Users -> Contacts \cup {None}]
      /\ requests \in Seq(Users \cup {None}) /\ requests # << >>
  BY DEF TypesInv, ServiceTypes, ServiceAnswers
<1> DEFINE w == Head(requests)
           answer == IF w = None THEN Message("users", None, "none", None)
                     ELSE Message("contact", w, "CurrentContact", info[w])
           error == Message("error", w, "none", None)
<1>2. PICK e \in {answer, error} :
         /\ requests' = Tail(requests) /\ mail' = Append(mail, e)
         /\ UNCHANGED <<greeterMode, members, ringtone, value, info, unknown, greeter>>
  BY DEF ServiceAnswers
<1>3. w \in Users \cup {None} /\ requests' \in Seq(Users \cup {None})
  BY <1>1, <1>2
<1>4. e = answer /\ w = None => e \in UsersMail
  BY DEF Message, UsersMail
<1>5. e = answer /\ w # None => e \in ContactMail /\ e.user = w /\ e.val = info[w]
  BY <1>1, <1>3 DEF Message, ContactMail
<1>6. e = error => e \in ErrorMail /\ e.user = w /\ e.kind = "error"
  BY <1>3 DEF Message, ErrorMail
<1> HIDE DEF answer, error
<1>e. e \in Mail
  BY <1>4, <1>5, <1>6 DEF Mail
<1>7. \A u \in Users : e \notin MmsNews(u)
  BY <1>4, <1>5, <1>6 DEF MmsNews, SettingMail, UsersMail, ContactMail, ErrorMail, Keys, SoundKeys
<1>8. ASSUME NEW u \in Users, w \notin {u, None} PROVE e \notin ContactNews(u)
  BY <1>4, <1>5, <1>6, <1>8 DEF ContactNews, ContactErrors, ContactMail, ErrorMail
<1>9. ASSUME NEW u \in Users, w = u \/ (w = None /\ e = error)
      PROVE  e \in ContactNews(u) /\ e \in ContactTrue(u)'
  <2>1. e \in ContactNews(u)
    BY <1>5, <1>6, <1>9, GreeterAssumption DEF ContactNews, ContactErrors
  <2>2. e.val = info'[u] \/ e.kind = "error"
    BY <1>2, <1>5, <1>6, <1>9, GreeterAssumption
  <2> QED
    BY <2>1, <2>2 DEF ContactTrue
<1>10. TypesInv'
  <2>1. mail' \in Seq(Mail)
    BY <1>1, <1>2, <1>e
  <2> QED
    BY <1>2, <1>3, <2>1
       DEF TypesInv, ServiceTypes, MemberTypes, members, ringtone, greeter, WorkerType, Held
<1>11. MmsInv'
  BY <1>2, <1>e, <1>7, MmsOtherMail DEF members
<1>12. ASSUME NEW u \in Users, ~Coming(u)'
       PROVE  w = u \/ (w = None /\ e = error) \/ (w \notin {u, None} /\ ~Coming(u))
  <2>1. w = None => e = error
    BY <1>1, <1>2, <1>4, <1>e, <1>12, HasAppend DEF Coming
  <2>2. Has(requests, {u, None}) => w \in {u, None}
    BY <1>1, <1>2, <1>12, HasTail DEF Coming
  <2>3. ~Has(mail, UsersMail)
    BY <1>1, <1>2, <1>e, <1>12, HasAppend DEF Coming
  <2> QED
    BY <2>1, <2>2, <2>3 DEF Coming
<1>13. ASSUME NEW u \in Users, ~Coming(u)'
       PROVE  LastGood(mail', ContactNews(u), ContactTrue(u)')
  <2>1. CASE w = u \/ (w = None /\ e = error)
    BY <1>1, <1>2, <1>e, <1>9, <2>1, GoodAppend
  <2>2. CASE w \notin {u, None} /\ ~Coming(u)
    <3>1. ContactTrue(u)' = ContactTrue(u)
      BY <1>2 DEF ContactTrue
    <3>2. LastGood(mail, ContactNews(u), ContactTrue(u))
      BY <2>2 DEF ContactsInv, ContactMailIsGood
    <3>3. e \notin ContactNews(u)
      BY <1>8, <2>2
    <3> QED
      BY <1>1, <1>2, <1>e, <3>1, <3>2, <3>3, GoodAppend
  <2> QED
    BY <1>12, <1>13, <2>1, <2>2
<1>14. ASSUME NEW u \in Users
       PROVE  \/ Coming(u)' \/ Has(mail', ContactNews(u))
              \/ mContacts'[u] = info'[u] \/ u \in unknown'
  <2>1. CASE w = u \/ (w = None /\ e = error)
    BY <1>1, <1>2, <1>e, <1>9, <2>1, HasAppend
  <2>2. CASE ~Coming(u)
    BY <1>1, <1>2, <1>e, <2>2, HasAppend DEF ContactsInv, ContactsAreKnown, members
  <2> QED
    BY <1>12, <2>1, <2>2
<1>15. ContactsInv'
  BY <1>13, <1>14 DEF ContactsInv, ContactMailIsGood, ContactsAreKnown
<1>16. EntryInv' /\ ContactIsShown'
  BY <1>2, EntryFrame, ShownFrame DEF members
<1> QED
  BY <1>10, <1>11, <1>15, <1>16

\* Of the greeter, an answer or a signal more that names the entry, or does not.
LEMMA EntryMail ==
    ASSUME NewsInv, greeterMode, NEW e \in EntryMails, listMail' = Append(listMail, e),
           entry' \in Users \cup {Nobody}, e \in {entry', None, "error"}, listAsked' \in Nat,
           UNCHANGED entryUnknown,
           UNCHANGED <<greeterMode, members, ringtone, service>>
    PROVE  NewsInv'
<1> USE DEF NewsInv
<1>1. listMail \in Seq(EntryMails)
  BY DEF TypesInv, ServiceTypes
<1>2. /\ listMail' \in Seq(EntryMails) /\ listMail' # << >>
      /\ listMail'[Len(listMail')] = e
  BY <1>1
<1>3. TypesInv'
  BY <1>2 DEF TypesInv, ServiceTypes, MemberTypes, members, ringtone, service, WorkerType, Held
<1>4. EntryInv'
  BY <1>2 DEF EntryInv, SessionIsActive, EntryIsKnown
<1>5. MmsInv' /\ ContactsInv' /\ ContactIsShown'
  BY MmsFrame, ContactsFrame, ShownFrame DEF members, service
<1> QED
  BY <1>3, <1>4, <1>5

LEMMA EntryChangesNews ==
    ASSUME NewsInv, NEW u \in Users \cup {Nobody}, EntryChanges(u)
    PROVE  NewsInv'
<1>1. PICK told \in {u, None} : listMail' = Append(listMail, told)
  BY DEF EntryChanges
<1>2. listAsked' \in Nat /\ entry' = u /\ greeterMode
  BY DEF EntryChanges, NewsInv, TypesInv, ServiceTypes
<1>3. UNCHANGED <<greeterMode, members, ringtone, service, entryUnknown>>
  BY DEF EntryChanges
<1> QED
  BY <1>1, <1>2, <1>3, EntryMail DEF EntryMails

LEMMA GreeterAnswersNews ==
    ASSUME NewsInv, GreeterAnswers
    PROVE  NewsInv'
<1>1. /\ \E e \in {entry, "error"} : listMail' = Append(listMail, e)
      /\ entry' = entry
  BY DEF GreeterAnswers
<1>2. listAsked' \in Nat /\ entry \in Users \cup {Nobody}
  BY DEF GreeterAnswers, NewsInv, TypesInv, ServiceTypes
<1>3. UNCHANGED <<greeterMode, members, ringtone, service, entryUnknown>>
  BY DEF GreeterAnswers
<1>4. greeterMode
  BY DEF GreeterAnswers, NewsInv, TypesInv, ServiceTypes, EntryInv, SessionIsActive
<1> QED
  BY <1>1, <1>2, <1>3, <1>4, EntryMail DEF EntryMails

(***************************************************************************)
(* The main thread hears the greeter, and the service.                     *)
(***************************************************************************)
LEMMA HearsGreeterNews ==
    ASSUME NewsInv, MainHearsGreeter
    PROVE  NewsInv'
<1> USE DEF NewsInv
<1> DEFINE u == Head(listMail)
<1>1. /\ listMail \in Seq(EntryMails) /\ listMail # << >>
      /\ listMail' = Tail(listMail) /\ listAsked \in Nat
      /\ UNCHANGED <<greeterMode, ringtone, service, entry>>
  BY DEF TypesInv, ServiceTypes, MainHearsGreeter
<1>2. /\ listMail' \in Seq(EntryMails) /\ u \in EntryMails
      /\ listMail' = << >> => listMail[Len(listMail)] = u
      /\ listMail' # << >> => listMail'[Len(listMail')] = listMail[Len(listMail)]
  <2>1. /\ Len(listMail) \in Nat \ {0} /\ u = listMail[1] /\ u \in EntryMails
        /\ listMail' \in Seq(EntryMails) /\ Len(listMail') = Len(listMail) - 1
        /\ \A i \in 1 .. Len(listMail) - 1 : listMail'[i] = listMail[i + 1]
    BY <1>1
  <2>2. listMail' = << >> => Len(listMail) = 1
    BY <2>1
  <2>3. listMail' # << >> => Len(listMail') \in 1 .. Len(listMail) - 1
    BY <2>1
  <2> QED
    BY <2>1, <2>2, <2>3
<1>3. greeterMode
  BY <1>1 DEF EntryInv, SessionIsActive, TypesInv, ServiceTypes
<1>4. CASE u \in Users
  <2>1. updateActiveUser(u) /\ listAsked' = listAsked
    BY <1>4, GreeterAssumption DEF MainHearsGreeter
  <2>2. TypesInv'
    BY <1>1, <1>2, <1>4, <2>1
       DEF TypesInv, ServiceTypes, MemberTypes, updateActiveUser, Uncached, ringtone, service, WorkerType, Held
  <2>3. MmsInv'
    <3>1. ~Valid(cache'["MmsEnabled"])
      BY <1>4, <2>1 DEF updateActiveUser, Uncached, Valid, Values, Keys
    <3>2. MmsMailIsGood'
      BY <1>1 DEF MmsInv, MmsMailIsGood, MmsTrue, service
    <3> QED
      BY <1>1, <1>3, <3>1, <3>2 DEF MmsInv, CacheIsKnown, CopyIsKnown
  <2>4. ContactsInv'
    <3>1. UNCHANGED <<mail, requests, info, mContacts, unknown>>
      BY <1>1, <1>4, <2>1 DEF service, updateActiveUser
    <3> QED
      BY <3>1, ContactsFrame
  <2>5. EntryInv'
    BY <1>1, <1>2, <1>3, <1>4, <2>1, GreeterAssumption
       DEF EntryInv, SessionIsActive, EntryIsKnown, updateActiveUser
  <2>6. ContactIsShown'
    BY <1>4, <2>1, ShownAfterSignal DEF updateActiveUser
  <2> QED
    BY <2>2, <2>3, <2>4, <2>5, <2>6
<1>5. CASE u = None
  <2>1. listAsked' = listAsked + 1 /\ UNCHANGED members
    BY <1>5, GreeterAssumption DEF MainHearsGreeter
  <2>2. TypesInv'
    BY <1>1, <1>2, <2>1
       DEF TypesInv, ServiceTypes, MemberTypes, members, ringtone, service, WorkerType, Held
  <2>3. EntryInv'
    BY <1>1, <1>3, <2>1 DEF EntryInv, SessionIsActive, EntryIsKnown
  <2>4. MmsInv' /\ ContactsInv' /\ ContactIsShown'
    BY <1>1, <2>1, MmsFrame, ContactsFrame, ShownFrame DEF members, service
  <2> QED
    BY <2>2, <2>3, <2>4
<1>6. CASE u \in {Nobody, "error"}
  <2>1. UNCHANGED <<listAsked, members>> /\ entryUnknown' = (u = "error")
    BY <1>6, GreeterAssumption DEF MainHearsGreeter, updateActiveUser
  <2>2. TypesInv'
    BY <1>1, <1>2, <2>1
       DEF TypesInv, ServiceTypes, MemberTypes, members, ringtone, service, WorkerType, Held
  <2>3. EntryInv'
    BY <1>1, <1>2, <1>3, <1>6, <2>1, GreeterAssumption DEF EntryInv, SessionIsActive, EntryIsKnown
  <2>4. MmsInv' /\ ContactsInv' /\ ContactIsShown'
    BY <1>1, <2>1, MmsFrame, ContactsFrame, ShownFrame DEF members, service
  <2> QED
    BY <2>2, <2>3, <2>4
<1> QED
  BY <1>2, <1>4, <1>5, <1>6 DEF EntryMails

\* What the main thread hears leaves the mail.
LEMMA HeardMail ==
    ASSUME TypesInv, MainHearsService
    PROVE  /\ mail \in Seq(Mail) /\ mail # << >> /\ Head(mail) \in Mail
           /\ mail' = Tail(mail) /\ mail' \in Seq(Mail)
           /\ UNCHANGED <<greeterMode, ringtone, value, info, greeter>>
BY DEF TypesInv, ServiceTypes, MainHearsService

\* A message that says nothing of MmsEnabled of the active user.
LEMMA MmsHeardOther ==
    ASSUME NewsInv, MainHearsService, UNCHANGED <<mActiveUser, mMmsEnabled>>,
           cache'["MmsEnabled"] = cache["MmsEnabled"],
           Head(mail) \notin MmsNews(mActiveUser)
    PROVE  MmsInv'
<1> USE DEF NewsInv
<1>1. /\ mail \in Seq(Mail) /\ mail # << >> /\ mail' = Tail(mail)
      /\ UNCHANGED <<greeterMode, value>>
  BY HeardMail
<1>2. ASSUME NEW u \in Users PROVE LastGood(mail', MmsNews(u), MmsTrue(u)')
  <2>1. MmsTrue(u)' = MmsTrue(u)
    BY <1>1 DEF MmsTrue
  <2>2. LastGood(mail, MmsNews(u), MmsTrue(u))
    BY DEF MmsInv, MmsMailIsGood
  <2> QED
    BY <1>1, <2>1, <2>2, GoodTail
<1>3. Has(mail, MmsNews(mActiveUser)) => Has(mail', MmsNews(mActiveUser))
  BY <1>1, HasTail
<1>4. CacheIsKnown'
  BY <1>1, <1>3 DEF MmsInv, CacheIsKnown
<1>5. CopyIsKnown'
  <2>1. ~greeterMode => mActiveUser = SessionUser
    BY DEF EntryInv, SessionIsActive
  <2> QED
    BY <1>1, <1>3, <2>1 DEF MmsInv, CopyIsKnown
<1> QED
  BY <1>2, <1>4, <1>5 DEF MmsInv, MmsMailIsGood

\* One that does: the value is written or read.
LEMMA MmsHeardNews ==
    ASSUME NewsInv, MainHearsService, NEW m, m = Head(mail), m \in MmsNews(mActiveUser),
           mActiveUser \in Users, SettingChanged(m)
    PROVE  MmsInv'
<1> USE DEF NewsInv
<1> DEFINE u == mActiveUser
<1>1. /\ mail \in Seq(Mail) /\ mail # << >> /\ mail' = Tail(mail)
      /\ UNCHANGED <<greeterMode, value>>
  BY HeardMail
<1>2. /\ cache' = mainReads("MmsEnabled", [cache EXCEPT !["MmsEnabled"] = m.val])
      /\ mMmsEnabled' = (cache'["MmsEnabled"] = "on")
      /\ mActiveUser' = mActiveUser
  BY DEF SettingChanged, MmsNews
<1>3. cache \in [Keys -> Values \cup {"invalid"}] /\ value \in [Users -> [Keys -> Values]]
  BY DEF TypesInv, ServiceTypes, MemberTypes
<1>4. cache'["MmsEnabled"] = IF Valid(m.val) THEN m.val ELSE value[u]["MmsEnabled"]
  BY <1>2, <1>3, GreeterAssumption DEF mainReads, Setting, Keys
<1>5. LastGood(mail, MmsNews(u), MmsTrue(u))
  BY DEF MmsInv, MmsMailIsGood
<1>6. ~Has(mail', MmsNews(u)) => m \in MmsTrue(u)
  BY <1>1, <1>5, GoodTail
<1>7. m \in MmsTrue(u) => cache'["MmsEnabled"] = value[u]["MmsEnabled"]
  BY <1>4 DEF MmsTrue, Valid, Values
<1>8. ASSUME NEW v \in Users PROVE LastGood(mail', MmsNews(v), MmsTrue(v)')
  <2>1. MmsTrue(v)' = MmsTrue(v)
    BY <1>1 DEF MmsTrue
  <2>2. LastGood(mail, MmsNews(v), MmsTrue(v))
    BY DEF MmsInv, MmsMailIsGood
  <2> QED
    BY <1>1, <2>1, <2>2, GoodTail
<1>9. CacheIsKnown'
  BY <1>1, <1>2, <1>6, <1>7, GreeterAssumption DEF CacheIsKnown
<1>10. CopyIsKnown'
  <2>1. ~greeterMode => mActiveUser = SessionUser
    BY DEF EntryInv, SessionIsActive
  <2> QED
    BY <1>1, <1>2, <1>6, <1>7, <2>1 DEF CopyIsKnown
<1> QED
  BY <1>8, <1>9, <1>10 DEF MmsInv, MmsMailIsGood

\* The contact a message names is kept.
LEMMA ContactHeard ==
    ASSUME NewsInv, MainHearsService, NEW u \in Users, Head(mail) \in ContactMail, Head(mail).user = u,
           Head(mail).val # "invalid", mContacts' = [mContacts EXCEPT ![u] = Head(mail).val],
           requests' = requests, unknown' = unknown \ {u}
    PROVE  ContactsInv'
<1> USE DEF NewsInv
<1> DEFINE m == Head(mail)
<1>1. /\ mail \in Seq(Mail) /\ mail # << >> /\ mail' = Tail(mail) /\ info' = info
  BY HeardMail
<1>2. mContacts \in [Users -> Contacts \cup {None}]
  BY DEF TypesInv, MemberTypes
<1>3. /\ m \notin UsersMail /\ m \in ContactNews(u) /\ m.kind # "error"
      /\ \A v \in Users : v # u => m \notin ContactNews(v)
  BY DEF ContactNews, ContactErrors, ContactMail, UsersMail, ErrorMail
<1>4. \A v \in Users : Coming(v) => Coming(v)'
  BY <1>1, <1>3, HasTail DEF Coming
<1>5. ASSUME NEW v \in Users, ~Coming(v)'
      PROVE  /\ LastGood(mail', ContactNews(v), ContactTrue(v)')
             /\ v = u /\ ~Has(mail', ContactNews(u)) => m \in ContactTrue(u)
  <2>1. ContactTrue(v)' = ContactTrue(v)
    BY <1>1 DEF ContactTrue
  <2>2. LastGood(mail, ContactNews(v), ContactTrue(v))
    BY <1>4, <1>5 DEF ContactsInv, ContactMailIsGood
  <2> QED
    BY <1>1, <1>3, <2>1, <2>2, GoodTail
<1>6. m \in ContactTrue(u) => mContacts'[u] = info[u]
  BY <1>2, <1>3 DEF ContactTrue
<1>7. \A v \in Users : v # u => mContacts'[v] = mContacts[v]
  BY <1>2
<1>8. ASSUME NEW v \in Users, ~Coming(v)', ~Has(mail', ContactNews(v))
      PROVE  mContacts'[v] = info'[v] \/ v \in unknown'
  <2>1. CASE v = u
    BY <1>1, <1>5, <1>6, <1>8, <2>1
  <2>2. CASE v # u
    BY <1>1, <1>3, <1>4, <1>7, <1>8, <2>2, HasTail DEF ContactsInv, ContactsAreKnown
  <2> QED
    BY <2>1, <2>2
<1> QED
  BY <1>5, <1>8 DEF ContactsInv, ContactMailIsGood, ContactsAreKnown

\* A message that names none: whoever it is about is going to be asked.
LEMMA ContactAsked ==
    ASSUME NewsInv, MainHearsService, UNCHANGED <<mContacts, unknown>>,
           \A u \in Users : Has(requests, {u, None}) => Has(requests', {u, None}),
           \A u \in Users : Head(mail) \in ContactNews(u) \cup UsersMail
                            => Has(requests', {u, None})
    PROVE  ContactsInv'
<1> USE DEF NewsInv
<1>1. /\ mail \in Seq(Mail) /\ mail # << >> /\ mail' = Tail(mail) /\ info' = info
  BY HeardMail
<1>2. \A u \in Users : Coming(u) => Coming(u)'
  BY <1>1, HasTail DEF Coming
<1>3. ASSUME NEW u \in Users, ~Coming(u)'
      PROVE  LastGood(mail', ContactNews(u), ContactTrue(u)')
  <2>1. ContactTrue(u)' = ContactTrue(u)
    BY <1>1 DEF ContactTrue
  <2>2. LastGood(mail, ContactNews(u), ContactTrue(u))
    BY <1>2, <1>3 DEF ContactsInv, ContactMailIsGood
  <2> QED
    BY <1>1, <2>1, <2>2, GoodTail
<1>4. ASSUME NEW u \in Users, ~Coming(u)', ~Has(mail', ContactNews(u))
      PROVE  mContacts'[u] = info'[u] \/ u \in unknown'
  <2>1. Head(mail) \notin ContactNews(u)
    BY <1>4 DEF Coming
  <2> QED
    BY <1>1, <1>2, <1>4, <2>1, HasTail DEF ContactsInv, ContactsAreKnown
<1> QED
  BY <1>3, <1>4 DEF ContactsInv, ContactMailIsGood, ContactsAreKnown

\* What was asked was answered with an error.
LEMMA ContactFailed ==
    ASSUME NewsInv, MainHearsService, Head(mail) \in ErrorMail, UNCHANGED <<mContacts, requests>>
    PROVE  ContactsInv'
<1> USE DEF NewsInv
<1> DEFINE m == Head(mail)
<1>1. /\ mail \in Seq(Mail) /\ mail # << >> /\ mail' = Tail(mail) /\ info' = info
  BY HeardMail
<1>2. m \notin UsersMail /\ m.kind = "error" /\ m.key = "none"
  BY DEF UsersMail, ErrorMail
<1>3. unknown' = IF m.user = None THEN Users ELSE unknown \cup {m.user}
  BY <1>2 DEF MainHearsService, UnknownAfter
<1>4. \A u \in Users : Coming(u) => Coming(u)'
  BY <1>1, <1>2, HasTail DEF Coming
<1>5. ASSUME NEW u \in Users, ~Coming(u)'
      PROVE  LastGood(mail', ContactNews(u), ContactTrue(u)')
  <2>1. ContactTrue(u)' = ContactTrue(u)
    BY <1>1 DEF ContactTrue
  <2>2. LastGood(mail, ContactNews(u), ContactTrue(u))
    BY <1>4, <1>5 DEF ContactsInv, ContactMailIsGood
  <2> QED
    BY <1>1, <2>1, <2>2, GoodTail
<1>6. ASSUME NEW u \in Users, ~Coming(u)', ~Has(mail', ContactNews(u))
      PROVE  mContacts'[u] = info'[u] \/ u \in unknown'
  <2>1. CASE m \in ContactNews(u)
    BY <1>2, <1>3, <2>1 DEF ContactNews, ContactErrors, ContactMail
  <2>2. CASE m \notin ContactNews(u)
    BY <1>1, <1>3, <1>4, <1>6, <2>2, HasTail DEF ContactsInv, ContactsAreKnown
  <2> QED
    BY <2>1, <2>2
<1> QED
  BY <1>5, <1>6 DEF ContactsInv, ContactMailIsGood, ContactsAreKnown

LEMMA HearsServiceNews ==
    ASSUME NewsInv, MainHearsService
    PROVE  NewsInv'
<1> USE DEF NewsInv
<1> DEFINE m == Head(mail)
<1>1. /\ mail \in Seq(Mail) /\ mail # << >> /\ m \in Mail
      /\ mail' = Tail(mail) /\ mail' \in Seq(Mail)
      /\ UNCHANGED <<greeterMode, ringtone, value, info, greeter>>
  BY HeardMail
<1>2. /\ requests \in Seq(Users \cup {None}) /\ mContacts \in [Users -> Contacts \cup {None}]
      /\ mActiveUser \in Users \cup {None} /\ cache \in [Keys -> Values \cup {"invalid"}]
      /\ value \in [Users -> [Keys -> Values]]
  BY DEF TypesInv, ServiceTypes, MemberTypes
<1>3. CASE m \in SettingMail
  <2>1. /\ m.kind = "changed" /\ m.user \in Users /\ m.key \in Keys
        /\ m.val \in Values \cup {"invalid"} /\ m.key # "CurrentContact"
    BY <1>3 DEF SettingMail, Keys, SoundKeys
  <2>2. SettingChanged(m) /\ UNCHANGED requests
    BY <2>1 DEF MainHearsService, accountsPropertiesChanged
  <2>f. unknown' = unknown
    BY <2>1 DEF MainHearsService, UnknownAfter
  <2>3. UNCHANGED <<mActiveUser, mContacts, mFilter, shown>>
    BY <2>2 DEF SettingChanged, members
  <2>4. cache' \in [Keys -> Values \cup {"invalid"}]
    BY <1>2, <2>1, <2>2 DEF SettingChanged, mainReads, Setting, members, Keys
  <2>5. TypesInv'
    BY <1>1, <2>2, <2>3, <2>4
       DEF TypesInv, ServiceTypes, MemberTypes, ringtone, greeter, WorkerType, Held
  <2>6. MmsInv'
    <3>1. CASE m \in MmsNews(mActiveUser)
      BY <2>1, <2>2, <3>1, MmsHeardNews DEF MmsNews
    <3>2. CASE m \notin MmsNews(mActiveUser)
      <4>1. m.user # mActiveUser \/ m.key # "MmsEnabled"
        BY <1>3, <3>2 DEF MmsNews
      <4>2. mMmsEnabled' = mMmsEnabled /\ cache'["MmsEnabled"] = cache["MmsEnabled"]
        BY <1>2, <2>1, <2>2, <4>1 DEF SettingChanged, members, Keys
      <4> QED
        BY <2>3, <3>2, <4>2, MmsHeardOther
    <3> QED
      BY <3>1, <3>2
  <2>7. ContactsInv'
    <3>1. \A u \in Users : m \notin ContactNews(u) \cup UsersMail
      BY <2>1 DEF ContactNews, ContactErrors, ErrorMail, ContactMail, UsersMail
    <3> QED
      BY <2>2, <2>3, <2>f, <3>1, ContactAsked
  <2> QED
    BY <1>1, <2>3, <2>5, <2>6, <2>7, EntryFrame, ShownFrame
<1>4. CASE m \in ContactMail /\ m.val # "invalid"
  <2>1. /\ m.kind \in {"changed", "contact"} /\ m.user \in Users /\ m.key = "CurrentContact"
        /\ m.val \in Contacts \cup {None}
    BY <1>4 DEF ContactMail
  <2>2. ContactKnown(m.user, m.val) /\ UNCHANGED requests
    BY <1>4, <2>1 DEF MainHearsService, accountsPropertiesChanged
  <2>3. /\ mContacts' = [mContacts EXCEPT ![m.user] = m.val]
        /\ SignalIfNeeded(mContacts', mActiveUser, mFilter)
        /\ UNCHANGED <<mActiveUser, cache, mFilter, mMmsEnabled>>
    BY <2>2 DEF ContactKnown
  <2>4. mContacts' \in [Users -> Contacts \cup {None}]
    BY <1>2, <2>1, <2>3
  <2>5. TypesInv'
    BY <1>1, <2>2, <2>3, <2>4
       DEF TypesInv, ServiceTypes, MemberTypes, ringtone, greeter, WorkerType, Held
  <2>6. MmsInv'
    <3>1. m \notin MmsNews(mActiveUser)
      BY <2>1 DEF MmsNews, SettingMail, Keys, SoundKeys
    <3> QED
      BY <2>3, <3>1, MmsHeardOther
  <2>7. ContactsInv'
    <3>1. unknown' = unknown \ {m.user}
      BY <1>4, <2>1 DEF MainHearsService, UnknownAfter
    <3> QED
      BY <1>4, <2>1, <2>2, <2>3, <3>1, ContactHeard
  <2>8. EntryInv' /\ ContactIsShown'
    BY <1>1, <2>3, EntryFrame, ShownAfterSignal
  <2> QED
    BY <2>5, <2>6, <2>7, <2>8
<1>5. CASE m \in ContactMail /\ m.val = "invalid"
  <2>1. m.kind = "changed" /\ m.user \in Users /\ m.key = "CurrentContact"
    BY <1>5, GreeterAssumption DEF ContactMail
  <2>2. requests' = Append(requests, m.user) /\ UNCHANGED members
    BY <1>5, <2>1 DEF MainHearsService, accountsPropertiesChanged
  <2>f. unknown' = unknown
    BY <1>5, <2>1 DEF MainHearsService, UnknownAfter
  <2>3. requests' \in Seq(Users \cup {None})
    BY <1>2, <2>1, <2>2
  <2>4. ASSUME NEW u \in Users
        PROVE  /\ Has(requests, {u, None}) => Has(requests', {u, None})
               /\ m \in ContactNews(u) \cup UsersMail => Has(requests', {u, None})
    <3>1. m \in ContactNews(u) \cup UsersMail => m.user \in {u, None}
      BY <2>1 DEF ContactNews, ContactErrors, ErrorMail, UsersMail
    <3>2. m.user \in Users \cup {None}
      BY <2>1
    <3> QED
      BY <1>2, <2>2, <3>1, <3>2, HasAppend
  <2>5. m \notin MmsNews(mActiveUser)
    BY <2>1 DEF MmsNews
  <2>6. TypesInv'
    BY <1>1, <2>2, <2>3
       DEF TypesInv, ServiceTypes, MemberTypes, members, ringtone, greeter, WorkerType, Held
  <2>7. MmsInv'
    BY <2>2, <2>5, MmsHeardOther DEF members
  <2>8. ContactsInv'
    BY <2>2, <2>4, <2>f, ContactAsked DEF members
  <2> QED
    BY <1>1, <2>2, <2>6, <2>7, <2>8, EntryFrame, ShownFrame DEF members
<1>6. CASE m \in UsersMail
  <2>1. m.kind = "users"
    BY <1>6 DEF UsersMail
  <2>2. requests' = requests \o UserList /\ UNCHANGED members
    BY <2>1 DEF MainHearsService, accountsGetUsersReply
  <2>f. unknown' = unknown
    BY <1>6, <2>1 DEF MainHearsService, UnknownAfter, UsersMail
  <2>3. UserList \in Seq(Users \cup {None})
    BY GreeterAssumption
  <2>4. requests' \in Seq(Users \cup {None})
    BY <1>2, <2>2, <2>3
  <2>5. ASSUME NEW u \in Users PROVE Has(requests', {u, None})
    BY <1>2, <2>2, <2>3, HasConcat, ListHasUsers
  <2>6. m \notin MmsNews(mActiveUser)
    BY <2>1 DEF MmsNews, SettingMail
  <2>7. TypesInv'
    BY <1>1, <2>2, <2>4
       DEF TypesInv, ServiceTypes, MemberTypes, members, ringtone, greeter, WorkerType, Held
  <2>8. MmsInv'
    BY <2>2, <2>6, MmsHeardOther DEF members
  <2>9. ContactsInv'
    BY <2>2, <2>5, <2>f, ContactAsked DEF members
  <2> QED
    BY <1>1, <2>2, <2>7, <2>8, <2>9, EntryFrame, ShownFrame DEF members
<1>7. CASE m \in ErrorMail
  <2>1. m.kind = "error" /\ m \notin MmsNews(mActiveUser)
    BY <1>7 DEF ErrorMail, MmsNews, SettingMail
  <2>2. UNCHANGED <<members, requests>>
    BY <2>1 DEF MainHearsService
  <2>3. TypesInv'
    BY <1>1, <2>2
       DEF TypesInv, ServiceTypes, MemberTypes, members, ringtone, greeter, WorkerType, Held
  <2>4. MmsInv'
    BY <2>1, <2>2, MmsHeardOther DEF members
  <2>5. ContactsInv'
    BY <1>7, <2>2, ContactFailed DEF members
  <2> QED
    BY <1>1, <2>2, <2>3, <2>4, <2>5, EntryFrame, ShownFrame DEF members
<1> QED
  BY <1>1, <1>3, <1>4, <1>5, <1>6, <1>7 DEF Mail

(***************************************************************************)
(* The worker writes a setting of sounds only.                             *)
(***************************************************************************)
LEMMA LearnsKey ==
    ASSUME NEW v, Learns(v)
    PROVE  \/ worker' = Resting
           \/ worker' \in {[Resting EXCEPT !.key = k] : k \in SoundKeys}
BY DEF Learns, CallSound, MessageSound, Done, SoundKeys

LEMMA WorkerNews ==
    ASSUME NewsInv, Worker
    PROVE  NewsInv'
<1> USE DEF NewsInv
<1>1. UNCHANGED <<greeterMode, mActiveUser, mContacts, mFilter, shown, mMmsEnabled,
                  service, greeter>>
  BY DEF Worker
<1> DEFINE Reply == Values \cup {"invalid"}
<1>2. /\ WorkerType /\ cache \in [Keys -> Reply] /\ mActiveUser \in Users \cup {None}
      /\ value \in [Users -> [Keys -> Values]]
  BY DEF TypesInv, ServiceTypes, MemberTypes
<1>3. /\ worker \in Workers /\ (Held => worker.key \in SoundKeys)
      /\ worker.user \in Users \cup {None} /\ worker.reply \in Reply
  BY <1>2 DEF WorkerType, Workers
<1>4. \A v : Learns(v) => WorkerType'
  BY LearnsKey DEF Resting, Held, WorkerType, Workers
<1>5. WorkerType' /\ cache' \in [Keys -> Reply] /\ cache'["MmsEnabled"] = cache["MmsEnabled"]
  <2>1. CASE Take /\ UNCHANGED cache
    <3>1. WorkerType'
      BY <2>1 DEF Take, Done, Resting, Held, SoundKeys, WorkerType, Workers
    <3> QED
      BY <1>2, <2>1, <3>1
  <2>2. CASE Look
    <3>1. CASE Learns(cache[worker.key])
      BY <1>2, <1>4, <2>2, <3>1 DEF Look
    <3>2. CASE worker' = [worker EXCEPT !.step = "asked", !.user = mActiveUser]
      <4>1. WorkerType'
        BY <1>2, <1>3, <2>2, <3>2 DEF Look, WorkerType, Workers
      <4> QED
        BY <1>2, <2>2, <4>1 DEF Look
    <3> QED
      BY <2>2, <3>1, <3>2 DEF Look
  <2>3. CASE Answered
    <3>1. worker.key \in Keys /\ worker.key # "none"
      BY <1>3, <2>3 DEF Answered, Held, Keys, SoundKeys
    <3>2. Setting(worker.user, worker.key) \in Reply
      BY <1>2, <1>3, <3>1 DEF Setting
    <3>3. WorkerType'
      BY <1>3, <2>3, <3>1, <3>2 DEF Answered, WorkerType, Workers
    <3> QED
      BY <1>2, <2>3, <3>3 DEF Answered
  <2>4. CASE Store
    <3>1. worker.key \in SoundKeys
      BY <1>3, <2>4 DEF Store, Held
    <3>2. cache' = [cache EXCEPT ![worker.key] = worker.reply] /\ WorkerType'
      BY <1>4, <2>4 DEF Store
    <3> QED
      BY <1>2, <1>3, <3>1, <3>2 DEF SoundKeys, Keys
  <2> QED
    BY <2>1, <2>2, <2>3, <2>4 DEF Worker
<1>6. TypesInv'
  BY <1>1, <1>5 DEF TypesInv, ServiceTypes, MemberTypes, service, greeter
<1>7. MmsInv' /\ ContactsInv' /\ EntryInv' /\ ContactIsShown'
  BY <1>1, <1>5, MmsFrame, ContactsFrame, EntryFrame, ShownFrame DEF service
<1> QED
  BY <1>6, <1>7

LEMMA InitNews == Init => NewsInv
<1> SUFFICES ASSUME Init PROVE NewsInv
  OBVIOUS
<1>1. /\ mail = << >> /\ listMail = << >> /\ worker = Resting /\ entry \in Users \cup {Nobody}
      /\ mContacts = [u \in Users |-> None] /\ info \in [Users -> Contacts \cup {None}]
      /\ greeterMode \in BOOLEAN /\ mFilter = None
  BY DEF Init
<1>2. /\ value \in [Users -> [Keys -> Values]]
      /\ cache \in [Keys -> Values \cup {"invalid"}]
      /\ Valid(cache["MmsEnabled"]) =>
            mActiveUser # None /\ cache["MmsEnabled"] = value[mActiveUser]["MmsEnabled"]
      /\ mActiveUser \in Users \cup {None}
  <2>1. value = [u \in Users |-> [k \in Keys |-> "off"]]
    BY DEF Init
  <2>2. value \in [Users -> [Keys -> Values]]
    BY <2>1 DEF Values
  <2>3. mActiveUser = IF greeterMode THEN None ELSE SessionUser
    BY DEF Init
  <2>4. cache = [Uncached EXCEPT !["MmsEnabled"] = Setting(mActiveUser, "MmsEnabled")]
    BY DEF Init, mainReads, Uncached, Keys, Valid, Values
  <2>5. Setting(mActiveUser, "MmsEnabled") \in Values \cup {"invalid"}
    BY <2>2, <2>3, GreeterAssumption DEF Setting, Keys
  <2>6. cache \in [Keys -> Values \cup {"invalid"}]
        /\ cache["MmsEnabled"] = Setting(mActiveUser, "MmsEnabled")
    BY <2>4, <2>5 DEF Uncached, Keys
  <2>7. mActiveUser = None => ~Valid(cache["MmsEnabled"])
    BY <2>6 DEF Setting, Valid, Values
  <2>8. mActiveUser # None => cache["MmsEnabled"] = value[mActiveUser]["MmsEnabled"]
    BY <2>6 DEF Setting
  <2>9. mActiveUser \in Users \cup {None}
    BY <2>3, GreeterAssumption
  <2> QED
    BY <2>2, <2>6, <2>7, <2>8, <2>9
<1>3. requests \in Seq(Users \cup {None}) /\ listAsked \in Nat
  <2>1. requests = <<None>> \/ requests = << >>
    BY DEF Init
  <2>2. \A T : \A e \in T : <<e>> \in Seq(T)
    OBVIOUS
  <2>3. << >> \in Seq(Users \cup {None}) /\ <<None>> \in Seq(Users \cup {None})
    BY <2>2
  <2> QED
    BY <2>1, <2>3 DEF Init
<1>4. TypesInv
  BY <1>1, <1>2, <1>3
     DEF TypesInv, ServiceTypes, MemberTypes, WorkerType, Workers, Held, Resting, EntryMails
<1>5. \A S : ~Has(mail, S) /\ \A G : LastGood(mail, S, G)
  BY <1>1 DEF Has, LastGood
<1>6. MmsInv
  <2>1. ~greeterMode => mMmsEnabled = (value[SessionUser]["MmsEnabled"] = "on")
    <3>1. mMmsEnabled = (cache["MmsEnabled"] = "on")
      BY DEF Init
    <3>2. ~greeterMode => cache["MmsEnabled"] = value[SessionUser]["MmsEnabled"]
      BY GreeterAssumption DEF Init, mainReads, Uncached, Keys, Valid, Values, Setting
    <3> QED
      BY <3>1, <3>2
  <2> QED
    BY <1>2, <1>5, <2>1 DEF MmsInv, MmsMailIsGood, CacheIsKnown, CopyIsKnown
<1>7. ContactsInv
  <2>1. ASSUME NEW u \in Users PROVE Coming(u) \/ mContacts[u] = info[u]
    <3>1. CASE greeterMode
      BY <3>1 DEF Init, Coming, Has
    <3>2. CASE ~greeterMode
      BY <1>1, <3>2 DEF Init
    <3> QED
      BY <3>1, <3>2
  <2> QED
    BY <1>5, <2>1 DEF ContactsInv, ContactMailIsGood, ContactsAreKnown
<1>8. EntryInv
  BY DEF Init, EntryInv, SessionIsActive, EntryIsKnown
<1>9. ContactIsShown
  BY <1>1 DEF ContactIsShown, Lookup
<1> QED
  BY <1>4, <1>6, <1>7, <1>8, <1>9 DEF NewsInv

LEMMA NextNews ==
    ASSUME NewsInv, [Next]_vars
    PROVE  NewsInv'
<1> USE DEF NewsInv
<1>1. ASSUME NEW n \in Numbers, setContactFilter(n) PROVE NewsInv'
  <2>1. /\ UNCHANGED <<greeterMode, mActiveUser, cache, mContacts, mMmsEnabled,
                       ringtone, service, greeter>>
        /\ SignalIfNeeded(mContacts', mActiveUser', mFilter')
    BY <1>1 DEF setContactFilter
  <2>2. TypesInv'
    BY <2>1 DEF TypesInv, ServiceTypes, MemberTypes, WorkerType, Held, ringtone, service, greeter
  <2> QED
    BY <2>1, <2>2, MmsFrame, ContactsFrame, EntryFrame, ShownAfterSignal DEF service
<1>2. CASE ReadsSilentMode
  <2>1. /\ UNCHANGED <<greeterMode, mActiveUser, mContacts, mFilter, shown, mMmsEnabled,
                       ringtone, service, greeter>>
        /\ cache' = mainReads("SilentMode", cache)
    BY <1>2 DEF ReadsSilentMode
  <2>2. /\ cache' \in [Keys -> Values \cup {"invalid"}]
        /\ cache'["MmsEnabled"] = cache["MmsEnabled"]
    BY <2>1 DEF TypesInv, ServiceTypes, MemberTypes, mainReads, Setting, Keys, SoundKeys
  <2>3. TypesInv'
    BY <2>1, <2>2
       DEF TypesInv, ServiceTypes, MemberTypes, WorkerType, Held, ringtone, service, greeter
  <2> QED
    BY <2>1, <2>2, <2>3, MmsFrame, ContactsFrame, EntryFrame, ShownFrame DEF service
<1>3. CASE MainHearsService
  BY <1>3, HearsServiceNews
<1>4. CASE MainHearsGreeter
  BY <1>4, HearsGreeterNews
<1>5. ASSUME UNCHANGED <<greeterMode, members, worker, service, greeter>> PROVE NewsInv'
  <2>1. TypesInv'
    BY <1>5 DEF TypesInv, ServiceTypes, MemberTypes, WorkerType, Held, members, service, greeter
  <2> QED
    BY <1>5, <2>1, MmsFrame, ContactsFrame, EntryFrame, ShownFrame DEF service, members
<1>6. ASSUME NEW order \in Orders, Order(order) PROVE NewsInv'
  BY <1>5, <1>6 DEF Order, Queue
<1>7. CASE Worker
  BY <1>7, WorkerNews
<1>8. CASE MessageSoundEnds
  BY <1>5, <1>8 DEF MessageSoundEnds
<1>9. ASSUME NEW u \in Users, NEW k \in Changing, SettingIsSet(u, k) PROVE NewsInv'
  BY <1>9, SettingIsSetNews
<1>10. ASSUME NEW u \in Users, NEW c \in Contacts, ContactIsPublished(u, c) PROVE NewsInv'
  BY <1>10, ContactIsPublishedNews
<1>11. CASE ServiceAnswers
  BY <1>11, ServiceAnswersNews
<1>12. ASSUME NEW u \in Users \cup {Nobody}, EntryChanges(u) PROVE NewsInv'
  BY <1>12, EntryChangesNews
<1>13. CASE GreeterAnswers
  BY <1>13, GreeterAnswersNews
<1>14. CASE UNCHANGED vars
  BY <1>5, <1>14 DEF vars, ringtone
<1> QED
  BY <1>1, <1>2, <1>3, <1>4, <1>6, <1>7, <1>8, <1>9, <1>10, <1>11, <1>12, <1>13, <1>14
     DEF Next

\* What is old is about to be heard of: the signals and answers of both buses
\* that are on their way make up for everything the members of GreeterContacts
\* do not know yet (greetercontacts.cpp:236-247 and 332-444).
THEOREM NewsIsComing == Spec => []NewsInv
BY InitNews, NextNews, PTL DEF Spec

\* Once what was told has been heard, MmsEnabled is what the service has for the
\* active user, in the cache of greetercontacts.cpp:182-216 and in the copy of
\* telepathyhelper.cpp:651-658.
THEOREM MmsFollowsService == Spec => []MmsIsCurrent
<1>1. NewsInv => MmsIsCurrent
  <2> SUFFICES ASSUME NewsInv, mail = << >>
               PROVE  /\ Valid(cache["MmsEnabled"]) =>
                           cache["MmsEnabled"] = Setting(mActiveUser, "MmsEnabled")
                      /\ ~greeterMode => mMmsEnabled = (value[SessionUser]["MmsEnabled"] = "on")
    BY DEF MmsIsCurrent
  <2>1. \A S : ~Has(mail, S)
    BY DEF Has
  <2> QED
    BY <2>1 DEF NewsInv, MmsInv, CacheIsKnown, CopyIsKnown, Setting
<1> QED
  BY <1>1, NewsIsComing, PTL

\* Once the answers and signals of both buses have been heard, the active user is
\* the one in front and the greeter shows what the active user has published, but
\* for what was last answered with an error and for an entry that is no user of
\* the system (greetercontacts.cpp:384-486).
THEOREM GreeterShowsContact == Spec => []ContactIsCurrent
<1>1. NewsInv => ContactIsCurrent
  <2> SUFFICES ASSUME NewsInv, greeterMode, mail = << >>, requests = << >>,
                      listMail = << >>, listAsked = 0
               PROVE  /\ mActiveUser = entry \/ entry = Nobody \/ entryUnknown
                      /\ \A u \in Users \ unknown : mContacts[u] = info[u]
                      /\ mActiveUser \in Users \ unknown =>
                           LET found == Lookup(info, mActiveUser, mFilter)
                           IN  found # None => shown = found
    BY DEF ContactIsCurrent
  <2>1. mActiveUser = entry \/ entry = Nobody \/ entryUnknown
    BY DEF NewsInv, EntryInv, EntryIsKnown, TypesInv, ServiceTypes
  <2>2. \A S : ~Has(mail, S) /\ ~Has(requests, S)
    BY DEF Has
  <2>3. \A u \in Users \ unknown : mContacts[u] = info[u]
    BY <2>2 DEF NewsInv, ContactsInv, ContactsAreKnown, Coming
  <2>4. mActiveUser \in Users \ unknown =>
          Lookup(mContacts, mActiveUser, mFilter) = Lookup(info, mActiveUser, mFilter)
    BY <2>3 DEF Lookup
  <2> QED
    BY <2>1, <2>3, <2>4 DEF NewsInv, ContactIsShown
<1> QED
  BY <1>1, NewsIsComing, PTL

-----------------------------------------------------------------------------
(***************************************************************************)
(* After the calls the worker is back to CallEnded and the proximity       *)
(* sensor is off.                                                          *)
(*                                                                         *)
(* What that needs of the state in between: without a call and a timer the *)
(* last request to the worker, on its way or served, is the one of         *)
(* enable_normal(), which ends on an output without the sensor; and the    *)
(* last signal of the worker, on its way or served, names its output.      *)
(* Nothing is claimed after an operation of PulseAudio has failed.         *)
(***************************************************************************)

(* What travels to the worker and back. Only the worker's own start, and    *)
(* enable_normal(), are about a call that has ended.                        *)
EndRequest == Request("ended", {"wired", "speaker"})
Requests ==
  [what : {"setCallMode"}, status : {"ringing", "active"}, modes : SUBSET Modes]
    \cup {EndRequest}
CardEvents == [what : {"NEW", "CHANGE", "REMOVE"}, status : {"ended"}, modes : {{}}]
Single == {{m} : m \in Modes}
ModeSignals == [signal : {"mode"}, modes : Single]
ListSignals == [signal : {"available"}, modes : SUBSET Modes]

RouteTypes ==
  /\ mChannels \subseteq Calls
  /\ timers \in Nat
  /\ toWorker \in Seq(Requests \cup CardEvents)
  /\ m_callstatus \in Statuses
  /\ failed \in BOOLEAN

\* enable_normal() has the last word, once its timer is over.
EndIsRequested ==
  mChannels = {} /\ timers = 0 =>
    /\ LastGood(toWorker, Requests, {EndRequest})
    /\ Has(toWorker, Requests) \/ m_callstatus = "ended"

\* Without a call the worker keeps away from the earpiece and the headset.
EndedIsNormal ==
  /\ m_audiomode \in Single
  /\ m_callstatus = "ended" => m_audiomode \in {{"speaker"}, {"wired"}}

\* The clients are told of the output in use.
ModeIsTold ==
  /\ LastGood(toManager, ModeSignals, {Signal("mode", m_audiomode)})
  /\ \/ Has(toManager, ModeSignals)
     \/ mActiveAudioOutput = OutputOf(m_audiomode)
     \/ mActiveAudioOutput = "" /\ m_audiomode = {"speaker"}

SensorNeedsEarpiece == mProximityEnabled => mActiveAudioOutput = "earpiece"

SignalTypes == toManager \in Seq(ModeSignals \cup ListSignals)

WorksAsAsked ==
  SignalTypes /\ EndIsRequested /\ EndedIsNormal /\ ModeIsTold /\ SensorNeedsEarpiece
RouteInv == RouteTypes /\ (~failed => WorksAsAsked)

(***************************************************************************)
(* The worker chooses one output.                                          *)
(***************************************************************************)
LEMMA PreferredIsSingle ==
  ASSUME NEW modes \in SUBSET Modes
  PROVE  /\ Preferred(modes) \in Single
         /\ modes = {"wired", "speaker"} => Preferred(modes) \in {{"speaker"}, {"wired"}}
         /\ Impossible(modes) => modes \in Single
<1>1. "speaker" \in Available /\ "bluetooth" \notin {"wired", "speaker"}
  BY DEF Available
<1>2. Preferred(modes) \in {{"bluetooth"}, {"wired"}, {"speaker"}, {"earpiece"}}
  BY DEF Preferred
<1>3. ASSUME modes = {"wired", "speaker"} PROVE Preferred(modes) \in {{"speaker"}, {"wired"}}
  <2> DEFINE possible == modes \cap Available
  <2>1. "bluetooth" \notin possible /\ "speaker" \in possible
    BY <1>1, <1>3
  <2>2. CASE "wired" \in possible
    BY <2>1, <2>2 DEF Preferred
  <2>3. CASE "wired" \notin possible
    <3>1. possible \cap {"bluetooth", "wired"} = {}
      BY <2>1, <2>3
    <3> QED
      BY <2>1, <2>3, <3>1 DEF Preferred
  <2> QED
    BY <2>2, <2>3
<1> QED
  BY <1>2, <1>3 DEF Single, Modes, Impossible

LEMMA SingleOutput ==
  ASSUME NEW modes \in Single
  PROVE  /\ OutputOf(modes) \in {"earpiece", "wired_headset", "speaker", "bluetooth"}
         /\ OutputOf(modes) = OutputOf(modes)'
         /\ modes \in {{"speaker"}, {"wired"}} => OutputOf(modes) # "earpiece"
<1>1. PICK m \in Modes : modes = {m}
  BY DEF Single
<1>2. m \in {"earpiece", "wired", "speaker", "bluetooth"}
  BY DEF Modes
<1>3. CASE m = "earpiece"
  BY <1>1, <1>3 DEF OutputOf
<1>4. CASE m = "wired"
  BY <1>1, <1>4 DEF OutputOf
<1>5. CASE m = "speaker"
  BY <1>1, <1>5 DEF OutputOf
<1>6. CASE m = "bluetooth"
  BY <1>1, <1>6 DEF OutputOf
<1> QED
  BY <1>2, <1>3, <1>4, <1>5, <1>6

\* A list of outputs, which is no mode, and the mode if it has changed.
LEMMA ReportTells ==
  ASSUME SignalTypes, ModeIsTold, NEW modes, Report(modes),
         m_audiomode \in Single, m_audiomode' \in Single,
         m_availableAudioModes' \subseteq Modes \/ m_availableAudioModes' = m_availableAudioModes,
         UNCHANGED mActiveAudioOutput
  PROVE  SignalTypes' /\ ModeIsTold'
<1> DEFINE T == ModeSignals \cup ListSignals
           list == Signal("available", m_availableAudioModes')
           mode == Signal("mode", m_audiomode')
           first == toManager \o (IF m_availableAudioModes' # m_availableAudioModes
                                 THEN <<list>> ELSE <<>>)
           True == {Signal("mode", m_audiomode)}
<1>1. toManager \in Seq(T) /\ toManager' = first \o (IF ModeChanges(modes) THEN <<mode>> ELSE <<>>)
  BY DEF SignalTypes, Report
<1>2. mode \in ModeSignals /\ True' = {mode}
  BY DEF Signal, ModeSignals
<1>3. /\ first \in Seq(T)
      /\ Has(first, ModeSignals) <=> Has(toManager, ModeSignals)
      /\ LastGood(first, ModeSignals, True)
  <2>0. LastGood(toManager, ModeSignals, True)
    BY DEF ModeIsTold
  <2>1. CASE m_availableAudioModes' = m_availableAudioModes
    <3>1. first = toManager
      BY <1>1, <2>1
    <3> QED
      BY <1>1, <2>0, <3>1
  <2>2. CASE m_availableAudioModes' # m_availableAudioModes
    <3>1. list \in ListSignals /\ list \notin ModeSignals
      BY <2>2 DEF Signal, ListSignals, ModeSignals
    <3>2. first = Append(toManager, list)
      BY <1>1, <2>2
    <3> HIDE DEF list, first
    <3>3. list \in T
      BY <3>1
    <3>4. first \in Seq(T)
      BY <1>1, <3>2, <3>3
    <3> HIDE DEF T, True
    <3> QED
      BY <1>1, <2>0, <3>1, <3>2, <3>3, <3>4, HasAppend, GoodAppend
  <2> QED
    BY <2>1, <2>2
<1> HIDE DEF first
<1>4. CASE ~ModeChanges(modes)
  <2>1. toManager' = first
    BY <1>1, <1>3, <1>4
  <2>2. m_audiomode' = m_audiomode
    BY <1>4 DEF ModeChanges
  <2>3. LastGood(toManager', ModeSignals, True')
    BY <1>3, <2>1, <2>2
  <2> QED
    BY <1>3, <2>1, <2>2, <2>3, SingleOutput DEF ModeIsTold, SignalTypes
<1>5. CASE ModeChanges(modes)
  <2>1. toManager' = Append(first, mode)
    BY <1>1, <1>3, <1>5
  <2>2. mode \in T
    BY <1>2
  <2> HIDE DEF mode
  <2>3. toManager' \in Seq(T)
    BY <1>3, <2>1, <2>2
  <2>4. Has(toManager', ModeSignals) /\ LastGood(toManager', ModeSignals, True')
    <3> HIDE DEF T, True
    <3> QED
      BY <1>2, <1>3, <2>1, <2>2, HasAppend, GoodAppend
  <2> QED
    BY <2>3, <2>4 DEF ModeIsTold, SignalTypes
<1> QED
  BY <1>4, <1>5

LEMMA AvailableIsModes == Available \subseteq Modes
BY DEF Available, Modes

\* setCallMode() as a whole: it sets what it is asked for and reports it, or an
\* operation fails.
LEMMA SetCallModeStep ==
  ASSUME RouteTypes, SignalTypes, EndedIsNormal, ModeIsTold,
         NEW status \in Statuses, NEW modes \in SUBSET Modes, NEW scan,
         SetCallMode(status, modes, scan),
         status = "ended" => modes = {"wired", "speaker"},
         UNCHANGED mActiveAudioOutput
  PROVE  failed' \/ (m_callstatus' = status /\ EndedIsNormal' /\ SignalTypes' /\ ModeIsTold')
<1>1. CASE m_callstatus' = status /\ SinksListed(modes) /\ Report(modes) /\ UNCHANGED bounds
  <2>1. /\ m_audiomode' \in Single
        /\ status = "ended" => m_audiomode' \in {{"speaker"}, {"wired"}}
        /\ m_availableAudioModes' \in {m_availableAudioModes, Available}
    <3>1. CASE Impossible(modes)
      <4>1. modes # {"wired", "speaker"}
        BY <3>1 DEF Impossible
      <4> QED
        BY <1>1, <3>1, <4>1, PreferredIsSingle DEF SinksListed
    <3>2. CASE ~Impossible(modes)
      BY <1>1, <3>2, PreferredIsSingle DEF SinksListed
    <3> QED
      BY <3>1, <3>2
  <2>2. m_availableAudioModes' \subseteq Modes \/ m_availableAudioModes' = m_availableAudioModes
    BY <2>1, AvailableIsModes
  <2>3. SignalTypes' /\ ModeIsTold'
    BY <1>1, <2>1, <2>2, ReportTells DEF EndedIsNormal
  <2> QED
    BY <1>1, <2>1, <2>3 DEF EndedIsNormal
<1> QED
  BY <1>1 DEF SetCallMode, OperationFails

\* Whatever fails, the status is the old one or the new one.
LEMMA SetCallModeStatus ==
  ASSUME RouteTypes, NEW status, NEW modes, NEW scan, SetCallMode(status, modes, scan)
  PROVE  m_callstatus' \in {status, m_callstatus} /\ failed' \in BOOLEAN /\ (failed => failed')
BY DEF RouteTypes, SetCallMode, OperationFails, bounds

(***************************************************************************)
(* The worker serves its queue.                                            *)
(***************************************************************************)
\* What is left in the queue after a request, or after an event that keeps the
\* status of the call.
LEMMA ServedQueue ==
  ASSUME RouteTypes, EndIsRequested, NEW what, Serve(what),
         UNCHANGED <<mChannels, timers>>,
         \/ Head(toWorker) \in Requests /\ m_callstatus' = Head(toWorker).status
         \/ Head(toWorker) \in CardEvents /\ m_callstatus' = m_callstatus
  PROVE  EndIsRequested'
<1>1. toWorker \in Seq(Requests \cup CardEvents) /\ toWorker # << >> /\ toWorker' = Tail(toWorker)
  BY DEF RouteTypes, Serve
<1> SUFFICES ASSUME mChannels = {}, timers = 0
             PROVE  /\ LastGood(toWorker', Requests, {EndRequest})
                    /\ Has(toWorker', Requests) \/ m_callstatus' = "ended"
  BY DEF EndIsRequested
<1>2. LastGood(toWorker, Requests, {EndRequest})
  BY DEF EndIsRequested
<1>3. LastGood(toWorker', Requests, {EndRequest})
  BY <1>1, <1>2, GoodTail
<1>4. ASSUME ~Has(toWorker', Requests) PROVE m_callstatus' = "ended"
  <2>1. CASE Head(toWorker) \in Requests
    <3>1. Head(toWorker) = EndRequest
      BY <1>1, <1>2, <1>4, <2>1, GoodTail
    <3>2. EndRequest.status = "ended" /\ EndRequest \notin CardEvents
      BY DEF EndRequest, Request, CardEvents
    <3> QED
      BY <3>1, <3>2
  <2>2. CASE Head(toWorker) \notin Requests
    <3>1. ~Has(toWorker, Requests)
      BY <1>1, <1>4, <2>2, HasTail
    <3> QED
      BY <2>2, <3>1 DEF EndIsRequested
  <2> QED
    BY <2>1, <2>2
<1> QED
  BY <1>3, <1>4

LEMMA ServedHead ==
  ASSUME RouteTypes, NEW what, Serve(what)
  PROVE  /\ what = "setCallMode" =>
               /\ Head(toWorker) \in Requests
               /\ Head(toWorker).status \in Statuses /\ Head(toWorker).modes \in SUBSET Modes
               /\ Head(toWorker).status = "ended" => Head(toWorker).modes = {"wired", "speaker"}
         /\ what # "setCallMode" => Head(toWorker) \in CardEvents
         /\ toWorker' \in Seq(Requests \cup CardEvents)
<1>1. toWorker \in Seq(Requests \cup CardEvents) /\ toWorker # << >> /\ toWorker' = Tail(toWorker)
  BY DEF RouteTypes, Serve
<1>2. Head(toWorker) \in Requests \cup CardEvents /\ toWorker' \in Seq(Requests \cup CardEvents)
  BY <1>1
<1>3. Head(toWorker).what = what
  BY DEF Serve
<1> DEFINE h == Head(toWorker)
<1>4. /\ h \in Requests =>
               /\ h.what = "setCallMode" /\ h.status \in Statuses /\ h.modes \in SUBSET Modes
               /\ h.status = "ended" => h.modes = {"wired", "speaker"}
      /\ h \in CardEvents => h.what # "setCallMode"
  <2>1. \A e \in Requests : /\ e.what = "setCallMode" /\ e.status \in Statuses /\ e.modes \in SUBSET Modes
                            /\ e.status = "ended" => e.modes = {"wired", "speaker"}
    BY DEF Requests, EndRequest, Request, Statuses, Modes
  <2>2. \A e \in CardEvents : e.what # "setCallMode"
    BY DEF CardEvents
  <2> HIDE DEF h
  <2> QED
    BY <2>1, <2>2
<1>5. h \in Requests \cup CardEvents /\ h.what = what
  BY <1>2, <1>3
<1> HIDE DEF h
<1>6. /\ what = "setCallMode" =>
               /\ h \in Requests /\ h.status \in Statuses /\ h.modes \in SUBSET Modes
               /\ h.status = "ended" => h.modes = {"wired", "speaker"}
      /\ what # "setCallMode" => h \in CardEvents
  BY <1>4, <1>5
<1> QED
  BY <1>2, <1>6 DEF h

\* A step of the worker that serves a card event ends in setCallMode() with the
\* status it has, or does nothing of the kind.
LEMMA WorkerKeepsRoute ==
  ASSUME RouteInv, WorkerStep
  PROVE  RouteInv'
<1> USE DEF RouteInv
<1>1. UNCHANGED <<mChannels, mActiveAudioOutput, timers, mProximityEnabled>>
  BY DEF WorkerStep, WorkerSetsCallMode, CardAdded, CardChanged, CardRemoved, manager
<1>2. ~failed => SensorNeedsEarpiece'
  BY <1>1 DEF SensorNeedsEarpiece, WorksAsAsked
<1> DEFINE Queues(what) ==
             /\ Serve(what)
             /\ \/ what = "setCallMode"
                  /\ SetCallMode(Head(toWorker).status, Head(toWorker).modes, FALSE)
                \/ /\ what # "setCallMode"
                   /\ \/ /\ m_callstatus # "ended"
                         /\ \E modes \in SUBSET Modes, scan \in BOOLEAN :
                               SetCallMode(m_callstatus, modes, scan)
                      \/ UNCHANGED <<m_callstatus, m_audiomode, toManager, failed>>
<1>3. PICK what \in {"setCallMode", "NEW", "CHANGE", "REMOVE"} : Queues(what)
  <2>1. CASE WorkerSetsCallMode
    BY <2>1 DEF WorkerSetsCallMode
  <2>2. CASE CardAdded
    <3>1. {"bluetooth"} \in SUBSET Modes
      BY DEF Modes
    <3>2. Queues("NEW")
      BY <2>2, <3>1 DEF CardAdded, Ignore, engine, bounds
    <3> QED
      BY <3>2
  <2>3. CASE CardChanged
    <3>1. /\ {"bluetooth", "wired", "earpiece"} \in SUBSET Modes
          /\ {"wired", "earpiece"} \in SUBSET Modes /\ {"bluetooth"} \in SUBSET Modes
      BY DEF Modes
    <3>2. Queues("CHANGE")
      BY <2>3, <3>1 DEF CardChanged, Ignore, engine, bounds
    <3> QED
      BY <3>2
  <2>4. CASE CardRemoved
    <3>1. {"wired", "earpiece"} \in SUBSET Modes
      BY DEF Modes
    <3>2. Queues("REMOVE")
      BY <2>4, <3>1 DEF CardRemoved, Ignore, UnplugMatters, engine, bounds
    <3> QED
      BY <3>2
  <2> QED
    BY <2>1, <2>2, <2>3, <2>4 DEF WorkerStep
<1>4. CASE what = "setCallMode"
  <2> DEFINE status == Head(toWorker).status
             modes == Head(toWorker).modes
  <2>1. /\ Serve(what) /\ SetCallMode(status, modes, FALSE)
    BY <1>3, <1>4
  <2>2. /\ Head(toWorker) \in Requests /\ status \in Statuses /\ modes \in SUBSET Modes
        /\ status = "ended" => modes = {"wired", "speaker"}
        /\ toWorker' \in Seq(Requests \cup CardEvents)
    BY <1>4, <2>1, ServedHead
  <2> HIDE DEF status, modes
  <2>3. m_callstatus' \in {status, m_callstatus} /\ failed' \in BOOLEAN /\ (failed => failed')
    BY <2>1, SetCallModeStatus
  <2>4. RouteTypes'
    BY <1>1, <2>2, <2>3 DEF RouteTypes
  <2>5. ASSUME ~failed' PROVE WorksAsAsked'
    <3>0. ~failed
      BY <2>3, <2>5
    <3>1. m_callstatus' = status /\ EndedIsNormal' /\ SignalTypes' /\ ModeIsTold'
      BY <1>1, <2>1, <2>2, <2>5, <3>0, SetCallModeStep DEF WorksAsAsked
    <3>2. EndIsRequested'
      BY <1>1, <2>1, <2>2, <3>0, <3>1, ServedQueue DEF status, WorksAsAsked
    <3> QED
      BY <1>2, <3>0, <3>1, <3>2 DEF WorksAsAsked
  <2> QED
    BY <2>4, <2>5
<1>5. CASE what # "setCallMode"
  <2>1. Serve(what) /\ Head(toWorker) \in CardEvents /\ toWorker' \in Seq(Requests \cup CardEvents)
    BY <1>3, <1>5, ServedHead
  <2>2. CASE /\ m_callstatus # "ended"
             /\ \E modes \in SUBSET Modes, scan \in BOOLEAN : SetCallMode(m_callstatus, modes, scan)
    <3>1. PICK modes \in SUBSET Modes, scan \in BOOLEAN : SetCallMode(m_callstatus, modes, scan)
      BY <2>2
    <3>2. m_callstatus' = m_callstatus /\ failed' \in BOOLEAN /\ (failed => failed')
      BY <3>1, SetCallModeStatus
    <3>3. RouteTypes'
      BY <1>1, <2>1, <3>2 DEF RouteTypes
    <3>4. ASSUME ~failed' PROVE WorksAsAsked'
      <4>0. ~failed
        BY <3>2, <3>4
      <4>1. EndedIsNormal' /\ SignalTypes' /\ ModeIsTold'
        BY <1>1, <2>2, <3>1, <3>4, <4>0, SetCallModeStep DEF WorksAsAsked, RouteTypes
      <4>2. EndIsRequested'
        BY <1>1, <2>1, <3>2, <4>0, ServedQueue DEF WorksAsAsked
      <4> QED
        BY <1>2, <4>0, <4>1, <4>2 DEF WorksAsAsked
    <3> QED
      BY <3>3, <3>4
  <2>3. CASE UNCHANGED <<m_callstatus, m_audiomode, toManager, failed>>
    <3>1. RouteTypes'
      BY <1>1, <2>1, <2>3 DEF RouteTypes
    <3>2. ~failed => EndIsRequested'
      BY <1>1, <2>1, <2>3, ServedQueue DEF WorksAsAsked
    <3>3. ~failed => EndedIsNormal' /\ SignalTypes' /\ ModeIsTold'
      BY <1>1, <2>3 DEF WorksAsAsked, EndedIsNormal, SignalTypes, ModeIsTold, OutputOf
    <3> QED
      BY <1>2, <2>3, <3>1, <3>2, <3>3 DEF WorksAsAsked
  <2> QED
    BY <1>3, <1>5, <2>2, <2>3
<1> QED
  BY <1>4, <1>5

(***************************************************************************)
(* The manager asks, and hears.                                            *)
(***************************************************************************)
\* What the worker does not see but in its queue.
LEMMA AskStep ==
  ASSUME RouteInv, NEW e \in Requests \cup CardEvents,
         \/ toWorker' = Append(toWorker, e)
         \/ toWorker' = toWorker,
         mChannels' \subseteq Calls, timers' \in Nat,
         \/ mChannels' # {} \/ timers' # 0
         \/ toWorker' # toWorker /\ e = EndRequest
         \/ mChannels = {} /\ timers = 0 /\ (e \in CardEvents \/ toWorker' = toWorker),
         mProximityEnabled' = mProximityEnabled \/ ~mProximityEnabled',
         UNCHANGED <<mActiveAudioOutput, toManager, m_callstatus, m_audiomode, failed>>
  PROVE  RouteInv'
<1> USE DEF RouteInv
<1>1. toWorker \in Seq(Requests \cup CardEvents)
  BY DEF RouteTypes
<1>2. RouteTypes'
  BY <1>1 DEF RouteTypes
<1>3. ASSUME ~failed PROVE WorksAsAsked'
  <2>1. WorksAsAsked
    BY <1>3
  <2>2. EndedIsNormal' /\ SignalTypes' /\ ModeIsTold' /\ SensorNeedsEarpiece'
    <3>1. EndedIsNormal' /\ SignalTypes' /\ SensorNeedsEarpiece'
      BY <2>1 DEF WorksAsAsked, EndedIsNormal, SignalTypes, SensorNeedsEarpiece
    <3>2. OutputOf(m_audiomode)' = OutputOf(m_audiomode)
      BY DEF OutputOf
    <3>3. ModeIsTold'
      BY <2>1, <3>2 DEF WorksAsAsked, ModeIsTold
    <3> QED
      BY <3>1, <3>3
  <2>3. EndRequest \in Requests /\ \A x \in CardEvents : x \notin Requests
    BY DEF Requests, EndRequest, Request, CardEvents
  <2>4. EndIsRequested'
    <3> SUFFICES ASSUME mChannels' = {}, timers' = 0
                 PROVE  /\ LastGood(toWorker', Requests, {EndRequest})
                        /\ Has(toWorker', Requests) \/ m_callstatus = "ended"
      BY DEF EndIsRequested
    <3>1. CASE toWorker' = Append(toWorker, e) /\ e = EndRequest
      BY <1>1, <2>3, <3>1, HasAppend, GoodAppend
    <3>2. CASE mChannels = {} /\ timers = 0 /\ (e \in CardEvents \/ toWorker' = toWorker)
      <4>1. LastGood(toWorker, Requests, {EndRequest}) /\ (Has(toWorker, Requests) \/ m_callstatus = "ended")
        BY <2>1, <3>2 DEF WorksAsAsked, EndIsRequested
      <4>2. CASE toWorker' = toWorker
        BY <4>1, <4>2
      <4>3. CASE toWorker' = Append(toWorker, e) /\ e \notin Requests
        BY <1>1, <4>1, <4>3, HasAppend, GoodAppend
      <4> QED
        BY <2>3, <3>2, <4>2, <4>3
    <3> QED
      BY <3>1, <3>2
  <2> QED
    BY <2>2, <2>4 DEF WorksAsAsked
<1> QED
  BY <1>2, <1>3

\* The calls change: without one the timer of enable_normal() starts.
LEMMA UpdateStep ==
  ASSUME RouteInv, NEW new \in BOOLEAN, UpdateAudioRoute(new), mChannels' \subseteq Calls,
         UNCHANGED <<mActiveAudioOutput, toManager, engine, bounds>>
  PROVE  RouteInv'
<1>1. timers \in Nat
  BY DEF RouteInv, RouteTypes
<1> DEFINE early == Request("active", {"bluetooth", "wired", "earpiece"})
           ring == Request("ringing", {"bluetooth", "wired", "speaker"})
<1>2. early \in Requests /\ ring \in Requests
  BY DEF Requests, Request, Modes
<1>3. /\ \/ UNCHANGED <<timers, toWorker>>
         \/ timers' = timers + 1 /\ UNCHANGED toWorker
         \/ UNCHANGED timers /\ toWorker' = Append(toWorker, early)
         \/ UNCHANGED timers /\ toWorker' = Append(toWorker, ring)
      /\ mChannels' = {} => timers' = timers + 1 /\ UNCHANGED toWorker
      /\ mProximityEnabled' = mProximityEnabled \/ ~mProximityEnabled'
  <2>1. mChannels' = {} => Cardinality(mChannels') = 0
    BY FS_EmptySet
  <2>2. CASE mChannels' = {}
    BY <2>1, <2>2 DEF UpdateAudioRoute, enable_normal
  <2>3. CASE mChannels' # {}
    BY <2>3 DEF UpdateAudioRoute, enable_normal, enable_earpiece, enable_ringtone, Ask
  <2> QED
    BY <2>2, <2>3
<1> HIDE DEF early, ring
<1>4. timers' \in Nat /\ (mChannels' = {} => timers' # 0)
  BY <1>1, <1>3
<1>5. UNCHANGED <<mActiveAudioOutput, toManager, m_callstatus, m_audiomode, failed>>
  BY DEF engine, bounds
<1>6. CASE toWorker' = toWorker
  BY <1>2, <1>3, <1>4, <1>5, <1>6, AskStep
<1>7. CASE toWorker' = Append(toWorker, early)
  BY <1>2, <1>3, <1>4, <1>5, <1>7, AskStep
<1>8. CASE toWorker' = Append(toWorker, ring)
  BY <1>2, <1>3, <1>4, <1>5, <1>8, AskStep
<1> QED
  BY <1>3, <1>6, <1>7, <1>8


LEMMA ManagerKeepsRoute ==
  ASSUME RouteInv, ManagerStep
  PROVE  RouteInv'
<1> USE DEF RouteInv
<1>1. UNCHANGED <<mChannels, timers, toWorker, m_callstatus, m_audiomode, failed>>
  BY DEF ManagerStep, AudioModeChanged, AvailableAudioModesChanged, engine, bounds, manager
<1>2. RouteTypes'
  BY <1>1 DEF RouteTypes
<1>3. ASSUME ~failed PROVE WorksAsAsked'
  <2> DEFINE h == Head(toManager)
             T == ModeSignals \cup ListSignals
             True == {Signal("mode", m_audiomode)}
  <2>1. EndIsRequested' /\ EndedIsNormal'
    BY <1>1, <1>3 DEF WorksAsAsked, EndIsRequested, EndedIsNormal
  <2>2. toManager \in Seq(T) /\ toManager # << >> /\ toManager' = Tail(toManager)
    BY <1>3 DEF WorksAsAsked, SignalTypes, ManagerStep, AudioModeChanged, AvailableAudioModesChanged
  <2>3. h \in T /\ toManager' \in Seq(T)
    BY <2>2
  <2>4. SignalTypes'
    BY <2>3 DEF SignalTypes
  <2>5. LastGood(toManager, ModeSignals, True) /\ True' = True
    BY <1>1, <1>3 DEF WorksAsAsked, ModeIsTold
  <2>6. /\ LastGood(toManager', ModeSignals, True)
        /\ h \in ModeSignals => Has(toManager', ModeSignals) \/ h \in True
        /\ h \notin ModeSignals => (Has(toManager', ModeSignals) <=> Has(toManager, ModeSignals))
    <3> HIDE DEF True
    <3> QED
      BY <2>2, <2>5, GoodTail, HasTail DEF h
  <2>7. \A e \in ModeSignals : e.signal = "mode" /\ e.modes \in Single
    BY DEF ModeSignals
  <2>8. \A e \in ListSignals : e.signal = "available"
    BY DEF ListSignals
  <2>9. CASE AudioModeChanged
    <3>1. h.signal = "mode" /\ mActiveAudioOutput' = OutputOf(h.modes)
      BY <2>9 DEF AudioModeChanged
    <3>2. h \in ModeSignals /\ h.modes \in Single
      <4> HIDE DEF h
      <4> QED
        BY <2>3, <2>7, <2>8, <3>1
    <3> DEFINE modes == h.modes
    <3> HIDE DEF modes
    <3>3. modes \in Single /\ mActiveAudioOutput' = OutputOf(modes)
      BY <3>1, <3>2 DEF modes
    <3>4. mActiveAudioOutput' \in {"earpiece", "wired_headset", "speaker", "bluetooth"}
      BY <3>3, SingleOutput
    <3>5. SensorNeedsEarpiece'
      BY <2>9, <3>4 DEF AudioModeChanged, SensorNeedsEarpiece
    <3>6. ASSUME ~Has(toManager', ModeSignals) PROVE mActiveAudioOutput' = OutputOf(m_audiomode)'
      <4>1. h = Signal("mode", m_audiomode)
        BY <2>6, <3>2, <3>6
      <4>2. modes = m_audiomode
        BY <4>1 DEF Signal, modes
      <4>3. m_audiomode \in Single
        BY <1>3 DEF WorksAsAsked, EndedIsNormal
      <4> QED
        BY <3>3, <4>2, <4>3, <1>1, SingleOutput DEF OutputOf
    <3> QED
      BY <2>1, <2>4, <2>5, <2>6, <3>5, <3>6 DEF WorksAsAsked, ModeIsTold
  <2>10. CASE AvailableAudioModesChanged
    <3>1. h.signal = "available" /\ UNCHANGED <<mActiveAudioOutput, mProximityEnabled>>
      BY <2>10 DEF AvailableAudioModesChanged
    <3>2. h \notin ModeSignals
      <4> HIDE DEF h
      <4> QED
        BY <2>7, <3>1
    <3>3. Has(toManager', ModeSignals) <=> Has(toManager, ModeSignals)
      BY <2>6, <3>2
    <3>4. OutputOf(m_audiomode)' = OutputOf(m_audiomode)
      BY <1>1, <3>1 DEF OutputOf
    <3>5. ModeIsTold'
      BY <1>1, <1>3, <2>5, <2>6, <3>1, <3>3, <3>4 DEF WorksAsAsked, ModeIsTold
    <3>6. SensorNeedsEarpiece'
      BY <1>3, <3>1 DEF WorksAsAsked, SensorNeedsEarpiece
    <3> QED
      BY <2>1, <2>4, <3>5, <3>6 DEF WorksAsAsked
  <2> QED
    BY <2>9, <2>10 DEF ManagerStep
<1> QED
  BY <1>1, <1>2, <1>3

-----------------------------------------------------------------------------
(* The invariant holds: the last request and the last signal are the ones  *)
(* that count, whatever cards come and go (AudioRouteManager and            *)
(* QPulseAudioEngineWorker).                                                *)
THEOREM RouteInvariant == RouteSpec => []RouteInv
<1>1. RouteInit => RouteInv
  <2> SUFFICES ASSUME RouteInit PROVE RouteInv
    OBVIOUS
  <2>0. /\ mChannels = {} /\ timers = 0 /\ toWorker = << >> /\ toManager = << >>
        /\ m_callstatus = "ended" /\ m_audiomode = {"speaker"} /\ mActiveAudioOutput = ""
        /\ mProximityEnabled = FALSE /\ failed = FALSE
    BY DEF RouteInit
  <2>6. \A T : << >> \in Seq(T) /\ ~Has(<< >>, T) /\ \A G : LastGood(<< >>, T, G)
    BY DEF Has, LastGood
  <2>1. RouteTypes
    BY <2>0, <2>6 DEF RouteTypes, Statuses
  <2>2. SignalTypes /\ SensorNeedsEarpiece
    BY <2>0, <2>6 DEF SignalTypes, SensorNeedsEarpiece
  <2>3. EndIsRequested
    BY <2>0, <2>6 DEF EndIsRequested
  <2>4. EndedIsNormal
    BY <2>0 DEF EndedIsNormal, Single, Modes
  <2>5. ModeIsTold
    BY <2>0, <2>6 DEF ModeIsTold
  <2> QED
    BY <2>1, <2>2, <2>3, <2>4, <2>5 DEF RouteInv, WorksAsAsked
<1>2. RouteInv /\ [RouteNext]_routeVars => RouteInv'
  <2> SUFFICES ASSUME RouteInv, [RouteNext]_routeVars
               PROVE  RouteInv'
    OBVIOUS
  <2>1. timers \in Nat /\ mChannels \subseteq Calls
    BY DEF RouteInv, RouteTypes
  <2>2. ASSUME NEW c \in Calls, CallChannelAvailable(c)
        PROVE  RouteInv'
    <3>1. mChannels' \subseteq Calls /\ UNCHANGED <<mActiveAudioOutput, toManager, engine, bounds>>
      BY <2>1, <2>2 DEF CallChannelAvailable
    <3>2. UpdateAudioRoute(TRUE)
      BY <2>2 DEF CallChannelAvailable
    <3> QED
      BY <3>1, <3>2, UpdateStep
  <2>3. ASSUME NEW c \in Calls, CallStateChanged(c)
        PROVE  RouteInv'
    <3>1. mChannels' \subseteq Calls /\ UNCHANGED <<mActiveAudioOutput, toManager, engine, bounds>>
      BY <2>1, <2>3 DEF CallStateChanged
    <3>2. UpdateAudioRoute(FALSE)
      BY <2>3 DEF CallStateChanged
    <3> QED
      BY <3>1, <3>2, UpdateStep
  <2>4. ASSUME NEW id \in {"bluetooth", "speaker", "default"}, SetActiveAudioOutput(id)
        PROVE  RouteInv'
    <3> DEFINE modes == CASE id = "bluetooth" -> {"bluetooth"}
                          [] id = "speaker" -> {"speaker"}
                          [] OTHER -> {"wired", "earpiece"}
               e == Request("active", modes)
    <3>1. modes \in SUBSET Modes
      BY DEF Modes
    <3>2. e \in Requests
      <4> HIDE DEF modes
      <4> QED
        BY <3>1 DEF Requests, Request
    <3>3. /\ toWorker' = Append(toWorker, e) /\ mChannels' \subseteq Calls /\ timers' \in Nat
          /\ mChannels' # {} \/ timers' # 0
          /\ mProximityEnabled' = mProximityEnabled
          /\ UNCHANGED <<mActiveAudioOutput, toManager, m_callstatus, m_audiomode, failed>>
      BY <2>1, <2>4 DEF SetActiveAudioOutput, Ask, engine
    <3> HIDE DEF e
    <3> QED
      BY <3>2, <3>3, AskStep
  <2>5. CASE NormalTimeout
    <3>1. EndRequest \in Requests
      BY DEF Requests
    <3>2. /\ toWorker' = Append(toWorker, EndRequest) /\ mChannels' \subseteq Calls /\ timers' \in Nat
          /\ mProximityEnabled' = mProximityEnabled
          /\ UNCHANGED <<mActiveAudioOutput, toManager, m_callstatus, m_audiomode, failed>>
      BY <2>1, <2>5 DEF NormalTimeout, EndRequest, engine, bounds
    <3>3. toWorker \in Seq(Requests \cup CardEvents)
      BY DEF RouteInv, RouteTypes
    <3>4. toWorker' # toWorker
      BY <3>2, <3>3
    <3> QED
      BY <3>1, <3>2, <3>4, AskStep
  <2>6. CASE WorkerStep
    BY <2>6, WorkerKeepsRoute
  <2>7. CASE ManagerStep
    BY <2>7, ManagerKeepsRoute
  <2>8. CASE Plug
    <3>1. PICK e \in CardEvents : toWorker' = Append(toWorker, e)
      <4>1. \A evt \in {"NEW", "CHANGE", "REMOVE"} : CardEvent(evt) \in CardEvents
        BY DEF CardEvent, CardEvents
      <4> QED
        BY <2>8, <4>1 DEF Plug
    <3>2. /\ mChannels' = mChannels /\ timers' = timers
          /\ mProximityEnabled' = mProximityEnabled
          /\ UNCHANGED <<mActiveAudioOutput, toManager, m_callstatus, m_audiomode, failed>>
      BY <2>8 DEF Plug, engine, manager
    <3> QED
      BY <2>1, <3>1, <3>2, AskStep
  <2>9. CASE UNCHANGED routeVars
    <3> USE <2>9 DEF routeVars, manager, engine
    <3>1. OutputOf(m_audiomode)' = OutputOf(m_audiomode)
      BY DEF OutputOf
    <3>2. ModeIsTold => ModeIsTold'
      BY <3>1 DEF ModeIsTold
    <3>3. RouteTypes => RouteTypes'
      BY DEF RouteTypes
    <3>4. WorksAsAsked => WorksAsAsked'
      BY <3>2 DEF WorksAsAsked, SignalTypes, EndIsRequested, EndedIsNormal, SensorNeedsEarpiece
    <3> QED
      BY <3>3, <3>4 DEF RouteInv
  <2> QED
    BY <2>2, <2>3, <2>4, <2>5, <2>6, <2>7, <2>8, <2>9 DEF RouteNext
<1> QED
  BY <1>1, <1>2, PTL DEF RouteSpec

(* After the calls nothing is left behind: the worker is back to CallEnded  *)
(* and the proximity sensor is off, whichever signals and requests were on  *)
(* their way when the last call ended (updateAudioRoute(), enable_normal(), *)
(* PowerDAudioModeMediator).                                                *)
THEOREM SensorGoesOff == RouteSpec => []SensorOffAtRest
<1>1. RouteInv => SensorOffAtRest
  <2> SUFFICES ASSUME RouteInv, mChannels = {}, Quiet, ~failed
               PROVE  m_callstatus = "ended" /\ ~mProximityEnabled
    BY DEF SensorOffAtRest
  <2>1. ~Has(toWorker, Requests) /\ ~Has(toManager, ModeSignals)
    BY DEF Quiet, Has
  <2>2. m_callstatus = "ended"
    BY <2>1 DEF RouteInv, WorksAsAsked, EndIsRequested, Quiet
  <2>3. m_audiomode \in {{"speaker"}, {"wired"}}
    BY <2>2 DEF RouteInv, WorksAsAsked, EndedIsNormal
  <2>4. m_audiomode \in Single /\ OutputOf(m_audiomode) # "earpiece"
    BY <2>3, SingleOutput DEF RouteInv, WorksAsAsked, EndedIsNormal
  <2>5. mActiveAudioOutput # "earpiece"
    BY <2>1, <2>4 DEF RouteInv, WorksAsAsked, ModeIsTold
  <2> QED
    BY <2>2, <2>5 DEF RouteInv, WorksAsAsked, SensorNeedsEarpiece
<1> QED
  BY <1>1, RouteInvariant, PTL
=============================================================================
