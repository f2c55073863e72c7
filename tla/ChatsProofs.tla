------------------------- MODULE ChatsProofs -------------------------
(***************************************************************************)
(* Theorems about the chats (Chats) and about the list of the people in one *)
(* (Participants), which share no state.                                   *)
(***************************************************************************)
EXTENDS Chats, Participants, SequenceLemmas

-----------------------------------------------------------------------------
(***************************************************************************)
(* The entry of a chat lists the channels of its process, and the members  *)
(* of the last one; the handler serves its acknowledgements.               *)
(*                                                                         *)
(* What that needs: no list has a channel that is gone, a room has one     *)
(* channel on an account, and the channel of a job is one of its account.  *)
(***************************************************************************)

JobType == [state : {"none", "Running", "Finished", "Failed", "ready", "failed"},
            account : Accounts \cup {None}, room : Rooms \cup {None}, channel : Channels \cup {None}]

\* The types that the other parts need.
ChatTypes ==
  /\ active \subseteq Accounts /\ open \subseteq Channels /\ handled \subseteq open
  /\ role \in [Channels -> [Contacts -> Role]]
  /\ mTextChannels \in Seq(Channels) /\ IsInjective(mTextChannels)
  /\ mChannels \in Seq(Channels) /\ IsInjective(mChannels)
  /\ mMessagesToAck \in Seq(Messages) /\ calls \in Seq(Seq(Messages))
  /\ mChatId \in Rooms \cup {None}
  /\ job \in [Jobs -> JobType]

\* What the processes know is there.
KnownAreOpen ==
  /\ ToSet(mTextChannels) \subseteq open
  /\ \A m \in unread : ChannelOf[m] \in open

\* A room is there once on each account.
OneOnAccount ==
  chatType = "room" =>
    \A c, d \in open : AccountOf[c] = AccountOf[d] /\ RoomOf[c] = RoomOf[d] => c = d

\* The channel of a job is one of its account, and in a room that is the entry's.
JobsAreOfAccount ==
  \A j \in Jobs :
    /\ chatType = "room" /\ job[j].state # "none" => mAccountId \in {None, job[j].account}
    /\ job[j].channel # None => AccountOf[job[j].channel] = job[j].account
    /\ job[j].state \in {"none", "Running"} => job[j].channel = None

ChatInv ==
  /\ ChatTypes /\ KnownAreOpen /\ OneOnAccount /\ JobsAreOfAccount
  /\ EntryHasItsChannels /\ ParticipantsAreMembers


LEMMA ListsKnown ==
  ASSUME ChatTypes
  PROVE  /\ ToSet(mTextChannels) \subseteq Channels /\ ToSet(mChannels) \subseteq Channels
         /\ mChannels # << >> => Last(mChannels) \in ToSet(mChannels)
BY ListEmpty, ListLast DEF ChatTypes

\* The participants of a channel depend on nothing but its members.
LEMMA SameMembers ==
  ASSUME NEW c, UNCHANGED role \/ role'[c] = role[c]
  PROVE  ListsOf(c, role)' = ListsOf(c, role)
BY DEF ListsOf

(***************************************************************************)
(* The list of channels of the entry.                                      *)
(***************************************************************************)
\* addChannel(), of an open channel that matches.
LEMMA AddStep ==
  ASSUME ChatTypes, EntryHasItsChannels, ParticipantsAreMembers,
         NEW c \in open, addChannel(c), UNCHANGED <<role, open, chatType>>
  PROVE  /\ mChannels' \in Seq(Channels) /\ IsInjective(mChannels')
         /\ ToSet(mChannels') = ToSet(mChannels) \cup {c}
         /\ \/ mChatId' = mChatId
            \/ chatType = "room" /\ mChatId' = RoomOf[c] /\ RoomOf[c] \in Rooms
         /\ ParticipantsAreMembers'
<1>1. c \in Channels /\ mChannels \in Seq(Channels) /\ IsInjective(mChannels)
  BY DEF ChatTypes
<1>2. CASE c \in ToSet(mChannels)
  <2>1. UNCHANGED <<mChatId, mChannels, listed, shared>>
    BY <1>2 DEF addChannel, NotAdded
  <2>2. ParticipantsAreMembers'
    BY <2>1 DEF ParticipantsAreMembers, ListsOf
  <2> QED
    BY <1>1, <1>2, <2>1, <2>2
<1>3. CASE c \notin ToSet(mChannels)
  <2>1. /\ mChannels' = Append(mChannels, c) /\ listed' = ListsOf(c, role)
        /\ mChatId' = IF chatType = "room" THEN RoomOf[c] ELSE mChatId
    BY <1>3 DEF addChannel
  <2>2. /\ mChannels' \in Seq(Channels) /\ IsInjective(mChannels') /\ Last(mChannels') = c
        /\ ToSet(mChannels') = ToSet(mChannels) \cup {c}
    BY <1>1, <1>3, <2>1, ListAppend
  <2>3. RoomOf[c] \in Rooms
    BY <1>1 DEF Rooms
  <2>4. ParticipantsAreMembers'
    BY <2>1, <2>2 DEF ParticipantsAreMembers, ListsOf
  <2> QED
    BY <2>1, <2>2, <2>3, <2>4
<1> QED
  BY <1>2, <1>3

\* Channels that go take the participants with them, or were not in the list.
LEMMA LostStep ==
  ASSUME ChatTypes, ParticipantsAreMembers, NEW C \in SUBSET Channels, Invalidated(C),
         UNCHANGED chatType
  PROVE  /\ mChannels' \in Seq(Channels) /\ IsInjective(mChannels')
         /\ ToSet(mChannels') = ToSet(mChannels) \ C
         /\ mTextChannels' \in Seq(Channels) /\ IsInjective(mTextChannels')
         /\ ToSet(mTextChannels') = ToSet(mTextChannels) \ C
         /\ role' \in [Channels -> [Contacts -> Role]]
         /\ ParticipantsAreMembers'
<1>1. /\ mChannels \in Seq(Channels) /\ IsInjective(mChannels)
      /\ mTextChannels \in Seq(Channels) /\ IsInjective(mTextChannels)
      /\ ToSet(mTextChannels) \subseteq Channels /\ ToSet(mChannels) \subseteq Channels
  BY ListsKnown DEF ChatTypes
<1>2. mChannels' = Keep(mChannels, Channels \ C) /\ mTextChannels' = Keep(mTextChannels, Channels \ C)
  BY DEF Invalidated
<1>3. /\ mChannels' \in Seq(Channels) /\ IsInjective(mChannels')
      /\ ToSet(mChannels') = ToSet(mChannels) \ C
  <2>1. ToSet(mChannels) \cap (Channels \ C) = ToSet(mChannels) \ C
    BY <1>1
  <2> QED
    BY <1>1, <1>2, <2>1, KeepElements
<1>4. /\ mTextChannels' \in Seq(Channels) /\ IsInjective(mTextChannels')
      /\ ToSet(mTextChannels') = ToSet(mTextChannels) \ C
  <2>1. ToSet(mTextChannels) \cap (Channels \ C) = ToSet(mTextChannels) \ C
    BY <1>1
  <2> QED
    BY <1>1, <1>2, <2>1, KeepElements
<1>5. role' \in [Channels -> [Contacts -> Role]]
  BY DEF Invalidated, ChatTypes, Role
<1>6. ASSUME mChannels' # << >>, ~shared', chatType = "room" => Len(mChannels') = 1
      PROVE  listed' = ListsOf(Last(mChannels'), role')
  <2>1. mChannels' = mChannels /\ UNCHANGED <<listed, shared>>
    BY <1>6 DEF Invalidated
  <2> DEFINE c == Last(mChannels)
  <2>2. c \in ToSet(mChannels) /\ listed = ListsOf(c, role)
    BY <1>6, <2>1, ListsKnown DEF ParticipantsAreMembers
  <2>3. c \in Channels /\ c \notin C
    BY <1>1, <1>3, <2>1, <2>2
  <2> HIDE DEF c
  <2>4. role'[c] = role[c]
    BY <2>3 DEF Invalidated
  <2>5. ListsOf(c, role') = ListsOf(c, role)
    BY <2>4 DEF ListsOf
  <2> QED
    BY <2>1, <2>2, <2>5 DEF c
<1>7. ParticipantsAreMembers'
  BY <1>6 DEF ParticipantsAreMembers
<1> QED
  BY <1>3, <1>4, <1>5, <1>7

\* A channel opens that nobody knows yet.
LEMMA OpensStep ==
  ASSUME ChatInv, NEW a \in Accounts, NEW c \in Channels, Opens(a, c),
         UNCHANGED <<chatType, mChatId, mTextChannels, mChannels, listed, shared, completed, handled>>
  PROVE  /\ KnownAreOpen' /\ OneOnAccount' /\ EntryHasItsChannels' /\ ParticipantsAreMembers'
         /\ handled' \subseteq open' /\ open' = open \cup {c} /\ AccountOf[c] = a
         /\ role' \in [Channels -> [Contacts -> Role]]
<1> USE DEF ChatInv
<1>1. /\ c \notin open /\ open' = open \cup {c} /\ AccountOf[c] = a /\ unread' = unread
      /\ role' \in [Channels -> [Contacts -> Role]]
      /\ \A d \in Channels : d # c => role'[d] = role[d]
      /\ chatType = "room" => \A d \in Open(a) : RoomOf[d] # RoomOf[c]
  BY DEF Opens, ChatTypes, Role
<1>2. KnownAreOpen' /\ EntryHasItsChannels' /\ handled' \subseteq open'
  BY <1>1 DEF KnownAreOpen, EntryHasItsChannels, ChatTypes
<1>3. OneOnAccount'
  BY <1>1 DEF OneOnAccount, Open
<1>4. ParticipantsAreMembers'
  <2> SUFFICES ASSUME mChannels # << >>, ~shared, chatType = "room" => Len(mChannels) = 1
               PROVE  listed = ListsOf(Last(mChannels), role')
    BY DEF ParticipantsAreMembers
  <2> DEFINE d == Last(mChannels)
  <2>1. d \in ToSet(mChannels) /\ d \in Channels /\ listed = ListsOf(d, role)
    BY ListsKnown DEF ParticipantsAreMembers
  <2>2. d # c
    BY <1>1, <2>1 DEF EntryHasItsChannels
  <2> HIDE DEF d
  <2>3. ListsOf(d, role') = ListsOf(d, role)
    BY <1>1, <2>1, <2>2 DEF ListsOf
  <2> QED
    BY <2>1, <2>3 DEF d
<1> QED
  BY <1>1, <1>2, <1>3, <1>4


(***************************************************************************)
(* The steps.                                                              *)
(***************************************************************************)
LEMMA CompleteStep ==
  ASSUME ChatInv, Complete
  PROVE  ChatInv'
<1> USE DEF ChatInv
<1>1. /\ completed' = TRUE /\ mChannels' = Keep(mTextChannels, {c \in Channels : Matches(c)})
      /\ listed' = IF mChannels' = << >> THEN NoLists ELSE ListsOf(Last(mChannels'), role)
      /\ UNCHANGED <<telepathy, handled, mTextChannels, chatType, mChatId, shared, job, acks>>
  BY DEF Complete
<1>2. /\ mChannels' \in Seq(Channels) /\ IsInjective(mChannels')
      /\ ToSet(mChannels') = {c \in ToSet(mTextChannels) : Matches(c)}
  <2> DEFINE M == {c \in Channels : Matches(c)}
  <2>1. mTextChannels \in Seq(Channels) /\ IsInjective(mTextChannels) /\ mChannels' = Keep(mTextChannels, M)
    BY <1>1 DEF ChatTypes
  <2>2. ToSet(mTextChannels) \cap M = {c \in ToSet(mTextChannels) : Matches(c)}
    BY ListsKnown
  <2> HIDE DEF M
  <2> QED
    BY <2>1, <2>2, KeepElements
<1>3. ChatTypes'
  BY <1>1, <1>2 DEF ChatTypes, telepathy, acks
<1>4. KnownAreOpen' /\ OneOnAccount' /\ JobsAreOfAccount'
  BY <1>1 DEF KnownAreOpen, OneOnAccount, JobsAreOfAccount, telepathy
<1>5. EntryHasItsChannels'
  <2>1. /\ ToSet(mChannels') \subseteq open'
        /\ chatType' = "contact" => ToSet(mTextChannels') \subseteq ToSet(mChannels')
    BY <1>1, <1>2 DEF KnownAreOpen, Matches, telepathy
  <2>2. ASSUME chatType = "room", mAccountId # None
        PROVE  /\ \A c \in ToSet(mChannels') : AccountOf[c] = mAccountId
               /\ \A c \in ToSet(mTextChannels') :
                    RoomOf[c] = mChatId' /\ AccountOf[c] = mAccountId => c \in ToSet(mChannels')
    <3>1. ToSet(mTextChannels) \subseteq Channels
      BY ListsKnown
    <3>2. \A c \in Channels : RoomOf[c] # None
      BY ChatsAssumption DEF Rooms
    <3> QED
      BY <1>1, <1>2, <2>2, <3>1, <3>2 DEF Matches
  <2> QED
    BY <1>1, <1>2, <2>1, <2>2 DEF EntryHasItsChannels
<1>6. ParticipantsAreMembers'
  BY <1>1 DEF ParticipantsAreMembers, ListsOf, telepathy
<1> QED
  BY <1>3, <1>4, <1>5, <1>6

LEMMA ObserveStep ==
  ASSUME ChatInv, NEW c \in Channels, Observe(c)
  PROVE  ChatInv'
<1> USE DEF ChatInv
<1>1. /\ c \in open /\ c \notin ToSet(mTextChannels) /\ mTextChannels' = Append(mTextChannels, c)
      /\ onTextChannelAvailable(c)
      /\ UNCHANGED <<telepathy, handled, chatType, completed, job, acks>>
  BY DEF Observe
<1>2. /\ mTextChannels' \in Seq(Channels) /\ IsInjective(mTextChannels')
      /\ ToSet(mTextChannels') = ToSet(mTextChannels) \cup {c}
  BY <1>1, ListAppend DEF ChatTypes
<1>3. /\ mChannels' \in Seq(Channels) /\ IsInjective(mChannels')
      /\ ToSet(mChannels) \subseteq ToSet(mChannels') /\ ToSet(mChannels') \subseteq ToSet(mChannels) \cup {c}
      /\ completed /\ chatType # "none" /\ Matches(c) => c \in ToSet(mChannels')
      /\ c \in ToSet(mChannels') => c \in ToSet(mChannels) \/ Matches(c)
      /\ mChatId' = mChatId /\ ParticipantsAreMembers'
  <2>1. CASE completed /\ chatType # "none" /\ Matches(c)
    <3>1. /\ addChannel(c) /\ UNCHANGED <<role, open, chatType>>
          /\ chatType = "room" => RoomOf[c] = mChatId
      BY <1>1, <2>1 DEF onTextChannelAvailable, Matches, telepathy
    <3> QED
      BY <1>1, <2>1, <3>1, AddStep
  <2>2. CASE ~(completed /\ chatType # "none" /\ Matches(c))
    BY <1>1, <2>2 DEF onTextChannelAvailable, NotAdded, ChatTypes, ParticipantsAreMembers, ListsOf, telepathy
  <2> QED
    BY <2>1, <2>2
<1>4. ChatTypes'
  BY <1>1, <1>2, <1>3 DEF ChatTypes, telepathy, acks
<1>5. KnownAreOpen' /\ OneOnAccount' /\ JobsAreOfAccount'
  BY <1>1, <1>2 DEF KnownAreOpen, OneOnAccount, JobsAreOfAccount, telepathy
<1>6. EntryHasItsChannels'
  <2>1. RoomOf[c] # None
    BY ChatsAssumption DEF Rooms
  <2> QED
    BY <1>1, <1>2, <1>3, <2>1 DEF EntryHasItsChannels, Matches, telepathy
<1> QED
  BY <1>3, <1>4, <1>5, <1>6

LEMMA JobHeardStep ==
  ASSUME ChatInv, NEW j \in Jobs, JobHeard(j)
  PROVE  ChatInv'
<1> USE DEF ChatInv
<1> DEFINE c == job[j].channel
<1>1. /\ UNCHANGED <<telepathy, handled, mTextChannels, chatType, completed, acks>>
      /\ \/ c \in ToSet(mTextChannels) /\ addChannel(c)
         \/ NotAdded
  BY DEF JobHeard
<1>2. /\ job' \in [Jobs -> JobType]
      /\ \A i \in Jobs : /\ job'[i].account = job[i].account
                         /\ \/ job[i].state # "none" /\ job'[i].channel = None
                            \/ job'[i] = job[i]
  <2>1. PICK st \in {"ready", "failed"} : job' = [job EXCEPT ![j].state = st, ![j].channel = None]
    BY DEF JobHeard
  <2>2. job \in [Jobs -> JobType]
    BY DEF ChatTypes
  <2>3. job' \in [Jobs -> JobType]
    BY <2>1, <2>2 DEF JobType
  <2>4. \A i \in Jobs : i # j => job'[i] = job[i]
    BY <2>1, <2>2
  <2>5. job'[j].account = job[j].account /\ job'[j].channel = None /\ job[j].state # "none"
    BY <2>1, <2>2 DEF JobType, JobHeard
  <2> QED
    BY <2>3, <2>4, <2>5
<1>3. /\ mChannels' \in Seq(Channels) /\ IsInjective(mChannels')
      /\ ToSet(mChannels) \subseteq ToSet(mChannels')
      /\ \A d \in ToSet(mChannels') :
           d \in open /\ (chatType = "room" /\ mAccountId # None =>
                           \/ d \in ToSet(mChannels) \/ AccountOf[d] = mAccountId)
      /\ \/ mChatId' = mChatId
         \/ /\ chatType = "room" /\ mChatId' = RoomOf[c] /\ mChatId' \in Rooms
            /\ c \in open /\ c \in ToSet(mChannels') /\ mAccountId \in {None, AccountOf[c]}
      /\ ParticipantsAreMembers'
  <2>1. CASE c \in ToSet(mTextChannels) /\ addChannel(c)
    <3>1. c \in open /\ c # None /\ c \in Channels
      BY <2>1, ChatsAssumption, ListsKnown DEF KnownAreOpen
    <3>2. chatType = "room" => mAccountId \in {None, AccountOf[c]}
      <4>1. AccountOf[c] = job[j].account /\ job[j].state # "none"
        BY <3>1 DEF JobsAreOfAccount, JobHeard
      <4> QED
        BY <4>1 DEF JobsAreOfAccount
    <3>3. UNCHANGED <<role, open, chatType>>
      BY <1>1 DEF telepathy
    <3> HIDE DEF c
    <3>4. /\ mChannels' \in Seq(Channels) /\ IsInjective(mChannels')
          /\ ToSet(mChannels') = ToSet(mChannels) \cup {c}
          /\ \/ mChatId' = mChatId
             \/ chatType = "room" /\ mChatId' = RoomOf[c] /\ RoomOf[c] \in Rooms
          /\ ParticipantsAreMembers'
      BY <2>1, <3>1, <3>3, AddStep
    <3> QED
      BY <3>1, <3>2, <3>4 DEF EntryHasItsChannels
  <2>2. CASE NotAdded
    BY <1>1, <2>2 DEF EntryHasItsChannels, ParticipantsAreMembers, ListsOf, ChatTypes, NotAdded, telepathy
  <2> QED
    BY <1>1, <2>1, <2>2
<1>4. ChatTypes'
  BY <1>1, <1>2, <1>3 DEF ChatTypes, telepathy, acks
<1>5. KnownAreOpen' /\ OneOnAccount' /\ JobsAreOfAccount'
  <2>1. KnownAreOpen' /\ OneOnAccount'
    BY <1>1 DEF KnownAreOpen, OneOnAccount, telepathy
  <2>2. JobsAreOfAccount'
    <3> SUFFICES ASSUME NEW i \in Jobs
                 PROVE  /\ chatType = "room" /\ job'[i].state # "none" => mAccountId \in {None, job'[i].account}
                        /\ job'[i].channel # None => AccountOf[job'[i].channel] = job'[i].account
                        /\ job'[i].state \in {"none", "Running"} => job'[i].channel = None
      BY <1>1 DEF JobsAreOfAccount
    <3> QED
      BY <1>2 DEF JobsAreOfAccount
  <2> QED
    BY <2>1, <2>2
<1>6. EntryHasItsChannels'
  <2>1. /\ ToSet(mChannels') \subseteq open' /\ IsInjective(mChannels')
        /\ completed' /\ chatType' = "contact" => ToSet(mTextChannels') \subseteq ToSet(mChannels')
        /\ chatType' = "room" /\ mAccountId # None => \A d \in ToSet(mChannels') : AccountOf[d] = mAccountId
    BY <1>1, <1>3 DEF EntryHasItsChannels, telepathy
  <2>2. ASSUME chatType = "room", mAccountId # None, completed,
               NEW d \in ToSet(mTextChannels), RoomOf[d] = mChatId', AccountOf[d] = mAccountId
        PROVE  d \in ToSet(mChannels')
    <3>1. CASE mChatId' = mChatId
      BY <1>3, <2>2, <3>1 DEF EntryHasItsChannels
    <3>2. CASE mChatId' # mChatId
      <4>1. d \in open /\ c \in open /\ RoomOf[d] = RoomOf[c] /\ AccountOf[d] = AccountOf[c]
        BY <1>3, <2>2, <3>2 DEF KnownAreOpen
      <4>2. d = c
        BY <2>2, <4>1 DEF OneOnAccount
      <4> QED
        BY <1>3, <3>2, <4>2
    <3> QED
      BY <3>1, <3>2
  <2> QED
    BY <1>1, <2>1, <2>2 DEF EntryHasItsChannels
<1> QED
  BY <1>3, <1>4, <1>5, <1>6

LEMMA InvalidatedStep ==
  ASSUME ChatInv, NEW C \in SUBSET Channels, Invalidated(C),
         UNCHANGED <<chatType, mChatId, completed, job, acks>>, active' \subseteq Accounts
  PROVE  ChatInv'
<1> USE DEF ChatInv
<1>1. /\ mChannels' \in Seq(Channels) /\ IsInjective(mChannels')
      /\ ToSet(mChannels') = ToSet(mChannels) \ C
      /\ mTextChannels' \in Seq(Channels) /\ IsInjective(mTextChannels')
      /\ ToSet(mTextChannels') = ToSet(mTextChannels) \ C
      /\ role' \in [Channels -> [Contacts -> Role]]
      /\ ParticipantsAreMembers'
  BY LostStep
<1>2. open' = open \ C /\ handled' = handled \ C /\ unread' = {m \in unread : ChannelOf[m] \notin C}
  BY DEF Invalidated
<1>3. ChatTypes'
  BY <1>1, <1>2 DEF ChatTypes, acks
<1>4. KnownAreOpen' /\ OneOnAccount' /\ JobsAreOfAccount'
  BY <1>1, <1>2 DEF KnownAreOpen, OneOnAccount, JobsAreOfAccount
<1>5. EntryHasItsChannels'
  BY <1>1, <1>2 DEF EntryHasItsChannels
<1> QED
  BY <1>1, <1>3, <1>4, <1>5

\* A step that opens a channel at most, and may give it to a job.
LEMMA OpeningStep ==
  ASSUME ChatInv, UNCHANGED <<chatType, mChatId, mTextChannels, mChannels, listed, shared, completed, handled, acks>>,
         \/ UNCHANGED telepathy
         \/ \E a \in Accounts, c \in Channels : Opens(a, c),
         job' \in [Jobs -> JobType],
         JobsAreOfAccount'
  PROVE  ChatInv'
<1> USE DEF ChatInv
<1>1. CASE UNCHANGED telepathy
  BY <1>1 DEF ChatTypes, KnownAreOpen, OneOnAccount, EntryHasItsChannels, ParticipantsAreMembers,
              ListsOf, telepathy, acks
<1>2. ASSUME NEW a \in Accounts, NEW c \in Channels, Opens(a, c) PROVE ChatInv'
  <2>1. /\ KnownAreOpen' /\ OneOnAccount' /\ EntryHasItsChannels' /\ ParticipantsAreMembers'
        /\ handled' \subseteq open' /\ open' = open \cup {c}
        /\ role' \in [Channels -> [Contacts -> Role]]
    BY <1>2, OpensStep
  <2>2. ChatTypes'
    BY <1>2, <2>1 DEF ChatTypes, acks, Opens
  <2> QED
    BY <2>1, <2>2
<1> QED
  BY <1>1, <1>2

LEMMA JobStep ==
  ASSUME ChatInv, NEW j \in Jobs, StartJob(j) \/ JobEnds(j)
  PROVE  ChatInv'
<1> USE DEF ChatInv
<1>1. job \in [Jobs -> JobType]
  BY DEF ChatTypes
<1>2. UNCHANGED <<chatType, mChatId, mTextChannels, mChannels, listed, shared, completed, handled, acks>>
  BY DEF StartJob, JobEnds, entry
<1>3. CASE StartJob(j)
  <2>1. PICK a \in active :
          /\ chatType = "room" => mAccountId \in {None, a}
          /\ job' = [job EXCEPT ![j] = [@ EXCEPT !.state = "Running", !.account = a, !.room = mChatId]]
    BY <1>3 DEF StartJob
  <2>2. job[j].channel = None /\ a \in Accounts /\ mChatId \in Rooms \cup {None}
    BY <1>3 DEF StartJob, JobsAreOfAccount, ChatTypes
  <2>3. job'[j] = [state |-> "Running", account |-> a, room |-> mChatId, channel |-> None]
    BY <1>1, <2>1, <2>2 DEF JobType
  <2>6. \A i \in Jobs : i # j => job'[i] = job[i]
    BY <1>1, <2>1
  <2>7. job'[j] \in JobType
    BY <2>2, <2>3 DEF JobType
  <2>8. job' \in [Jobs -> JobType]
    BY <1>1, <2>1, <2>6, <2>7
  <2>4. JobsAreOfAccount'
    BY <1>1, <1>2, <2>1, <2>2, <2>3, <2>6 DEF JobsAreOfAccount
  <2>5. UNCHANGED telepathy
    BY <1>3 DEF StartJob
  <2> QED
    BY <1>2, <2>8, <2>4, <2>5, OpeningStep
<1>4. CASE JobEnds(j)
  <2>1. CASE job' = [job EXCEPT ![j].state = "Failed"] /\ UNCHANGED telepathy
    <3>1. job' \in [Jobs -> JobType]
      BY <1>1, <2>1 DEF JobType
    <3>2. JobsAreOfAccount'
      BY <1>1, <1>2, <1>4, <2>1 DEF JobsAreOfAccount, JobEnds, JobType
    <3> QED
      BY <1>2, <2>1, <3>1, <3>2, OpeningStep
  <2>2. ASSUME NEW result \in {"Finished", "Failed"}, NEW c \in Channels,
               \/ c \in Open(job[j].account) /\ UNCHANGED telepathy
               \/ job[j].account \in active /\ Opens(job[j].account, c),
               job' = [job EXCEPT ![j].state = result, ![j].channel = c]
        PROVE  ChatInv'
    <3>1. AccountOf[c] = job[j].account /\ job[j].account \in Accounts /\ job[j].state = "Running"
      BY <1>1, <1>4, <2>2 DEF Open, Opens, JobEnds, Accounts
    <3>2. job' \in [Jobs -> JobType]
      BY <1>1, <2>2 DEF JobType
    <3>3. JobsAreOfAccount'
      BY <1>1, <1>2, <2>2, <3>1 DEF JobsAreOfAccount, JobType
    <3> QED
      BY <1>2, <2>2, <3>1, <3>2, <3>3, OpeningStep
  <2> QED
    BY <1>4, <2>1, <2>2 DEF JobEnds
<1> QED
  BY <1>3, <1>4

\* onGroupMembersChanged(), list by list.
LEMMA ListsFollow ==
  ASSUME NEW L, NEW R, NEW I, NEW p, NEW to \in Role, listed = [local |-> L, remote |-> R, in |-> I]
  PROVE  /\ to = "in" =>
              onGroupMembersChanged(p, to) = [local |-> L \ {p}, remote |-> R \ {p}, in |-> I \cup {p}]
         /\ to = "out" =>
              onGroupMembersChanged(p, to) = [local |-> L \ {p}, remote |-> R \ {p}, in |-> I \ {p}]
         /\ to = "local" => onGroupMembersChanged(p, to) = [local |-> L \cup {p}, remote |-> R, in |-> I]
         /\ to = "remote" => onGroupMembersChanged(p, to) = [local |-> L, remote |-> R \cup {p}, in |-> I]
<1>1. CASE to = "in"
  BY <1>1 DEF onGroupMembersChanged, Joined
<1>2. CASE to = "out"
  BY <1>2 DEF onGroupMembersChanged
<1>3. CASE to = "local"
  BY <1>3 DEF onGroupMembersChanged
<1>4. CASE to = "remote"
  BY <1>4 DEF onGroupMembersChanged
<1> QED
  BY <1>1, <1>2, <1>3, <1>4 DEF Role

\* Who is in a room changes; the lists follow the channel that is the only one.
LEMMA MembersStep ==
  ASSUME ChatInv, NEW c \in Channels, NEW p \in Contacts, NEW to \in Role, MembersChanged(c, p, to)
  PROVE  ChatInv'
<1> USE DEF ChatInv
<1>1. /\ chatType = "room" /\ c \in open
      /\ to # role[c][p] /\ (to \in {"local", "remote"} => role[c][p] = "out")
      /\ role' = [role EXCEPT ![c][p] = to]
      /\ listed' = IF c \in ToSet(mChannels) THEN onGroupMembersChanged(p, to) ELSE listed
      /\ UNCHANGED <<active, open, unread, handled, mTextChannels, chatType, mChatId, completed, mChannels,
                     shared, job, acks>>
  BY DEF MembersChanged
<1>2. role' \in [Channels -> [Contacts -> Role]]
  BY <1>1 DEF ChatTypes
<1>3. ChatTypes'
  BY <1>1, <1>2 DEF ChatTypes, acks
<1>4. KnownAreOpen' /\ OneOnAccount' /\ JobsAreOfAccount' /\ EntryHasItsChannels'
  BY <1>1 DEF KnownAreOpen, OneOnAccount, JobsAreOfAccount, EntryHasItsChannels
<1>5. ParticipantsAreMembers'
  <2> SUFFICES ASSUME mChannels # << >>, ~shared, Len(mChannels) = 1
               PROVE  listed' = ListsOf(Last(mChannels), role')
    BY <1>1 DEF ParticipantsAreMembers
  <2> DEFINE d == Last(mChannels)
  <2>1. d \in ToSet(mChannels) /\ d \in Channels /\ listed = ListsOf(d, role)
    BY ListsKnown DEF ParticipantsAreMembers
  <2>6. \A x \in ToSet(mChannels) : x = d
    BY DEF ToSet, ChatTypes, Last
  <2> HIDE DEF d
  <2>2. CASE c \in ToSet(mChannels)
    <3>1. d = c
      BY <2>2, <2>6
    <3>2. \A q \in Contacts : role'[c][q] = IF q = p THEN to ELSE role[c][q]
      BY <1>1 DEF ChatTypes
    <3>3. listed' = onGroupMembersChanged(p, to)
      BY <1>1, <2>2
    <3>4. /\ listed.local = {q \in Contacts : role[c][q] = "local"}
          /\ listed.remote = {q \in Contacts : role[c][q] = "remote"}
          /\ listed.in = {q \in Contacts : role[c][q] = "in"}
      BY <2>1, <3>1 DEF ListsOf
    <3> DEFINE L == listed.local
               R == listed.remote
               I == listed.in
    <3>5. listed = [local |-> L, remote |-> R, in |-> I]
      BY <2>1 DEF ListsOf
    <3> HIDE DEF L, R, I
    <3>6. /\ to = "in" => listed' = [local |-> L \ {p}, remote |-> R \ {p}, in |-> I \cup {p}]
          /\ to = "out" => listed' = [local |-> L \ {p}, remote |-> R \ {p}, in |-> I \ {p}]
          /\ to = "local" => listed' = [local |-> L \cup {p}, remote |-> R, in |-> I]
          /\ to = "remote" => listed' = [local |-> L, remote |-> R \cup {p}, in |-> I]
      BY <3>3, <3>5, ListsFollow
    <3>7. /\ L = {q \in Contacts : role[c][q] = "local"}
          /\ R = {q \in Contacts : role[c][q] = "remote"}
          /\ I = {q \in Contacts : role[c][q] = "in"}
      BY <3>4 DEF L, R, I
    <3> DEFINE L2 == {q \in Contacts : role'[c][q] = "local"}
               R2 == {q \in Contacts : role'[c][q] = "remote"}
               I2 == {q \in Contacts : role'[c][q] = "in"}
    <3>8. listed' = [local |-> L2, remote |-> R2, in |-> I2]
      <4>1. CASE to = "in"
        <5>1. L2 = L \ {p} /\ R2 = R \ {p} /\ I2 = I \cup {p}
          BY <3>2, <3>7, <4>1
        <5> QED
          BY <3>6, <4>1, <5>1
      <4>2. CASE to = "out"
        <5>1. L2 = L \ {p} /\ R2 = R \ {p} /\ I2 = I \ {p}
          BY <3>2, <3>7, <4>2
        <5> QED
          BY <3>6, <4>2, <5>1
      <4>3. CASE to = "local"
        <5>1. L2 = L \cup {p} /\ R2 = R /\ I2 = I
          BY <1>1, <3>2, <3>7, <4>3
        <5> QED
          BY <3>6, <4>3, <5>1
      <4>4. CASE to = "remote"
        <5>1. L2 = L /\ R2 = R \cup {p} /\ I2 = I
          BY <1>1, <3>2, <3>7, <4>4
        <5> QED
          BY <3>6, <4>4, <5>1
      <4> QED
        BY <4>1, <4>2, <4>3, <4>4 DEF Role
    <3> QED
      BY <3>1, <3>8 DEF ListsOf, d
  <2>3. CASE c \notin ToSet(mChannels)
    <3>1. role'[d] = role[d] /\ listed' = listed
      BY <1>1, <2>1, <2>3 DEF ChatTypes
    <3> QED
      BY <2>1, <3>1 DEF ListsOf, d
  <2> QED
    BY <2>2, <2>3
<1> QED
  BY <1>3, <1>4, <1>5

\* Messages come and are acknowledged.
LEMMA AckStep ==
  ASSUME ChatInv,
         \/ onAckTimerTriggered \/ acknowledgeMessages
         \/ \E a \in Accounts : acknowledgeAllMessages(a)
         \/ \E m \in Messages : acknowledgeMessage(m) \/ MessageArrives(m)
  PROVE  ChatInv'
<1> USE DEF ChatInv
<1>1. /\ UNCHANGED <<active, open, role, handled, mTextChannels, chatType, mChatId, completed, mChannels,
                     listed, shared, job>>
      /\ \A m \in unread' : m \in unread \/ ChannelOf[m] \in open
  BY DEF onAckTimerTriggered, acknowledgeMessages, acknowledgeAllMessages, acknowledgeMessage, MessageArrives,
         telepathy, entry
<1>2. mMessagesToAck' \in Seq(Messages) /\ calls' \in Seq(Seq(Messages))
  <2>1. mMessagesToAck \in Seq(Messages) /\ calls \in Seq(Seq(Messages))
    BY DEF ChatTypes
  <2>2. CASE onAckTimerTriggered
    <3>1. mMessagesToAck' = << >> /\ calls' = Append(calls, mMessagesToAck)
      BY <2>2 DEF onAckTimerTriggered, Sent
    <3> QED
      BY <2>1, <3>1, ListAppend, ListEmpty
  <2>3. CASE acknowledgeMessages
    <3>1. mMessagesToAck' = mMessagesToAck /\ calls # << >> /\ calls' = Tail(calls)
      BY <2>3 DEF acknowledgeMessages
    <3> QED
      BY <2>1, <3>1, ListTail
  <2>4. CASE \E a \in Accounts : acknowledgeAllMessages(a)
    BY <2>1, <2>4 DEF acknowledgeAllMessages, acks
  <2>5. ASSUME NEW m \in Messages, acknowledgeMessage(m) PROVE mMessagesToAck' \in Seq(Messages) /\ calls' = calls
    <3>1. mMessagesToAck' = Append(mMessagesToAck, m) /\ calls' = calls
      BY <2>5 DEF acknowledgeMessage
    <3> QED
      BY <2>1, <3>1, ListAppend
  <2>6. ASSUME NEW m \in Messages, MessageArrives(m) PROVE UNCHANGED <<mMessagesToAck, calls>>
    BY <2>6 DEF MessageArrives, acks
  <2> QED
    BY <2>1, <2>2, <2>3, <2>4, <2>5, <2>6
<1>3. ChatTypes'
  BY <1>1, <1>2 DEF ChatTypes
<1>4. KnownAreOpen' /\ OneOnAccount' /\ JobsAreOfAccount' /\ EntryHasItsChannels'
  BY <1>1 DEF KnownAreOpen, OneOnAccount, JobsAreOfAccount, EntryHasItsChannels
<1>5. ParticipantsAreMembers'
  BY <1>1 DEF ParticipantsAreMembers, ListsOf
<1> QED
  BY <1>3, <1>4, <1>5

LEMMA ChatStep ==
  ASSUME ChatInv, [Next]_vars
  PROVE  ChatInv'
<1> USE DEF ChatInv
<1>1. CASE Complete
  BY <1>1, CompleteStep
<1>2. CASE Register \/ Unregister
  <2>1. /\ mTextChannels' = mTextChannels \/ mTextChannels' = << >>
        /\ UNCHANGED <<telepathy, handled, entry, job, acks>>
    BY <1>2 DEF Register, Unregister
  <2>2. mTextChannels' \in Seq(Channels) /\ IsInjective(mTextChannels') /\ ToSet(mTextChannels') \subseteq ToSet(mTextChannels)
    <3>1. CASE mTextChannels' = mTextChannels
      BY <3>1 DEF ChatTypes
    <3>2. CASE mTextChannels' = << >>
      BY <3>2, ListEmpty
    <3> QED
      BY <2>1, <3>1, <3>2
  <2> QED
    BY <2>1, <2>2 DEF ChatTypes, KnownAreOpen, OneOnAccount, JobsAreOfAccount, EntryHasItsChannels,
                      ParticipantsAreMembers, ListsOf, telepathy, entry, acks
<1>3. CASE \/ onAckTimerTriggered \/ acknowledgeMessages
           \/ \E a \in Accounts : acknowledgeAllMessages(a)
           \/ \E m \in Messages : acknowledgeMessage(m) \/ MessageArrives(m)
  BY <1>3, AckStep
<1>4. ASSUME NEW j \in Jobs, StartJob(j) \/ JobEnds(j) \/ JobHeard(j) PROVE ChatInv'
  BY <1>4, JobStep, JobHeardStep
<1>5. ASSUME NEW c \in Channels, Observe(c) PROVE ChatInv'
  BY <1>5, ObserveStep
<1>6. ASSUME NEW c \in Channels, Dispatch(c) PROVE ChatInv'
  <2>1. handled' \subseteq open /\ UNCHANGED <<telepathy, mTextChannels, entry, job, acks>>
    BY <1>6 DEF Dispatch, ChatTypes
  <2> QED
    BY <2>1 DEF ChatTypes, KnownAreOpen, OneOnAccount, JobsAreOfAccount, EntryHasItsChannels,
                ParticipantsAreMembers, ListsOf, telepathy, entry, acks
<1>7. ASSUME NEW c \in Channels, Opened(c) PROVE ChatInv'
  <2>1. /\ UNCHANGED <<chatType, mChatId, mTextChannels, mChannels, listed, shared, completed, handled, acks,
                     job>>
        /\ Opens(AccountOf[c], c) /\ AccountOf[c] \in Accounts
    BY <1>7 DEF Opened, entry, ChatTypes
  <2> QED
    BY <2>1, OpeningStep DEF ChatTypes, JobsAreOfAccount
<1>8. ASSUME NEW a \in Accounts, RequestServed(a) PROVE ChatInv'
  <2>1. /\ UNCHANGED <<chatType, mChatId, mTextChannels, mChannels, listed, shared, completed, handled, acks,
                     job>>
        /\ UNCHANGED telepathy \/ \E c \in Channels : Opens(a, c)
    BY <1>8 DEF RequestServed
  <2> QED
    BY <2>1, OpeningStep DEF ChatTypes, JobsAreOfAccount
<1>9. ASSUME NEW c \in Channels, Closed(c) PROVE ChatInv'
  <2>1. Invalidated({c}) /\ UNCHANGED <<chatType, mChatId, completed, job, acks>> /\ active' \subseteq Accounts
    BY <1>9 DEF Closed, ChatTypes
  <2> QED
    BY <2>1, InvalidatedStep
<1>10. ASSUME NEW a \in Accounts, ActiveChanged(a) PROVE ChatInv'
  <2>1. UNCHANGED <<chatType, mChatId, completed, job, acks>> /\ active' \subseteq Accounts
    BY <1>10 DEF ActiveChanged, ChatTypes
  <2>2. CASE Invalidated(Open(a))
    <3>1. Open(a) \in SUBSET Channels
      BY DEF Open, ChatTypes
    <3> QED
      BY <2>1, <2>2, <3>1, InvalidatedStep
  <2>3. CASE UNCHANGED <<open, role, unread, handled, mTextChannels, mChannels, listed, shared>>
    BY <2>1, <2>3 DEF ChatTypes, KnownAreOpen, OneOnAccount, JobsAreOfAccount, EntryHasItsChannels,
                      ParticipantsAreMembers, ListsOf, acks
  <2> QED
    BY <1>10, <2>2, <2>3 DEF ActiveChanged
<1>11. ASSUME NEW c \in Channels, NEW p \in Contacts, NEW to \in Role, MembersChanged(c, p, to)
       PROVE  ChatInv'
  BY <1>11, MembersStep
<1>12. CASE UNCHANGED vars
  BY <1>12 DEF vars, ChatTypes, KnownAreOpen, OneOnAccount, JobsAreOfAccount, EntryHasItsChannels,
               ParticipantsAreMembers, ListsOf, telepathy, entry, acks
<1> QED
  BY <1>1, <1>2, <1>3, <1>4, <1>5, <1>6, <1>7, <1>8, <1>9, <1>10, <1>11, <1>12 DEF Next

(***************************************************************************)
(* The theorems.                                                           *)
(***************************************************************************)
LEMMA ChatStarts ==
  ASSUME Init
  PROVE  ChatInv
<1> DEFINE empty == << >>
<1>1. /\ empty \in Seq(Channels) /\ IsInjective(empty) /\ ToSet(empty) = {}
      /\ empty \in Seq(Messages) /\ empty \in Seq(Seq(Messages))
  BY ListEmpty
<1>2. mTextChannels = empty /\ mChannels = empty /\ mMessagesToAck = empty /\ calls = empty
  BY DEF Init
<1>3. /\ active \in SUBSET Accounts /\ open = {} /\ handled = {} /\ unread = {}
      /\ role = [c \in Channels |-> [p \in Contacts |-> "out"]]
      /\ job = [j \in Jobs |-> NoJob] /\ ~completed
  BY DEF Init
<1>4. mChannels = << >>
  BY <1>2
<1> HIDE DEF empty
<1>5. ChatTypes
  <2>1. mChatId \in Rooms \cup {None} /\ NoJob \in JobType
    BY DEF Init, NoJob, JobType
  <2> QED
    BY <1>1, <1>2, <1>3, <2>1 DEF ChatTypes, Role
<1>6. KnownAreOpen /\ OneOnAccount /\ JobsAreOfAccount
  BY <1>1, <1>2, <1>3 DEF KnownAreOpen, OneOnAccount, JobsAreOfAccount, NoJob
<1>7. EntryHasItsChannels
  BY <1>1, <1>2, <1>3 DEF EntryHasItsChannels
<1>8. ParticipantsAreMembers
  BY <1>4 DEF ParticipantsAreMembers
<1> QED
  BY <1>5, <1>6, <1>7, <1>8 DEF ChatInv

\* The inductive invariant of the entry: what the entry, ChatManager and the
\* handler list are channels that exist, of the accounts they ought to be of
\* (chatmanager.cpp:290-318, chatentry.cpp:223-252 and texthandler.cpp:245-300).
THEOREM ChatInvariant == Spec => []ChatInv
<1>1. Init => ChatInv
  BY ChatStarts
<1>2. ChatInv /\ [Next]_vars => ChatInv'
  BY ChatStep
<1> QED
  BY <1>1, <1>2, PTL DEF Spec

\* Once complete, the entry has the channels its process knows, whatever the
\* order in which channels, jobs and componentComplete() come
\* (chatentry.cpp:91-122, 223-252 and 536-623).
THEOREM EntryKnowsItsChannels == Spec => []EntryHasItsChannels
<1>1. ChatInv => EntryHasItsChannels
  BY DEF ChatInv
<1> QED
  BY <1>1, ChatInvariant, PTL

\* The lists of the entry are those of the channel that came last, through every
\* invitation, join and departure (chatentry.cpp:124-167 and 787-813).
THEOREM ListsShowMembers == Spec => []ParticipantsAreMembers
<1>1. ChatInv => ParticipantsAreMembers
  BY DEF ChatInv
<1> QED
  BY <1>1, ChatInvariant, PTL

\* A step that takes messages off the way to the handler serves a call.
LEMMA OnlyServingTakes ==
  ASSUME ChatInv, [Next]_vars, NEW m \in Waiting, m \notin Waiting'
  PROVE  acknowledgeMessages /\ m \in ToSet(Head(calls))
<1>0. mMessagesToAck \in Seq(Messages) /\ calls \in Seq(Seq(Messages))
  BY DEF ChatInv, ChatTypes
<1>1. CASE UNCHANGED acks
  BY <1>1 DEF acks, Waiting
<1>2. CASE onAckTimerTriggered
  <2>1. mMessagesToAck' = << >> /\ calls' = Append(calls, mMessagesToAck)
    BY <1>2 DEF onAckTimerTriggered, Sent
  <2>2. /\ Len(calls) \in Nat /\ DOMAIN calls = 1..Len(calls) /\ DOMAIN calls' = 1..(Len(calls) + 1)
        /\ \A i \in 1..Len(calls) : calls'[i] = calls[i]
        /\ calls'[Len(calls) + 1] = mMessagesToAck
    BY <1>0, <2>1
  <2>3. m \in ToSet(mMessagesToAck) \/ \E i \in DOMAIN calls : m \in ToSet(calls[i])
    BY DEF Waiting
  <2>4. \E i \in DOMAIN calls' : m \in ToSet(calls'[i])
    BY <2>2, <2>3
  <2> QED
    BY <2>4 DEF Waiting
<1>3. ASSUME NEW x \in Messages, acknowledgeMessage(x) PROVE FALSE
  <2>1. mMessagesToAck' = Append(mMessagesToAck, x) /\ calls' = calls
    BY <1>3 DEF acknowledgeMessage
  <2>2. ToSet(mMessagesToAck') = ToSet(mMessagesToAck) \cup {x}
    BY <1>0, <2>1, ListAppend
  <2> QED
    BY <2>1, <2>2 DEF Waiting
<1>4. CASE acknowledgeMessages
  <2>1. mMessagesToAck' = mMessagesToAck /\ calls # << >> /\ calls' = Tail(calls)
    BY <1>4 DEF acknowledgeMessages
  <2>2. /\ Len(calls) \in Nat /\ DOMAIN calls = 1..Len(calls) /\ DOMAIN calls' = 1..(Len(calls) - 1)
        /\ \A i \in 1..(Len(calls) - 1) : calls'[i] = calls[i + 1]
        /\ Head(calls) = calls[1]
    BY <1>0, <2>1
  <2>3. PICK i \in DOMAIN calls : m \in ToSet(calls[i])
    BY <2>1 DEF Waiting
  <2>4. i = 1
    <3> SUFFICES ASSUME i # 1 PROVE FALSE
      OBVIOUS
    <3>1. i - 1 \in DOMAIN calls' /\ calls'[i - 1] = calls[i]
      BY <2>2
    <3> QED
      BY <2>3, <3>1 DEF Waiting
  <2> QED
    BY <1>4, <2>2, <2>3, <2>4
<1> QED
  BY <1>1, <1>2, <1>3, <1>4
     DEF Next, vars, Complete, Register, Unregister, StartJob, JobEnds, JobHeard, Observe, Dispatch, Opened, Closed,
         MembersChanged, ActiveChanged, RequestServed, acknowledgeAllMessages, MessageArrives

\* What the handler serves is read, whatever other channels it finds.
LEMMA ServedAreRead ==
  ASSUME ChatInv, acknowledgeMessages, NEW m, NEW i \in DOMAIN Head(calls), Head(calls)[i] = m,
         \A k \in DOMAIN Head(calls) : k <= i => existingChannels(Head(calls)[k]) # {}
  PROVE  m \notin unread' \/ ChannelOf[m] \notin handled
<1> DEFINE s == Head(calls)
<1>1. DOMAIN s \subseteq Int
  <2>1. calls \in Seq(Seq(Messages)) /\ calls # << >>
    BY DEF ChatInv, ChatTypes, acknowledgeMessages
  <2>2. s \in Seq(Messages)
    BY <2>1
  <2> QED
    BY <2>2
<1>2. \A e \in {k \in DOMAIN s : existingChannels(s[k]) = {}} : i < e
  BY <1>1
<1>3. m \in Served(s)
  BY <1>2 DEF Served
<1> QED
  BY <1>3 DEF acknowledgeMessages

\* An acknowledgement is served unless the handler does not know the channel of
\* the message, or finds none for one before it in the same call
\* (texthandler.cpp:92-145): also when it finds several.
THEOREM AcksReachHandler == Spec => AcksAreServed
<1>1. ASSUME ChatInv, [Next]_vars, NEW m \in Waiting \ Waiting'
      PROVE  \/ m \notin unread' \/ ChannelOf[m] \notin handled
             \/ \E i, k \in DOMAIN Head(calls) :
                  k <= i /\ Head(calls)[i] = m /\ existingChannels(Head(calls)[k]) = {}
  <2>1. acknowledgeMessages /\ m \in ToSet(Head(calls))
    BY <1>1, OnlyServingTakes
  <2>2. PICK i \in DOMAIN Head(calls) : Head(calls)[i] = m
    BY <2>1 DEF ToSet
  <2> QED
    BY <1>1, <2>1, <2>2, ServedAreRead
<1>2. ChatInv /\ [Next]_vars =>
        [\A m \in Waiting \ Waiting' :
            \/ m \notin unread' \/ ChannelOf[m] \notin handled
            \/ \E i, k \in DOMAIN Head(calls) :
                 k <= i /\ Head(calls)[i] = m /\ existingChannels(Head(calls)[k]) = {}]_vars
  BY <1>1
<1> QED
  BY <1>2, ChatInvariant, PTL DEF Spec, AcksAreServed

-----------------------------------------------------------------------------
(***************************************************************************)
(* The rows and the cache of a model with one entry are the participants   *)
(* of the entry, in order.                                                 *)
(*                                                                         *)
(* What that needs: the binary search finds a place where somebody fits in *)
(* a list that is in order, for lists of any length.                       *)
(***************************************************************************)

(***************************************************************************)
(* The order of the participants.                                          *)
(***************************************************************************)
\* Who is not ordered with a third either way comes as late as the other.
LEMMA LessThanOrders ==
  ASSUME NEW a \in Identifiers, NEW b \in Identifiers, NEW c \in Identifiers
  PROVE  /\ ~(lessThan(a, b) /\ lessThan(b, a)) /\ ~lessThan(a, a)
         /\ ~lessThan(b, a) /\ ~lessThan(c, b) => ~lessThan(c, a)
<1>1. \A x \in Letters : Place[x] \in Nat
  BY ParticipantsAssumption
<1>2. \A x, y \in Identifiers : lessThan(x, y) <=>
        \/ x \in Letters /\ y \in Letters /\ Place[x] < Place[y]
        \/ x \in Letters /\ y \notin Letters
  BY DEF lessThan
<1>4. ~(lessThan(a, b) /\ lessThan(b, a)) /\ ~lessThan(a, a)
  BY <1>1, <1>2
<1>5. ~lessThan(b, a) /\ ~lessThan(c, b) => ~lessThan(c, a)
  <2>1. CASE a \in Letters /\ b \in Letters /\ c \in Letters
    BY <1>1, <1>2, <2>1
  <2>2. CASE ~(a \in Letters /\ b \in Letters /\ c \in Letters)
    BY <1>2, <2>2
  <2> QED
    BY <2>1, <2>2
<1> QED
  BY <1>4, <1>5

(***************************************************************************)
(* The binary search, by the equation of its recursive function.           *)
(***************************************************************************)
Bounds(s) == [lower : 0..Len(s), upper : -1..(Len(s) - 1)]

Middle(bound) == IF bound.upper < 0 THEN 0 ELSE (bound.lower + bound.upper) \div 2

Above(bound) == [lower |-> Middle(bound) + 1, upper |-> bound.upper]
Below(bound) == [lower |-> bound.lower, upper |-> Middle(bound) - 1]

\* How many elements are left to look at.
Width(bound) == IF bound.lower > bound.upper THEN 0 ELSE bound.upper - bound.lower + 1

Look(f, item, s, bound) ==
  LET pos == Middle(bound)
      posItem == Identifier[s[pos + 1]]
  IN IF bound.lower = pos /\ lessThan(item, posItem) THEN pos
     ELSE IF lessThan(posItem, item)
          THEN IF pos + 1 > bound.upper THEN pos + 1 ELSE f[Above(bound)]
          ELSE IF bound.lower > bound.upper THEN pos ELSE f[Below(bound)]

Finds(f, item, s) == f = [bound \in Bounds(s) |-> Look(f, item, s, bound)]

LEMMA PositionIs ==
  ASSUME NEW item, NEW s
  PROVE  positionForItem(item, s) =
           IF s = <<>> THEN 0
           ELSE (CHOOSE f : Finds(f, item, s))[[lower |-> 0, upper |-> Len(s) - 1]]
BY DEF positionForItem, Finds, Bounds, Look, Middle, Above, Below

\* The middle is between the bounds, or at the upper one once they have met.
LEMMA MiddleIs ==
  ASSUME NEW s, Len(s) \in Nat \ {0}, NEW bound \in Bounds(s)
  PROVE  /\ bound.lower \in 0..Len(s) /\ bound.upper \in -1..(Len(s) - 1)
         /\ Middle(bound) \in 0..(Len(s) - 1)
         /\ bound.lower <= bound.upper => bound.lower <= Middle(bound) /\ Middle(bound) <= bound.upper
         /\ bound.lower > bound.upper => Middle(bound) >= bound.upper
         /\ Width(bound) \in 0..Len(s)
         /\ Middle(bound) + 1 <= bound.upper =>
              Above(bound) \in Bounds(s) /\ Width(Above(bound)) < Width(bound)
         /\ bound.lower <= bound.upper =>
              Below(bound) \in Bounds(s) /\ Width(Below(bound)) < Width(bound)
<1> DEFINE l == bound.lower
           u == bound.upper
           m == Middle(bound)
<1>1. l \in 0..Len(s) /\ u \in -1..(Len(s) - 1) /\ l \in Int /\ u \in Int
  BY DEF Bounds
<1>2. u < 0 => m = 0
  BY DEF Middle
<1>3. u >= 0 => m \in Int /\ 2 * m <= l + u /\ l + u <= 2 * m + 1
  BY <1>1 DEF Middle
<1>4. /\ m \in 0..(Len(s) - 1)
      /\ l <= u => l <= m /\ m <= u
      /\ l > u => m >= u
  BY <1>1, <1>2, <1>3
<1>5. Width(bound) = IF l > u THEN 0 ELSE u - l + 1
  BY DEF Width
<1>6. Above(bound) = [lower |-> m + 1, upper |-> u] /\ Below(bound) = [lower |-> l, upper |-> m - 1]
  BY DEF Above, Below
<1> HIDE DEF l, u, m
<1>7. /\ m + 1 <= u => Above(bound) \in Bounds(s)
      /\ l <= u => Below(bound) \in Bounds(s)
  <2>1. m + 1 <= u => m + 1 \in 0..Len(s)
    BY <1>1, <1>4
  <2>2. l <= u => m - 1 \in -1..(Len(s) - 1)
    BY <1>1, <1>4
  <2> QED
    BY <1>1, <1>6, <2>1, <2>2 DEF Bounds
<1>8. /\ m + 1 <= u => Width(Above(bound)) < Width(bound)
      /\ l <= u => Width(Below(bound)) < Width(bound)
  BY <1>1, <1>4, <1>5, <1>6 DEF Width
<1> QED
  BY <1>1, <1>4, <1>5, <1>7, <1>8 DEF l, u, m

\* One look depends on what is found in narrower bounds only.
LEMMA LooksAgree ==
  ASSUME NEW item, NEW s, Len(s) \in Nat \ {0}, NEW bound \in Bounds(s), NEW f, NEW g,
         \A b \in Bounds(s) : Width(b) < Width(bound) => f[b] = g[b]
  PROVE  Look(f, item, s, bound) = Look(g, item, s, bound)
<1>1. Middle(bound) \in Int /\ bound.lower \in Int /\ bound.upper \in Int
  BY MiddleIs
<1>2. Middle(bound) + 1 <= bound.upper => f[Above(bound)] = g[Above(bound)]
  BY MiddleIs
<1>3. bound.lower <= bound.upper => f[Below(bound)] = g[Below(bound)]
  BY MiddleIs
<1>4. ~(Middle(bound) + 1 > bound.upper) => f[Above(bound)] = g[Above(bound)]
  BY <1>1, <1>2
<1>5. ~(bound.lower > bound.upper) => f[Below(bound)] = g[Below(bound)]
  BY <1>1, <1>3
<1> QED
  BY <1>4, <1>5 DEF Look

LEMMA FindsExists ==
  ASSUME NEW item, NEW s, Len(s) \in Nat \ {0}
  PROVE  \E f : Finds(f, item, s)
<1> DEFINE B == Bounds(s)
           Right(f, n) == \A b \in B : Width(b) <= n => f[b] = Look(f, item, s, b)
           P == {n \in Nat : \E f : Right(f, n)}
<1>0. \A b \in B : Width(b) \in 0..Len(s) /\ Width(b) \in Int
  BY MiddleIs
<1>1. 0 \in P
  <2> DEFINE f == [b \in B |-> Look(<<>>, item, s, b)]
  <2>1. \A b \in B : Width(b) <= 0 => f[b] = Look(f, item, s, b)
    <3> SUFFICES ASSUME NEW b \in B, Width(b) <= 0 PROVE f[b] = Look(f, item, s, b)
      OBVIOUS
    <3>1. f[b] = Look(<<>>, item, s, b)
      OBVIOUS
    <3> HIDE DEF f
    <3>2. \A c \in B : ~(Width(c) < Width(b))
      BY <1>0
    <3> QED
      BY <3>1, <3>2, LooksAgree
  <2> HIDE DEF f
  <2> QED
    BY <2>1
<1>2. ASSUME NEW n \in P PROVE n + 1 \in P
  <2>1. PICK f : Right(f, n)
    OBVIOUS
  <2> DEFINE g == [b \in B |-> IF Width(b) <= n THEN f[b] ELSE Look(f, item, s, b)]
  <2>2. \A b \in B : g[b] = IF Width(b) <= n THEN f[b] ELSE Look(f, item, s, b)
    OBVIOUS
  <2> HIDE DEF g
  <2>3. ASSUME NEW b \in B, Width(b) <= n + 1 PROVE g[b] = Look(g, item, s, b)
    <3>1. g[b] = Look(f, item, s, b)
      BY <2>1, <2>2
    <3>2. \A c \in B : Width(c) < Width(b) => f[c] = g[c]
      <4> SUFFICES ASSUME NEW c \in B, Width(c) < Width(b) PROVE f[c] = g[c]
        OBVIOUS
      <4>1. Width(c) <= n
        BY <1>0, <2>3
      <4> QED
        BY <2>2, <4>1
    <3> QED
      BY <3>1, <3>2, LooksAgree
  <2> QED
    BY <2>3
<1>3. P = Nat
  <2> HIDE DEF P
  <2>1. P \in SUBSET Nat
    BY DEF P
  <2> QED
    BY <1>1, <1>2, <2>1, Induction
<1>4. PICK f : Right(f, Len(s))
  BY <1>3
<1> DEFINE g == [b \in B |-> f[b]]
<1>5. \A b \in B : g[b] = Look(g, item, s, b)
  <2> SUFFICES ASSUME NEW b \in B PROVE g[b] = Look(g, item, s, b)
    OBVIOUS
  <2>1. \A c \in B : g[c] = f[c]
    OBVIOUS
  <2> HIDE DEF g
  <2>2. f[b] = Look(f, item, s, b)
    BY <1>0, <1>4
  <2>3. Look(f, item, s, b) = Look(g, item, s, b)
    BY <2>1, LooksAgree
  <2> QED
    BY <2>1, <2>2, <2>3
<1>6. g = [b \in B |-> g[b]]
  OBVIOUS
<1> HIDE DEF g
<1>7. g = [b \in B |-> Look(g, item, s, b)]
  BY <1>5, <1>6
<1> QED
  BY <1>7 DEF Finds

\* Where the search ends nobody on the left comes after the item, and nobody on
\* the right before it.
Fits(item, s, pos) ==
  /\ pos \in 0..Len(s)
  /\ \A i \in 1..Len(s) : i <= pos => ~lessThan(item, Identifier[s[i]])
  /\ \A i \in 1..Len(s) : i > pos => ~lessThan(Identifier[s[i]], item)

\* What the search knows of the elements outside its bounds.
Outside(item, s, bound) ==
  /\ bound.lower <= bound.upper + 1
  /\ \A i \in 1..Len(s) : i <= bound.lower => lessThan(Identifier[s[i]], item)
  /\ \A i \in 1..Len(s) : i > bound.upper + 1 => ~lessThan(Identifier[s[i]], item)

\* With the participants in order, one more look keeps that knowledge.
LEMMA LookFits ==
  ASSUME NEW item \in Identifiers, NEW s \in Seq(People), Len(s) # 0, Sorted(s), NEW f,
         NEW bound \in Bounds(s), Outside(item, s, bound),
         \A b \in Bounds(s) : Width(b) < Width(bound) /\ Outside(item, s, b) => Fits(item, s, f[b])
  PROVE  Fits(item, s, Look(f, item, s, bound))
<1> DEFINE m == Middle(bound)
           at == Identifier[s[m + 1]]
<1>1. /\ Len(s) \in Nat \ {0} /\ bound.lower \in 0..Len(s) /\ bound.upper \in -1..(Len(s) - 1)
      /\ m \in 0..(Len(s) - 1)
      /\ bound.lower <= bound.upper => bound.lower <= m /\ m <= bound.upper
      /\ bound.lower > bound.upper => m >= bound.upper
  BY MiddleIs
<1>2. \A i \in 1..Len(s) : Identifier[s[i]] \in Identifiers
  BY DEF Identifiers
<1>3. m + 1 \in 1..Len(s) /\ at \in Identifiers
  BY <1>1, <1>2
<1>4. \A i, j \in 1..Len(s) : i < j => ~lessThan(Identifier[s[j]], Identifier[s[i]])
  BY DEF Sorted
<1>5. ASSUME lessThan(at, item), NEW i \in 1..Len(s), i <= m + 1
      PROVE  lessThan(Identifier[s[i]], item)
  <2>1. CASE i = m + 1
    BY <1>5, <2>1
  <2>2. CASE i # m + 1
    <3>1. i < m + 1
      BY <1>1, <1>5, <2>2
    <3>2. ~lessThan(at, Identifier[s[i]])
      BY <1>3, <1>4, <3>1
    <3> QED
      BY <1>2, <1>3, <1>5, <3>2, LessThanOrders
  <2> QED
    BY <2>1, <2>2
<1>6. ASSUME ~lessThan(at, item), NEW i \in 1..Len(s), i > m
      PROVE  ~lessThan(Identifier[s[i]], item)
  <2>1. CASE i = m + 1
    BY <1>6, <2>1
  <2>2. CASE i # m + 1
    <3>1. m + 1 < i
      BY <1>1, <1>6, <2>2
    <3>2. ~lessThan(Identifier[s[i]], at)
      BY <1>3, <1>4, <3>1
    <3> QED
      BY <1>2, <1>3, <1>6, <3>2, LessThanOrders
  <2> QED
    BY <2>1, <2>2
<1>7. \A i \in 1..Len(s) : lessThan(Identifier[s[i]], item) => ~lessThan(item, Identifier[s[i]])
  BY <1>2, LessThanOrders
<1>8. CASE bound.lower = m /\ lessThan(item, at)
  <2>1. Look(f, item, s, bound) = m
    BY <1>8 DEF Look
  <2>2. ~lessThan(at, item)
    BY <1>3, <1>8, LessThanOrders
  <2>3. m \in 0..Len(s)
    BY <1>1
  <2>4. \A i \in 1..Len(s) : i <= m => ~lessThan(item, Identifier[s[i]])
    BY <1>7, <1>8 DEF Outside
  <2> QED
    BY <1>6, <2>1, <2>2, <2>3, <2>4 DEF Fits
<1>9. CASE ~(bound.lower = m /\ lessThan(item, at)) /\ lessThan(at, item)
  <2>1. CASE m + 1 > bound.upper
    <3>1. Look(f, item, s, bound) = m + 1
      BY <1>9, <2>1 DEF Look
    <3>2. \A i \in 1..Len(s) : i > m + 1 => ~lessThan(Identifier[s[i]], item)
      BY <1>1, <2>1 DEF Outside
    <3>3. m + 1 \in 0..Len(s)
      BY <1>1
    <3>4. \A i \in 1..Len(s) : i <= m + 1 => ~lessThan(item, Identifier[s[i]])
      BY <1>5, <1>7, <1>9
    <3> QED
      BY <3>1, <3>2, <3>3, <3>4 DEF Fits
  <2>2. CASE m + 1 <= bound.upper
    <3>1. Look(f, item, s, bound) = f[Above(bound)]
      BY <1>1, <1>9, <2>2 DEF Look
    <3>2. Above(bound) \in Bounds(s) /\ Width(Above(bound)) < Width(bound)
      BY <1>1, <2>2, MiddleIs
    <3>3. Above(bound).lower = m + 1 /\ Above(bound).upper = bound.upper
      BY DEF Above
    <3>4. Outside(item, s, Above(bound))
      BY <1>1, <1>5, <1>9, <2>2, <3>3 DEF Outside
    <3> QED
      BY <3>1, <3>2, <3>4
  <2> QED
    BY <1>1, <2>1, <2>2
<1>10. CASE ~(bound.lower = m /\ lessThan(item, at)) /\ ~lessThan(at, item)
  <2>1. CASE bound.lower > bound.upper
    <3>1. Look(f, item, s, bound) = m
      BY <1>10, <2>1 DEF Look
    <3>2. m \in 0..Len(s) /\ m < bound.lower + 1
      BY <1>1, <2>1 DEF Outside, Middle
    <3>3. \A i \in 1..Len(s) : i <= m => ~lessThan(item, Identifier[s[i]])
      BY <1>1, <1>7, <3>2 DEF Outside
    <3> QED
      BY <1>6, <1>10, <3>1, <3>2, <3>3 DEF Fits
  <2>2. CASE bound.lower <= bound.upper
    <3>1. Look(f, item, s, bound) = f[Below(bound)]
      BY <1>1, <1>10, <2>2 DEF Look
    <3>2. Below(bound) \in Bounds(s) /\ Width(Below(bound)) < Width(bound)
      BY <1>1, <2>2, MiddleIs
    <3>3. Below(bound).lower = bound.lower /\ Below(bound).upper = m - 1
      BY DEF Below
    <3>4. Outside(item, s, Below(bound))
      <4>1. bound.lower <= (m - 1) + 1
        BY <1>1, <2>2
      <4>2. \A i \in 1..Len(s) : i > (m - 1) + 1 => ~lessThan(Identifier[s[i]], item)
        BY <1>1, <1>6, <1>10
      <4> QED
        BY <3>3, <4>1, <4>2 DEF Outside
    <3> QED
      BY <3>1, <3>2, <3>4
  <2> QED
    BY <1>1, <2>1, <2>2
<1> QED
  BY <1>8, <1>9, <1>10

\* The search finds a place where the item fits.
LEMMA PositionFits ==
  ASSUME NEW item \in Identifiers, NEW s \in Seq(People), Sorted(s)
  PROVE  Fits(item, s, positionForItem(item, s))
<1>1. CASE s = <<>>
  <2>1. positionForItem(item, s) = 0 /\ Len(s) = 0
    BY <1>1, PositionIs
  <2> QED
    BY <2>1 DEF Fits
<1>2. CASE s # <<>>
  <2>1. Len(s) \in Nat \ {0}
    BY <1>2
  <2> DEFINE f == CHOOSE f : Finds(f, item, s)
             all == [lower |-> 0, upper |-> Len(s) - 1]
             P == {n \in Nat : \A b \in Bounds(s) :
                     Width(b) <= n /\ Outside(item, s, b) => Fits(item, s, f[b])}
  <2>2. Finds(f, item, s)
    BY <2>1, FindsExists
  <2>3. positionForItem(item, s) = f[all]
    BY <1>2, PositionIs
  <2> HIDE DEF f
  <2>4. \A b \in Bounds(s) : f[b] = Look(f, item, s, b)
    BY <2>2 DEF Finds
  <2>5. \A b \in Bounds(s) : Width(b) \in 0..Len(s)
    BY <2>1, MiddleIs
  <2>6. 0 \in P
    <3> SUFFICES ASSUME NEW b \in Bounds(s), Width(b) <= 0, Outside(item, s, b) PROVE Fits(item, s, f[b])
      OBVIOUS
    <3>1. \A c \in Bounds(s) : ~(Width(c) < Width(b))
      BY <2>5
    <3> QED
      BY <2>1, <2>4, <3>1, LookFits
  <2>7. ASSUME NEW n \in P PROVE n + 1 \in P
    <3> SUFFICES ASSUME NEW b \in Bounds(s), Width(b) <= n + 1, Outside(item, s, b) PROVE Fits(item, s, f[b])
      OBVIOUS
    <3>1. \A c \in Bounds(s) : Width(c) < Width(b) => Width(c) <= n
      BY <2>5
    <3>2. \A c \in Bounds(s) : Width(c) < Width(b) /\ Outside(item, s, c) => Fits(item, s, f[c])
      BY <3>1
    <3> QED
      BY <2>1, <2>4, <3>2, LookFits
  <2>8. P = Nat
    <3> HIDE DEF P
    <3>1. P \in SUBSET Nat
      BY DEF P
    <3> QED
      BY <2>6, <2>7, <3>1, Induction
  <2>9. all \in Bounds(s) /\ Outside(item, s, all)
    BY <2>1 DEF Bounds, Outside
  <2>10. Width(all) <= Len(s) /\ Len(s) \in P
    BY <2>1, <2>5, <2>8, <2>9
  <2> HIDE DEF all
  <2> QED
    BY <2>3, <2>9, <2>10
<1> QED
  BY <1>1, <1>2

(***************************************************************************)
(* Lists of different people, in any order and in that of lessThan().      *)
(***************************************************************************)
Different == {d \in People \X People : d[1] # d[2]}

Rank == {d \in People \X People : d[1] # d[2] /\ ~lessThan(Identifier[d[2]], Identifier[d[1]])}

\* A list of different people in the order of lessThan().
Listed(s) == s \in Seq(People) /\ InOrder(s, Rank)

LEMMA RankIs ==
  /\ \A x, y \in People : <<x, y>> \in Rank <=> x # y /\ ~lessThan(Identifier[y], Identifier[x])
  /\ \A x, y \in People : <<x, y>> \in Different <=> x # y
  /\ \A x : <<x, x>> \notin Rank /\ <<x, x>> \notin Different
BY DEF Rank, Different

LEMMA ListedIs ==
  ASSUME NEW s, Listed(s)
  PROVE  Sorted(s) /\ IsInjective(s) /\ InOrder(s, Different)
<1>1. s \in Seq(People) /\ Len(s) \in Nat /\ DOMAIN s = 1 .. Len(s) /\ \A i \in 1 .. Len(s) : s[i] \in People
  BY DEF Listed
<1>2. \A i, j \in 1 .. Len(s) : i < j => s[i] # s[j] /\ ~lessThan(Identifier[s[j]], Identifier[s[i]])
  BY <1>1, RankIs DEF Listed, InOrder
<1>3. Sorted(s)
  BY <1>1, <1>2 DEF Sorted
<1>4. IsInjective(s)
  <2> SUFFICES ASSUME NEW i \in 1 .. Len(s), NEW j \in 1 .. Len(s), s[i] = s[j], i # j PROVE FALSE
    BY <1>1 DEF IsInjective
  <2>1. i < j \/ j < i
    BY <1>1
  <2> QED
    BY <1>2, <2>1
<1>5. InOrder(s, Different)
  BY <1>1, <1>2, RankIs DEF InOrder
<1> QED
  BY <1>3, <1>4, <1>5

\* addParticipant() keeps the order.
LEMMA AddKeepsOrder ==
  ASSUME NEW s, Listed(s), NEW p \in People, p \notin ToSet(s)
  PROVE  Listed(addParticipant(s, p)) /\ ToSet(addParticipant(s, p)) = ToSet(s) \cup {p}
<1>1. s \in Seq(People) /\ InOrder(s, Rank) /\ \A i \in 1 .. Len(s) : s[i] \in People /\ s[i] # p
  BY DEF Listed, ToSet
<1> DEFINE n == positionForItem(Identifier[p], s)
<1>2. Fits(Identifier[p], s, n)
  <2>1. Identifier[p] \in Identifiers
    BY DEF Identifiers
  <2>2. Sorted(s)
    BY ListedIs
  <2> QED
    BY <1>1, <2>1, <2>2, PositionFits
<1>3. addParticipant(s, p) = InsertAt(s, n + 1, p)
  BY DEF addParticipant
<1> HIDE DEF n
<1>4. n \in 0 .. Len(s)
  BY <1>2 DEF Fits
<1>5. \A i \in 1 .. Len(s) : i <= n => <<s[i], p>> \in Rank
  BY <1>1, <1>2, RankIs DEF Fits
<1>6. \A i \in 1 .. Len(s) : i > n => <<p, s[i]>> \in Rank
  BY <1>1, <1>2, RankIs DEF Fits
<1>7. LET t == InsertAt(s, n + 1, p)
      IN  t \in Seq(People) /\ ToSet(t) = ToSet(s) \cup {p} /\ InOrder(t, Rank)
  BY <1>1, <1>4, <1>5, <1>6, ListInsert
<1> QED
  BY <1>3, <1>7 DEF Listed

(***************************************************************************)
(* Several people are added, one after the other.                          *)
(***************************************************************************)
AddingStep(g, s, ps, n) ==
  [i \in 0 .. n |-> IF i = 0 THEN s ELSE addParticipant(g[i - 1], ps[i])]

LEMMA AddAllIs ==
  ASSUME NEW s, NEW ps
  PROVE  AddAll(s, ps) = (CHOOSE g : g = AddingStep(g, s, ps, Len(ps)))[Len(ps)]
BY DEF AddAll, AddingStep

LEMMA AddingStepExists ==
  ASSUME NEW s, NEW ps, NEW n \in Nat
  PROVE  \E g : g = AddingStep(g, s, ps, n)
<1> DEFINE P == {k \in Nat : \E g : g = AddingStep(g, s, ps, k)}
<1>1. 0 \in P
  <2> DEFINE g == [i \in 0 .. 0 |-> s]
  <2>1. g = AddingStep(g, s, ps, 0)
    BY DEF AddingStep
  <2> QED
    BY <2>1
<1>2. ASSUME NEW k \in P PROVE k + 1 \in P
  <2>1. PICK g : g = AddingStep(g, s, ps, k)
    OBVIOUS
  <2> DEFINE last == addParticipant(g[k], ps[k + 1])
             h == [i \in 0 .. k + 1 |-> IF i <= k THEN g[i] ELSE last]
  <2>2. \A i \in 0 .. k : g[i] = IF i = 0 THEN s ELSE addParticipant(g[i - 1], ps[i])
    BY <2>1 DEF AddingStep
  <2>3. \A i \in 0 .. k + 1 : h[i] = IF i <= k THEN g[i] ELSE last
    OBVIOUS
  <2>4. \A i \in 0 .. k + 1 : h[i] = IF i = 0 THEN s ELSE addParticipant(h[i - 1], ps[i])
    <3> HIDE DEF h
    <3> TAKE i \in 0 .. k + 1
    <3>1. CASE i \in 0 .. k
      <4>1. h[i] = g[i] /\ (i # 0 => i - 1 \in 0 .. k + 1 /\ h[i - 1] = g[i - 1])
        BY <2>3, <3>1
      <4> QED
        BY <2>2, <3>1, <4>1
    <3>2. CASE i = k + 1
      <4>1. h[i] = last /\ i # 0 /\ h[i - 1] = g[k]
        BY <2>3, <3>2
      <4> QED
        BY <3>2, <4>1
    <3> QED
      BY <3>1, <3>2
  <2>5. h = AddingStep(h, s, ps, k + 1)
    <3>1. h = [i \in 0 .. k + 1 |-> h[i]]
      OBVIOUS
    <3> HIDE DEF h
    <3> QED
      BY <2>4, <3>1 DEF AddingStep
  <2> HIDE DEF h
  <2> QED
    BY <2>5
<1> HIDE DEF P
<1>3. P = Nat
  <2>1. P \in SUBSET Nat
    BY DEF P
  <2> QED
    BY <1>1, <1>2, <2>1, Induction
<1> QED
  BY <1>3 DEF P

\* Different people whom the list does not have become part of it.
LEMMA AddAllKeepsOrder ==
  ASSUME NEW s, Listed(s), NEW ps \in Seq(People), InOrder(ps, Different),
         ToSet(s) \cap ToSet(ps) = {}
  PROVE  Listed(AddAll(s, ps)) /\ ToSet(AddAll(s, ps)) = ToSet(s) \cup ToSet(ps)
<1> DEFINE n == Len(ps)
           g == CHOOSE g : g = AddingStep(g, s, ps, n)
           done(k) == {ps[i] : i \in 1 .. k}
           P == {k \in Nat : k <= n => Listed(g[k]) /\ ToSet(g[k]) = ToSet(s) \cup done(k)}
<1>1. n \in Nat /\ \A i \in 1 .. n : ps[i] \in People /\ ps[i] \notin ToSet(s)
  BY DEF ToSet
<1>2. g = AddingStep(g, s, ps, n)
  BY <1>1, AddingStepExists
<1>3. AddAll(s, ps) = g[n]
  BY AddAllIs
<1> HIDE DEF g
<1>4. \A i \in 0 .. n : g[i] = IF i = 0 THEN s ELSE addParticipant(g[i - 1], ps[i])
  BY <1>2 DEF AddingStep
<1>5. \A i, j \in 1 .. n : i < j => ps[i] # ps[j]
  BY <1>1, RankIs DEF InOrder
<1> HIDE DEF n
<1>6. 0 \in P
  BY <1>1, <1>4
<1>7. ASSUME NEW k \in P PROVE k + 1 \in P
  <2> SUFFICES ASSUME k + 1 <= n
               PROVE  Listed(g[k + 1]) /\ ToSet(g[k + 1]) = ToSet(s) \cup done(k + 1)
    OBVIOUS
  <2>1. /\ k + 1 \in 1 .. n /\ k + 1 \in 0 .. n /\ k + 1 # 0 /\ (k + 1) - 1 = k
        /\ \A i \in 1 .. k : i \in 1 .. n /\ i < k + 1
    BY <1>1
  <2>2. Listed(g[k]) /\ ToSet(g[k]) = ToSet(s) \cup done(k)
    BY <1>1, <2>1
  <2>3. ps[k + 1] \in People /\ ps[k + 1] \notin ToSet(g[k])
    BY <1>1, <1>5, <2>1, <2>2
  <2>4. g[k + 1] = addParticipant(g[k], ps[k + 1])
    BY <1>4, <2>1
  <2>5. Listed(g[k + 1]) /\ ToSet(g[k + 1]) = ToSet(g[k]) \cup {ps[k + 1]}
    BY <2>2, <2>3, <2>4, AddKeepsOrder
  <2>6. 1 .. k + 1 = (1 .. k) \cup {k + 1}
    OBVIOUS
  <2>7. done(k + 1) = done(k) \cup {ps[k + 1]}
    BY <2>6
  <2> QED
    BY <2>2, <2>5, <2>7
<1>8. P = Nat
  <2> HIDE DEF P
  <2>1. P \in SUBSET Nat
    BY DEF P
  <2> QED
    BY <1>6, <1>7, <2>1, Induction
<1>9. Listed(g[n]) /\ ToSet(g[n]) = ToSet(s) \cup done(n)
  BY <1>1, <1>8
<1>10. done(n) = ToSet(ps)
  BY DEF ToSet, n
<1> QED
  BY <1>3, <1>9, <1>10

\* removeAt() keeps the order.
LEMMA RemoveKeepsOrder ==
  ASSUME NEW s, Listed(s), NEW p
  PROVE  Listed(removeAt(s, p)) /\ ToSet(removeAt(s, p)) = ToSet(s) \ {p}
<1>1. CASE p \in ToSet(s)
  BY <1>1, ListRemove, RankIs DEF Listed, removeAt
<1>2. CASE p \notin ToSet(s)
  BY <1>2 DEF removeAt
<1> QED
  BY <1>1, <1>2

\* A page moves from the cache to the rows.
LEMMA FetchKeepsOrder ==
  ASSUME NEW s, Listed(s), NEW cache, Listed(cache), ToSet(s) \cap ToSet(cache) = {},
         Fetched(s, cache)
  PROVE  /\ Listed(rows') /\ Listed(mParticipantsCache')
         /\ ToSet(rows') \cap ToSet(mParticipantsCache') = {}
         /\ ToSet(rows') \cup ToSet(mParticipantsCache') = ToSet(s) \cup ToSet(cache)
<1> DEFINE n == IF Len(cache) < Page THEN Len(cache) ELSE Page
           a == SubSeq(cache, 1, n)
           b == SubSeq(cache, n + 1, Len(cache))
<1>1. cache \in Seq(People) /\ InOrder(cache, Rank) /\ n \in 0 .. Len(cache)
  BY ParticipantsAssumption DEF Listed
<1>2. rows' = AddAll(s, a) /\ mParticipantsCache' = b
  BY DEF Fetched
<1> HIDE DEF n
<1>3. a \in Seq(People) /\ b \in Seq(People) /\ cache = a \o b
  BY <1>1, ListParts
<1> HIDE DEF a, b
<1>4. ToSet(cache) = ToSet(a) \cup ToSet(b)
  BY <1>3, ListConcat
<1>5. InOrder(a, Rank) /\ InOrder(b, Rank) /\ \A x \in ToSet(a), y \in ToSet(b) : <<x, y>> \in Rank
  BY <1>1, <1>3, OrderConcat
<1>6. ToSet(a) \cap ToSet(b) = {}
  BY <1>5, RankIs
<1>7. Listed(a) /\ Listed(b)
  BY <1>3, <1>5 DEF Listed
<1>8. InOrder(a, Different)
  BY <1>7, ListedIs
<1>9. Listed(AddAll(s, a)) /\ ToSet(AddAll(s, a)) = ToSet(s) \cup ToSet(a)
  BY <1>3, <1>4, <1>8, AddAllKeepsOrder
<1> QED
  BY <1>2, <1>4, <1>6, <1>7, <1>9

(***************************************************************************)
(* The invariant.  Each person is a participant of one entry at most, and  *)
(* once.  Until the second call of setChatEntry() the slots are connected  *)
(* to the entry of the model and to no other, and what it has not got a    *)
(* row for is in the cache.                                                *)
(***************************************************************************)
PeopleInv ==
  /\ \A e \in Entries : allParticipants[e] \in Seq(People) /\ InOrder(allParticipants[e], Different)
  /\ \A d, e \in Entries : d # e => ToSet(allParticipants[d]) \cap ToSet(allParticipants[e]) = {}

Shown == IF mChatEntry = NoEntry THEN {} ELSE ToSet(allParticipants[mChatEntry])

ViewInv ==
  /\ mChatEntry \in IF sets = 0 THEN {NoEntry} ELSE Entries
  /\ connections = [d \in Entries |-> IF d = mChatEntry THEN 1 ELSE 0]
  /\ Listed(rows) /\ Listed(mParticipantsCache)
  /\ ToSet(rows) \cap ToSet(mParticipantsCache) = {}
  /\ ToSet(rows) \cup ToSet(mParticipantsCache) = Shown

ParticipantsInv ==
  /\ allParticipants \in [Entries -> Seq(People)] /\ sets \in Nat
  /\ PeopleInv
  /\ sets <= 1 => ViewInv

LEMMA EmptyIsListed == Listed(<< >>) /\ ToSet(<< >>) = {} /\ \A R : InOrder(<< >>, R)
<1>1. << >> \in Seq(People) /\ ToSet(<< >>) = {} /\ Len(<< >>) = 0
  BY ListEmpty
<1>2. \A R : InOrder(<< >>, R)
  BY <1>1 DEF InOrder
<1> QED
  BY <1>1, <1>2 DEF Listed

LEMMA ParticipantsInitInv == ParticipantsInit => ParticipantsInv
<1> SUFFICES ASSUME ParticipantsInit PROVE ParticipantsInv
  OBVIOUS
<1>1. /\ \A e \in Entries : allParticipants[e] = << >>
      /\ allParticipants \in [Entries -> Seq(People)]
      /\ mChatEntry = NoEntry /\ rows = << >> /\ mParticipantsCache = << >> /\ sets = 0
      /\ connections = [d \in Entries |-> 0]
  BY EmptyIsListed DEF ParticipantsInit, Listed
<1>2. PeopleInv
  BY <1>1, EmptyIsListed DEF PeopleInv, Listed
<1>3. connections = [d \in Entries |-> IF d = mChatEntry THEN 1 ELSE 0]
  BY <1>1, ParticipantsAssumption
<1>4. ViewInv
  BY <1>1, <1>3, EmptyIsListed DEF ViewInv, Shown
<1> QED
  BY <1>1, <1>2, <1>4 DEF ParticipantsInv

\* setChatEntry() and fetchMore() do not change the entries.
LEMMA SamePeople ==
  PeopleInv /\ UNCHANGED allParticipants => PeopleInv'
BY DEF PeopleInv

LEMMA FetchMoreInv ==
  ASSUME ParticipantsInv, fetchMore PROVE ParticipantsInv'
<1>1. UNCHANGED <<allParticipants, mChatEntry, connections, sets>> /\ Fetched(rows, mParticipantsCache)
  BY DEF fetchMore
<1>2. PeopleInv'
  BY <1>1, SamePeople DEF ParticipantsInv
<1>3. ASSUME sets <= 1 PROVE ViewInv'
  <2>1. ViewInv
    BY <1>3 DEF ParticipantsInv
  <2>2. /\ Listed(rows') /\ Listed(mParticipantsCache')
        /\ ToSet(rows') \cap ToSet(mParticipantsCache') = {}
        /\ ToSet(rows') \cup ToSet(mParticipantsCache') = Shown
    BY <1>1, <2>1, FetchKeepsOrder DEF ViewInv
  <2> QED
    BY <1>1, <2>1, <2>2 DEF ViewInv, Shown, Listed
<1> QED
  BY <1>1, <1>2, <1>3 DEF ParticipantsInv

LEMMA SetChatEntryInv ==
  ASSUME ParticipantsInv, NEW e \in Entries \cup {NoEntry}, setChatEntry(e) PROVE ParticipantsInv'
<1>1. UNCHANGED allParticipants /\ sets' = sets + 1 /\ mChatEntry' = e /\ mChatEntry # e /\ sets \in Nat
  BY DEF setChatEntry, ParticipantsInv
<1>2. PeopleInv'
  BY <1>1, SamePeople DEF ParticipantsInv
<1>3. ASSUME sets' <= 1 PROVE ViewInv'
  <2>1. sets = 0 /\ sets' = 1 /\ ViewInv
    BY <1>1, <1>3 DEF ParticipantsInv
  <2>2. mChatEntry = NoEntry /\ e \in Entries /\ e # NoEntry /\ Shown = {}
    BY <1>1, <2>1, ParticipantsAssumption DEF ViewInv, Shown
  <2> DEFINE cache == AddAll(mParticipantsCache, allParticipants[e])
  <2>3. /\ connections' = [d \in Entries |-> IF d = e THEN connections[d] + 1
                                             ELSE IF d = mChatEntry THEN 0
                                             ELSE connections[d]]
        /\ Fetched(rows, cache)
    BY <2>2 DEF setChatEntry
  <2>4. connections' = [d \in Entries |-> IF d = mChatEntry' THEN 1 ELSE 0]
    <3>1. \A d \in Entries : connections[d] = 0 /\ d # mChatEntry
      BY <2>1, <2>2, ParticipantsAssumption DEF ViewInv
    <3> QED
      BY <1>1, <2>3, <3>1
  <2>5. Listed(rows) /\ Listed(mParticipantsCache) /\ ToSet(rows) = {} /\ ToSet(mParticipantsCache) = {}
    BY <2>1, <2>2 DEF ViewInv
  <2>6. Listed(cache) /\ ToSet(cache) = ToSet(allParticipants[e])
    <3>1. allParticipants[e] \in Seq(People) /\ InOrder(allParticipants[e], Different)
      BY <2>2 DEF ParticipantsInv, PeopleInv
    <3>2. Listed(cache) /\ ToSet(cache) = ToSet(mParticipantsCache) \cup ToSet(allParticipants[e])
      BY <2>5, <3>1, AddAllKeepsOrder
    <3> QED
      BY <2>5, <3>2
  <2> HIDE DEF cache
  <2>7. /\ Listed(rows') /\ Listed(mParticipantsCache')
        /\ ToSet(rows') \cap ToSet(mParticipantsCache') = {}
        /\ ToSet(rows') \cup ToSet(mParticipantsCache') = ToSet(allParticipants[e])
    BY <2>3, <2>5, <2>6, FetchKeepsOrder
  <2> QED
    BY <1>1, <2>1, <2>2, <2>4, <2>7 DEF ViewInv, Shown, Listed
<1> QED
  BY <1>1, <1>2, <1>3 DEF ParticipantsInv

LEMMA ParticipantAddedInv ==
  ASSUME ParticipantsInv, NEW e \in Entries, NEW p \in People, ParticipantAdded(e, p)
  PROVE  ParticipantsInv'
<1> DEFINE all == allParticipants[e]
           more == Append(all, p)
           ps == [i \in 1..connections[e] |-> p]
<1>1. /\ \A d \in Entries : p \notin ToSet(allParticipants[d])
      /\ p \notin ToSet(rows) \cup ToSet(mParticipantsCache)
      /\ allParticipants' = [allParticipants EXCEPT ![e] = more]
      /\ rows' = AddAll(rows, ps)
      /\ UNCHANGED <<mChatEntry, connections, mParticipantsCache, sets>>
  BY DEF ParticipantAdded
<1>2. all \in Seq(People) /\ InOrder(all, Different) /\ allParticipants \in [Entries -> Seq(People)]
  BY DEF ParticipantsInv, PeopleInv
<1> HIDE DEF all
<1>3. more \in Seq(People) /\ ToSet(more) = ToSet(all) \cup {p} /\ InOrder(more, Different)
  <2> DEFINE one == <<p>>
  <2>1. one \in Seq(People) /\ ToSet(one) = {p} /\ InOrder(one, Different)
    BY OneElement
  <2>2. more = all \o one
    BY <1>2, AppendIsConcat
  <2> HIDE DEF one, more
  <2>3. all \o one \in Seq(People) /\ ToSet(all \o one) = ToSet(all) \cup {p}
    BY <1>2, <2>1, ListConcat
  <2>4. \A x \in ToSet(all), y \in ToSet(one) : <<x, y>> \in Different
    <3>1. \A x \in ToSet(all) : x \in People /\ x # p
      BY <1>1, <1>2 DEF ToSet, all
    <3> QED
      BY <2>1, <3>1, RankIs
  <2>5. InOrder(all \o one, Different)
    BY <1>2, <2>1, <2>4, OrderConcat
  <2> QED
    BY <2>2, <2>3, <2>5
<1> HIDE DEF more
<1>4. /\ allParticipants' \in [Entries -> Seq(People)]
      /\ \A d \in Entries : allParticipants'[d] = IF d = e THEN more ELSE allParticipants[d]
  BY <1>1, <1>2, <1>3
<1>5. PeopleInv'
  <2>1. \A d \in Entries : allParticipants'[d] \in Seq(People) /\ InOrder(allParticipants'[d], Different)
    BY <1>3, <1>4 DEF ParticipantsInv, PeopleInv
  <2>2. \A c, d \in Entries : c # d => ToSet(allParticipants'[c]) \cap ToSet(allParticipants'[d]) = {}
    BY <1>1, <1>3, <1>4 DEF ParticipantsInv, PeopleInv, all
  <2> QED
    BY <2>1, <2>2 DEF PeopleInv
<1>6. ASSUME sets <= 1 PROVE ViewInv'
  <2>1. ViewInv
    BY <1>6 DEF ParticipantsInv
  <2>2. connections[e] = IF e = mChatEntry THEN 1 ELSE 0
    BY <2>1 DEF ViewInv
  <2>3. ps \in Seq(People) /\ InOrder(ps, Different) /\ ToSet(ps) = IF e = mChatEntry THEN {p} ELSE {}
    <3>1. CASE e = mChatEntry
      <4>1. ps \in Seq(People) /\ Len(ps) = 1 /\ DOMAIN ps = 1 .. 1 /\ \A i \in 1 .. 1 : ps[i] = p
        BY <2>2, <3>1
      <4> HIDE DEF ps
      <4> QED
        BY <3>1, <4>1 DEF ToSet, InOrder
    <3>2. CASE e # mChatEntry
      <4>1. ps \in Seq(People) /\ Len(ps) = 0 /\ DOMAIN ps = {}
        BY <2>2, <3>2
      <4> HIDE DEF ps
      <4> QED
        BY <3>2, <4>1 DEF ToSet, InOrder
    <3> QED
      BY <3>1, <3>2
  <2> HIDE DEF ps
  <2>4. Listed(rows) /\ ToSet(rows) \cap ToSet(ps) = {}
    BY <1>1, <2>1, <2>3 DEF ViewInv
  <2>5. Listed(rows') /\ ToSet(rows') = ToSet(rows) \cup ToSet(ps)
    BY <1>1, <2>3, <2>4, AddAllKeepsOrder
  <2>6. ToSet(rows') \cap ToSet(mParticipantsCache') = {}
    BY <1>1, <2>1, <2>3, <2>5 DEF ViewInv
  <2>7. Shown' = Shown \cup ToSet(ps)
    <3>1. mChatEntry = NoEntry \/ mChatEntry \in Entries
      BY <2>1 DEF ViewInv
    <3> QED
      BY <1>1, <1>3, <1>4, <2>3, <3>1, ParticipantsAssumption DEF Shown, all
  <2>8. ToSet(rows') \cup ToSet(mParticipantsCache') = Shown'
    BY <1>1, <2>1, <2>5, <2>7 DEF ViewInv
  <2> QED
    BY <1>1, <2>1, <2>5, <2>6, <2>8 DEF ViewInv, Listed
<1> QED
  BY <1>1, <1>4, <1>5, <1>6 DEF ParticipantsInv

LEMMA ParticipantRemovedInv ==
  ASSUME ParticipantsInv, NEW e \in Entries, NEW p \in People, ParticipantRemoved(e, p)
  PROVE  ParticipantsInv'
<1> DEFINE all == allParticipants[e]
           less == RemoveFirst(all, p)
<1>1. /\ p \in ToSet(all)
      /\ allParticipants' = [allParticipants EXCEPT ![e] = less]
      /\ UNCHANGED <<mChatEntry, connections, sets>>
  BY DEF ParticipantRemoved
<1>2. all \in Seq(People) /\ InOrder(all, Different) /\ allParticipants \in [Entries -> Seq(People)]
  BY DEF ParticipantsInv, PeopleInv
<1> HIDE DEF all
<1>3. less \in Seq(People) /\ ToSet(less) = ToSet(all) \ {p} /\ InOrder(less, Different)
  BY <1>1, <1>2, ListRemove, RankIs
<1> HIDE DEF less
<1>4. /\ allParticipants' \in [Entries -> Seq(People)]
      /\ \A d \in Entries : allParticipants'[d] = IF d = e THEN less ELSE allParticipants[d]
  BY <1>1, <1>2, <1>3
<1>5. PeopleInv'
  <2>1. \A d \in Entries : allParticipants'[d] \in Seq(People) /\ InOrder(allParticipants'[d], Different)
    BY <1>3, <1>4 DEF ParticipantsInv, PeopleInv
  <2>2. \A c, d \in Entries : c # d => ToSet(allParticipants'[c]) \cap ToSet(allParticipants'[d]) = {}
    BY <1>3, <1>4 DEF ParticipantsInv, PeopleInv, all
  <2> QED
    BY <2>1, <2>2 DEF PeopleInv
<1>6. ASSUME sets <= 1 PROVE ViewInv'
  <2>1. ViewInv
    BY <1>6 DEF ParticipantsInv
  <2>2. connections[e] = IF e = mChatEntry THEN 1 ELSE 0
    BY <2>1 DEF ViewInv
  <2>3. mChatEntry = NoEntry \/ mChatEntry \in Entries
    BY <2>1 DEF ViewInv
  <2>4. CASE e = mChatEntry
    <3>1. rows' = removeAt(rows, p) /\ mParticipantsCache' = removeAt(mParticipantsCache, p)
      BY <2>2, <2>4 DEF ParticipantRemoved, removeParticipant
    <3>2. /\ Listed(rows') /\ ToSet(rows') = ToSet(rows) \ {p}
          /\ Listed(mParticipantsCache') /\ ToSet(mParticipantsCache') = ToSet(mParticipantsCache) \ {p}
      BY <2>1, <3>1, RemoveKeepsOrder DEF ViewInv
    <3>3. Shown' = Shown \ {p}
      BY <1>1, <1>3, <1>4, <2>4, ParticipantsAssumption DEF Shown, all
    <3> QED
      BY <1>1, <2>1, <3>2, <3>3 DEF ViewInv, Listed
  <2>5. CASE e # mChatEntry
    <3>1. UNCHANGED <<rows, mParticipantsCache>>
      BY <2>2, <2>5 DEF ParticipantRemoved
    <3>2. Shown' = Shown
      BY <1>1, <1>4, <2>3, <2>5 DEF Shown
    <3> QED
      BY <1>1, <2>1, <3>1, <3>2 DEF ViewInv, Listed
  <2> QED
    BY <2>4, <2>5
<1> QED
  BY <1>1, <1>4, <1>5, <1>6 DEF ParticipantsInv

LEMMA ClearParticipantsInv ==
  ASSUME ParticipantsInv, NEW e \in Entries, clearParticipants(e)
  PROVE  ParticipantsInv'
<1> DEFINE gone == ToSet(allParticipants[e])
<1>1. /\ allParticipants' = [allParticipants EXCEPT ![e] = << >>]
      /\ IF connections[e] = 0 THEN UNCHANGED <<rows, mParticipantsCache>>
         ELSE /\ rows' = Keep(rows, People \ gone)
              /\ mParticipantsCache' = Keep(mParticipantsCache, People \ gone)
      /\ UNCHANGED <<mChatEntry, connections, sets>>
  BY DEF clearParticipants
<1>2. << >> \in Seq(People) /\ ToSet(<< >>) = {} /\ InOrder(<< >>, Different)
  BY EmptyIsListed DEF Listed
<1>3. /\ allParticipants' \in [Entries -> Seq(People)]
      /\ \A d \in Entries : d # e => allParticipants'[d] = allParticipants[d]
      /\ allParticipants'[e] = << >>
  BY <1>1, <1>2 DEF ParticipantsInv
<1>4. PeopleInv'
  <2>1. \A d \in Entries : allParticipants'[d] \in Seq(People) /\ InOrder(allParticipants'[d], Different)
    BY <1>2, <1>3 DEF ParticipantsInv, PeopleInv
  <2>2. \A c, d \in Entries : c # d => ToSet(allParticipants'[c]) \cap ToSet(allParticipants'[d]) = {}
    BY <1>2, <1>3 DEF ParticipantsInv, PeopleInv
  <2> QED
    BY <2>1, <2>2 DEF PeopleInv
<1>5. ASSUME sets <= 1 PROVE ViewInv'
  <2>1. ViewInv
    BY <1>5 DEF ParticipantsInv
  <2>2. connections[e] = IF e = mChatEntry THEN 1 ELSE 0
    BY <2>1 DEF ViewInv
  <2>3. mChatEntry = NoEntry \/ mChatEntry \in Entries
    BY <2>1 DEF ViewInv
  <2>4. CASE e = mChatEntry
    <3>1. rows' = Keep(rows, People \ gone) /\ mParticipantsCache' = Keep(mParticipantsCache, People \ gone)
      BY <1>1, <2>2, <2>4
    <3>2. Shown = gone /\ Shown' = {}
      BY <1>1, <1>2, <1>3, <2>4, ParticipantsAssumption DEF Shown
    <3>3. ASSUME NEW s, Listed(s), ToSet(s) \subseteq gone
          PROVE  Listed(Keep(s, People \ gone)) /\ ToSet(Keep(s, People \ gone)) = {}
      <4>1. s \in Seq(People) /\ InOrder(s, Rank)
        BY <3>3 DEF Listed
      <4>2. /\ Keep(s, People \ gone) \in Seq(People)
            /\ ToSet(Keep(s, People \ gone)) = ToSet(s) \cap (People \ gone)
        BY <4>1, KeepElements
      <4>3. InOrder(Keep(s, People \ gone), Rank)
        BY <4>1, KeepOrder
      <4> QED
        BY <3>3, <4>2, <4>3 DEF Listed
    <3>4. /\ Listed(rows') /\ ToSet(rows') = {}
          /\ Listed(mParticipantsCache') /\ ToSet(mParticipantsCache') = {}
      <4>1. /\ Listed(rows) /\ ToSet(rows) \subseteq gone
            /\ Listed(mParticipantsCache) /\ ToSet(mParticipantsCache) \subseteq gone
        BY <2>1, <3>2 DEF ViewInv
      <4> HIDE DEF gone
      <4> QED
        BY <3>1, <3>3, <4>1
    <3> QED
      BY <1>1, <2>1, <3>2, <3>4 DEF ViewInv, Listed
  <2>5. CASE e # mChatEntry
    <3>1. UNCHANGED <<rows, mParticipantsCache>>
      BY <1>1, <2>2, <2>5
    <3>2. Shown' = Shown
      BY <1>1, <1>3, <2>3, <2>5 DEF Shown
    <3> QED
      BY <1>1, <2>1, <3>1, <3>2 DEF ViewInv, Listed
  <2> QED
    BY <2>4, <2>5
<1> QED
  BY <1>1, <1>3, <1>4, <1>5 DEF ParticipantsInv

\* The invariant above, for any number of entries and people, any page and any
\* order (participantsmodel.cpp:48-234, chatentry.cpp:674-720).
THEOREM ParticipantsInvariant == ParticipantsSpec => []ParticipantsInv
<1>1. ParticipantsInit => ParticipantsInv
  BY ParticipantsInitInv
<1>2. ParticipantsInv /\ [ParticipantsNext]_participantsVars => ParticipantsInv'
  <2> SUFFICES ASSUME ParticipantsInv, [ParticipantsNext]_participantsVars PROVE ParticipantsInv'
    OBVIOUS
  <2>1. CASE fetchMore
    BY <2>1, FetchMoreInv
  <2>2. CASE \E e \in Entries \cup {NoEntry} : setChatEntry(e)
    BY <2>2, SetChatEntryInv
  <2>3. CASE \E e \in Entries : clearParticipants(e)
    BY <2>3, ClearParticipantsInv
  <2>4. ASSUME NEW e \in Entries, NEW p \in People, ParticipantAdded(e, p) PROVE ParticipantsInv'
    BY <2>4, ParticipantAddedInv
  <2>5. ASSUME NEW e \in Entries, NEW p \in People, ParticipantRemoved(e, p) PROVE ParticipantsInv'
    BY <2>5, ParticipantRemovedInv
  <2>6. CASE UNCHANGED participantsVars
    BY <2>6 DEF participantsVars, ParticipantsInv, PeopleInv, ViewInv, Shown, Listed
  <2> QED
    BY <2>1, <2>2, <2>3, <2>4, <2>5, <2>6 DEF ParticipantsNext
<1> QED
  BY <1>1, <1>2, PTL DEF ParticipantsSpec

\* ModelShowsEntry: the rows and the cache of a model that has had one entry are
\* the participants of the entry, each once, in the order of lessThan(), although
\* each was put there by the binary search of positionForItem()
\* (participantsmodel.cpp:85-196).
THEOREM ModelListsMembers == ParticipantsSpec => []ModelShowsEntry
<1>1. ParticipantsInv => ModelShowsEntry
  <2> SUFFICES ASSUME ParticipantsInv, mChatEntry # NoEntry, sets = 1
               PROVE  /\ IsInjective(rows \o mParticipantsCache)
                      /\ ToSet(rows \o mParticipantsCache) = ToSet(allParticipants[mChatEntry])
                      /\ Sorted(rows) /\ Sorted(mParticipantsCache)
    BY DEF ModelShowsEntry
  <2>1. ViewInv
    BY DEF ParticipantsInv
  <2>2. Listed(rows) /\ Listed(mParticipantsCache) /\ ToSet(rows) \cap ToSet(mParticipantsCache) = {}
    BY <2>1 DEF ViewInv
  <2>3. Sorted(rows) /\ Sorted(mParticipantsCache)
    BY <2>2, ListedIs
  <2>4. rows \in Seq(People) /\ mParticipantsCache \in Seq(People)
    BY <2>2 DEF Listed
  <2> DEFINE both == rows \o mParticipantsCache
  <2>5. both \in Seq(People) /\ ToSet(both) = ToSet(rows) \cup ToSet(mParticipantsCache)
    BY <2>4, ListConcat
  <2>6. \A x \in ToSet(rows), y \in ToSet(mParticipantsCache) : <<x, y>> \in Different
    <3>1. \A x \in ToSet(rows) \cup ToSet(mParticipantsCache) : x \in People
      BY <2>4 DEF ToSet
    <3> QED
      BY <2>2, <3>1, RankIs
  <2>7. InOrder(both, Different)
    <3>1. InOrder(rows, Different) /\ InOrder(mParticipantsCache, Different)
      BY <2>2, ListedIs
    <3> QED
      BY <2>4, <2>6, <3>1, OrderConcat
  <2> HIDE DEF both
  <2>8. IsInjective(both)
    <3>1. DOMAIN both = 1 .. Len(both) /\ Len(both) \in Nat /\ \A i \in 1 .. Len(both) : both[i] \in People
      BY <2>5
    <3>2. \A i, j \in 1 .. Len(both) : i < j => both[i] # both[j]
      BY <2>7, <3>1, RankIs DEF InOrder
    <3> SUFFICES ASSUME NEW i \in 1 .. Len(both), NEW j \in 1 .. Len(both), both[i] = both[j], i # j PROVE FALSE
      BY <3>1 DEF IsInjective
    <3>3. i < j \/ j < i
      BY <3>1
    <3> QED
      BY <3>2, <3>3
  <2> QED
    BY <2>1, <2>3, <2>5, <2>8 DEF ViewInv, Shown, both
<1> QED
  BY <1>1, ParticipantsInvariant, PTL
=============================================================================
