-------------------------------- MODULE Chats --------------------------------
(***************************************************************************)
(* One conversation as the messaging application shows it: the ChatEntry   *)
(* in QML, the ChatManager of its process, which hears of text channels    *)
(* from the observer and collects acknowledgements, and the TextHandler in *)
(* the handler's process, which handles the same channels and serves both. *)
(*                                                                         *)
(* The two processes learn of a channel independently of each other, and   *)
(* of the end of a job of the handler in yet another message.              *)
(* The channels are those of the conversation on any account, of which a   *)
(* chat with contacts may have several on one (a connection manager makes  *)
(* another one for a number written differently); or, for an entry of a    *)
(* room, channels of rooms, of which a room has one on an account.         *)
(***************************************************************************)
EXTENDS Lists, SequencesExt

CONSTANTS
  Channels,      \* channel objects; one that was closed may come again as a new one
  AccountOf,     \* the account of each
  RoomOf,        \* the targetId() of each, where they are of rooms
  Contacts,
  Messages,      \* incoming messages
  ChannelOf,     \* the channel each comes in on
  Jobs,          \* jobs the user starts: messages sent, chats started
  mAccountId,    \* the account of the entry, which counts for rooms, or None
  None,          \* no channel, no room, no account
  MaxRequests    \* bound: requests for a channel under way on an account

Accounts == {AccountOf[c] : c \in Channels}
Rooms == {RoomOf[c] : c \in Channels}
ChatType == {"contact", "room", "none"}

ASSUME ChatsAssumption ==
  /\ mAccountId \in Accounts \cup {None}
  /\ None \notin Channels \cup Accounts \cup Rooms
  /\ MaxRequests \in Nat \ {0}

VARIABLES
  user,          \* bound: a user who writes does not read in the same behaviour
  chatType,      \* chatType() of the entry
  mChatId,       \* the room of the entry; a new room has no id yet
  active,        \* active accounts (none of them is a phone account)
  open,          \* channels that exist
  role,          \* where each contact is in the group of each channel
  unread,        \* messages in the messageQueue() of their channel
  handled,       \* TextHandler::mChannels
  registered,    \* the application has an observer
  mTextChannels, \* ChatManager: channels the observer has told it of
  completed,     \* componentComplete() of the entry has run
  subscribed,    \* accounts whose activeChanged() the entry hears
  mChannels,     \* channels of the entry
  listed,        \* mParticipants, mLocalPendingParticipants, mRemotePendingParticipants
  shared,        \* history: the entry lost a channel and kept another
  requests,      \* channel requests on each account that nobody listens to
  job,           \* jobs the entry listens to
  mMessagesToAck,
  calls          \* AcknowledgeMessages on the bus

telepathy == <<active, open, role, unread>>
entry == <<user, chatType, mChatId, completed, subscribed, mChannels, listed, shared, requests>>
acks == <<mMessagesToAck, calls>>
vars == <<telepathy, handled, registered, mTextChannels, entry, job, acks>>

Role == {"out", "local", "remote", "in"}
Lists == [local : SUBSET Contacts, remote : SUBSET Contacts, in : SUBSET Contacts]
NoLists == [local |-> {}, remote |-> {}, in |-> {}]
NoJob == [state |-> "none", account |-> None, room |-> None, channel |-> None]

\* The type of the state (chatentry.h:218-236, chatmanager.h:70-72): a channel is
\* in a list once.
TypeOK ==
  /\ user \in {"writes", "reads"} /\ chatType \in ChatType /\ mChatId \in Rooms \cup {None}
  /\ active \in SUBSET Accounts /\ subscribed \in SUBSET Accounts
  /\ open \in SUBSET Channels
  /\ role \in [Channels -> [Contacts -> Role]]
  /\ unread \in SUBSET Messages
  /\ handled \in SUBSET Channels
  /\ registered \in BOOLEAN /\ completed \in BOOLEAN /\ shared \in BOOLEAN
  /\ mTextChannels \in Seq(Channels) /\ mChannels \in Seq(Channels)
  /\ IsInjective(mTextChannels) /\ IsInjective(mChannels)
  /\ listed \in Lists
  /\ requests \in [Accounts -> 0..MaxRequests]
  /\ job \in [Jobs -> [state : {"none", "Running", "Finished", "Failed", "ready", "failed"},
                        account : Accounts \cup {None}, room : Rooms \cup {None},
                        channel : Channels \cup {None}]]
  /\ mMessagesToAck \in Seq(Messages) /\ calls \in Seq(Seq(Messages))

Init ==
  /\ user \in {"writes", "reads"} /\ chatType \in ChatType
  /\ mChatId \in Rooms \cup {None} /\ (chatType # "room" => mChatId = None)
  /\ active \in SUBSET Accounts
  /\ open = {}
  /\ role = [c \in Channels |-> [p \in Contacts |-> "out"]]
  /\ unread = {}
  /\ handled = {} /\ registered = TRUE /\ mTextChannels = <<>>
  /\ completed = FALSE /\ subscribed = {} /\ mChannels = <<>> /\ listed = NoLists
  /\ shared = FALSE
  /\ requests = [a \in Accounts |-> 0]
  /\ job = [j \in Jobs |-> NoJob]
  /\ mMessagesToAck = <<>> /\ calls = <<>>

Open(a) == {c \in open : AccountOf[c] = a}
-----------------------------------------------------------------------------
(* The entry *)

\* channelMatchProperties(): a room has the id of the entry, which must have one,
\* and is on its account, if it has one.
Matches(c) ==
  chatType = "room" =>
    /\ mChatId # None /\ RoomOf[c] = mChatId
    /\ mAccountId \in {None, AccountOf[c]}

\* The participants of a channel.
ListsOf(c, roles) == [local |-> {p \in Contacts : roles[c][p] = "local"},
                      remote |-> {p \in Contacts : roles[c][p] = "remote"},
                      in |-> {p \in Contacts : roles[c][p] = "in"}]

NotAdded == UNCHANGED <<mChatId, mChannels, listed, shared>>

\* Seeded bug: a channel the entry has is added again.
addChannel_Again(c) ==
  /\ mChannels' = Append(mChannels, c)
  /\ mChatId' = IF chatType = "room" THEN RoomOf[c] ELSE mChatId
  /\ listed' = ListsOf(c, role)
  /\ shared' = FALSE

\* addChannel(): the participants, and the id of a room, are those of the channel
\* that came last.
addChannel(c) ==
  IF c \in ToSet(mChannels) THEN NotAdded
  ELSE /\ mChannels' = Append(mChannels, c)
       /\ mChatId' = IF chatType = "room" THEN RoomOf[c] ELSE mChatId
       /\ listed' = ListsOf(c, role)
       /\ shared' = FALSE

\* startChat() on each account of A, in vain if the bound is reached.
Request(A) ==
  requests' = [a \in Accounts |-> IF a \in A /\ requests[a] < MaxRequests
                                  THEN requests[a] + 1 ELSE requests[a]]

\* componentComplete(): the channels there are, and a request on each account
\* that has none; a chat of type "none" stops half way.
Complete ==
  /\ ~completed
  /\ completed' = TRUE
  /\ mChannels' = Keep(mTextChannels, {c \in Channels : Matches(c)})
  /\ listed' = IF mChannels' = <<>> THEN NoLists ELSE ListsOf(Last(mChannels'), role)
  /\ IF chatType = "none"
     THEN UNCHANGED <<subscribed, requests>>
     ELSE /\ subscribed' = active
          /\ Request({a \in active : /\ chatType = "room" => a = mAccountId
                                     /\ \A c \in ToSet(mChannels') : AccountOf[c] # a})
  /\ UNCHANGED <<telepathy, handled, registered, mTextChannels, user, chatType, mChatId, shared,
                 job, acks>>

\* onAccountActiveChanged(), which does not look at the type of the chat.
onAccountActiveChanged(a) ==
  IF a \in subscribed /\ a \in active' /\ \A c \in ToSet(mChannels) : AccountOf[c] # a
  THEN Request({a}) ELSE UNCHANGED requests

\* sendMessage() or startChat(): the handler answers with a job.  Without an id it
\* is to make a new room.
StartJob(j) ==
  /\ user = "writes" /\ completed /\ job[j].state = "none"
  /\ \E a \in active :
       /\ chatType = "room" => mAccountId \in {None, a}
       /\ job' = [job EXCEPT ![j] = [@ EXCEPT !.state = "Running", !.account = a,
                                              !.room = mChatId]]
  /\ UNCHANGED <<telepathy, handled, registered, mTextChannels, entry, acks>>

\* onSendingMessageFinished() and onChatStartingFinished(): the channel of the
\* job is looked up in ChatManager, which may not have it yet; then the job
\* counts as failed whatever its result.
JobHeard(j) ==
  /\ job[j].state \in {"Finished", "Failed"}
  /\ IF job[j].channel \in ToSet(mTextChannels)
     THEN /\ addChannel(job[j].channel)
          /\ job' = [job EXCEPT ![j].state = IF @ = "Finished" THEN "ready" ELSE "failed",
                                ![j].channel = None]
     ELSE /\ job' = [job EXCEPT ![j].state = "failed", ![j].channel = None]
          /\ NotAdded
  /\ UNCHANGED <<telepathy, handled, registered, mTextChannels, user, chatType, completed, subscribed,
                 requests, acks>>
-----------------------------------------------------------------------------
(* Channels *)

\* Seeded bug: an entry that has a channel does not look at further ones.
onTextChannelAvailable_One(c) ==
  IF completed /\ mChannels = <<>> /\ Matches(c) THEN addChannel(c) ELSE NotAdded

\* ChatEntry::onTextChannelAvailable(), connected to at the end of
\* componentComplete().
onTextChannelAvailable(c) ==
  IF completed /\ chatType # "none" /\ Matches(c) THEN addChannel(c) ELSE NotAdded

\* The observer of the application has made the channel ready:
\* ChatManager::onTextChannelAvailable().
Observe(c) ==
  /\ registered /\ c \in open /\ c \notin ToSet(mTextChannels)
  /\ mTextChannels' = Append(mTextChannels, c)
  /\ onTextChannelAvailable(c)
  /\ UNCHANGED <<telepathy, handled, registered, user, chatType, completed, subscribed, requests, job, acks>>

\* ChatManager::onChannelObserverUnregistered(); a new observer is told of the
\* channels that exist.
Unregister ==
  /\ registered /\ registered' = FALSE
  /\ mTextChannels' = <<>>
  /\ UNCHANGED <<telepathy, handled, entry, job, acks>>

Register ==
  /\ ~registered /\ registered' = TRUE
  /\ UNCHANGED <<telepathy, handled, mTextChannels, entry, job, acks>>

\* The channel is dispatched to the handler: TextHandler::onTextChannelAvailable().
Dispatch(c) ==
  /\ c \in open \ handled
  /\ handled' = handled \cup {c}
  /\ UNCHANGED <<telepathy, registered, mTextChannels, entry, job, acks>>

\* A new channel of account a, with its members.  Another one of the same room
\* would be a second channel for the same target.
Opens(a, c) ==
  /\ AccountOf[c] = a /\ c \notin open
  /\ \A j \in Jobs : job[j].channel # c
  /\ chatType = "room" => \A d \in Open(a) : RoomOf[d] # RoomOf[c]
  /\ open' = open \cup {c}
  /\ role' = [role EXCEPT ![c] = [p \in Contacts |-> "in"]]
  /\ UNCHANGED <<active, unread>>

\* The peer writes.
Opened(c) ==
  /\ AccountOf[c] \in active /\ Opens(AccountOf[c], c)
  /\ UNCHANGED <<handled, registered, mTextChannels, entry, job, acks>>

\* A request of the entry that nobody listens to is served, by a new channel, in
\* a new room if it was made without an id, or by one that exists
\* (ensureTextChat(), ensureTextChatroom()), or fails.
RequestServed(a) ==
  /\ requests[a] > 0
  /\ requests' = [requests EXCEPT ![a] = @ - 1]
  /\ \/ UNCHANGED telepathy
     \/ a \in active /\ \E c \in Channels : Opens(a, c)
  /\ UNCHANGED <<handled, registered, mTextChannels, user, chatType, mChatId, completed, subscribed,
                 mChannels, listed, shared, job, acks>>

\* A job ends, with a channel or without; one that failed to send has a channel.
\* The channel of a room is that of the id it was started with, or a new one.
JobEnds(j) ==
  /\ job[j].state = "Running"
  /\ \/ job' = [job EXCEPT ![j].state = "Failed"] /\ UNCHANGED telepathy
     \/ \E result \in {"Finished", "Failed"}, c \in Channels :
          /\ \/ /\ c \in Open(job[j].account) /\ UNCHANGED telepathy
                /\ chatType = "room" => job[j].room = RoomOf[c]
             \/ /\ job[j].account \in active /\ Opens(job[j].account, c)
                /\ chatType = "room" => job[j].room \in {None, RoomOf[c]}
          /\ job' = [job EXCEPT ![j].state = result, ![j].channel = c]
  /\ UNCHANGED <<handled, registered, mTextChannels, entry, acks>>

\* The channels C are invalidated: TextHandler::onTextChannelInvalidated(),
\* ChatManager::onChannelInvalidated() and ChatEntry::onChannelInvalidated(),
\* which clears the participants even if the entry has another channel.
Invalidated(C) ==
  /\ open' = open \ C
  /\ unread' = {m \in unread : ChannelOf[m] \notin C}
  /\ role' = [c \in Channels |-> IF c \in C THEN [p \in Contacts |-> "out"] ELSE role[c]]
  /\ handled' = handled \ C
  /\ mTextChannels' = Keep(mTextChannels, Channels \ C)
  /\ mChannels' = Keep(mChannels, Channels \ C)
  /\ IF mChannels' = mChannels THEN UNCHANGED <<listed, shared>>
     ELSE listed' = NoLists /\ shared' = (mChannels' # <<>>)

\* It is closed from outside, or by leaveChat() or destroyRoom() of the entry
\* through the handler.
Closed(c) ==
  /\ c \in open
  /\ Invalidated({c})
  /\ UNCHANGED <<active, registered, user, chatType, mChatId, completed, subscribed, requests, job, acks>>

\* activeChanged() of an account. One that goes off line loses its channels.
ActiveChanged(a) ==
  /\ \/ /\ a \in active
        /\ active' = active \ {a}
        /\ Invalidated(Open(a))
        /\ UNCHANGED requests
     \/ /\ a \notin active
        /\ active' = active \cup {a}
        /\ onAccountActiveChanged(a)
        /\ UNCHANGED <<open, role, unread, handled, mTextChannels, mChannels, listed, shared>>
  /\ UNCHANGED <<registered, user, chatType, mChatId, completed, subscribed, job, acks>>

\* Seeded bug: who joins the room stays among those that are asked to.
Joined_Pending(lists, p) == [lists EXCEPT !.in = @ \cup {p}]

\* Participants that become members are pending no more.
Joined(lists, p) ==
  [local |-> lists.local \ {p}, remote |-> lists.remote \ {p}, in |-> lists.in \cup {p}]

\* onGroupMembersChanged()
onGroupMembersChanged(p, to) ==
  CASE to = "in" -> Joined(listed, p)
    [] to = "out" -> [local |-> listed.local \ {p}, remote |-> listed.remote \ {p},
                      in |-> listed.in \ {p}]
    [] to = "local" -> [listed EXCEPT !.local = @ \cup {p}]
    [] to = "remote" -> [listed EXCEPT !.remote = @ \cup {p}]

\* Somebody is invited to a room, asks to be let in, joins or leaves, by
\* inviteParticipants() and removeParticipants() of the entry or otherwise.
MembersChanged(c, p, to) ==
  /\ chatType = "room" /\ c \in open
  /\ to # role[c][p] /\ (to \in {"local", "remote"} => role[c][p] = "out")
  /\ role' = [role EXCEPT ![c][p] = to]
  /\ listed' = IF c \in ToSet(mChannels) THEN onGroupMembersChanged(p, to) ELSE listed
  /\ UNCHANGED <<active, open, unread, handled, registered, mTextChannels, user, chatType, mChatId,
                 completed, subscribed, mChannels, shared, requests, job, acks>>
-----------------------------------------------------------------------------
(* Acknowledgements *)

\* Messages that are to be acknowledged.
Waiting == ToSet(mMessagesToAck) \cup UNION {ToSet(calls[i]) : i \in DOMAIN calls}

MessageArrives(m) ==
  /\ user = "reads" /\ ChannelOf[m] \in open /\ m \notin unread \cup Waiting
  /\ unread' = unread \cup {m}
  /\ UNCHANGED <<active, open, role, handled, registered, mTextChannels, entry, job, acks>>

\* acknowledgeMessage(): the timer of 25 ms starts anew.
acknowledgeMessage(m) ==
  /\ m \in unread \ Waiting
  /\ mMessagesToAck' = Append(mMessagesToAck, m)
  /\ UNCHANGED <<telepathy, handled, registered, mTextChannels, entry, job, calls>>

\* Seeded bug: the call replaces the one that was not served yet.
Sent_Replaces(s) == <<s>>

\* The call goes out behind the others.
Sent(s) == Append(calls, s)

\* onAckTimerTriggered()
onAckTimerTriggered ==
  /\ mMessagesToAck # <<>>
  /\ calls' = Sent(mMessagesToAck)
  /\ mMessagesToAck' = <<>>
  /\ UNCHANGED <<telepathy, handled, registered, mTextChannels, entry, job>>

\* existingChannels(): the channels the handler finds for a message, which names
\* the account and the contacts, or the room.
existingChannels(m) ==
  {c \in handled : /\ AccountOf[c] = AccountOf[ChannelOf[m]]
                   /\ chatType = "room" => RoomOf[c] = RoomOf[ChannelOf[m]]}

\* TextHandler::acknowledgeMessages(): the first message without a channel ends
\* the loop.
Served(s) ==
  LET ends == {i \in DOMAIN s : existingChannels(s[i]) = {}}
  IN {s[i] : i \in {k \in DOMAIN s : \A e \in ends : k < e}}

acknowledgeMessages ==
  /\ calls # <<>>
  /\ calls' = Tail(calls)
  /\ unread' = {m \in unread : ChannelOf[m] \notin handled \/ m \notin Served(Head(calls))}
  /\ UNCHANGED <<active, open, role, handled, registered, mTextChannels, entry, job, mMessagesToAck>>

\* acknowledgeAllMessages(), of the conversation on account a.
acknowledgeAllMessages(a) ==
  /\ unread' = {m \in unread : \/ ChannelOf[m] \notin handled \/ AccountOf[ChannelOf[m]] # a
                               \/ chatType = "room" /\ RoomOf[ChannelOf[m]] # mChatId}
  /\ UNCHANGED <<active, open, role, handled, registered, mTextChannels, entry, job, acks>>
-----------------------------------------------------------------------------
Next ==
  \/ Complete \/ Register \/ Unregister \/ onAckTimerTriggered \/ acknowledgeMessages
  \/ \E j \in Jobs : StartJob(j) \/ JobEnds(j) \/ JobHeard(j)
  \/ \E c \in Channels : Observe(c) \/ Dispatch(c) \/ Opened(c) \/ Closed(c)
  \/ \E c \in Channels, p \in Contacts, to \in Role : MembersChanged(c, p, to)
  \/ \E a \in Accounts : ActiveChanged(a) \/ RequestServed(a) \/ acknowledgeAllMessages(a)
  \/ \E m \in Messages : acknowledgeMessage(m) \/ MessageArrives(m)

\* The channel dispatcher tells a registered observer of every channel.
Fairness == \A c \in Channels : WF_vars(Observe(c))

Spec == Init /\ [][Next]_vars /\ Fairness
-----------------------------------------------------------------------------
(* Properties *)

\* Once it is complete, an entry has every channel its process knows of the chat
\* with its contacts, or of its room on its account, and has it exactly once,
\* whether it came before, by itself or with a job (chatentry.cpp:91-122, 223-252,
\* 457-506 and 536-623); a room with an account has channels of that account only.
\* A room without an id has none that it did not start (chatmanager.cpp:238-247).
EntryHasItsChannels ==
  /\ ToSet(mChannels) \subseteq open /\ IsInjective(mChannels)
  /\ completed /\ chatType = "contact" => ToSet(mTextChannels) \subseteq ToSet(mChannels)
  /\ chatType = "room" /\ mAccountId # None =>
       /\ \A c \in ToSet(mChannels) : AccountOf[c] = mAccountId
       /\ completed =>
            \A c \in ToSet(mTextChannels) :
              RoomOf[c] = mChatId /\ AccountOf[c] = mAccountId => c \in ToSet(mChannels)

\* The three lists show who is in the room, or may come in, and nobody twice,
\* through invitations, joins and rooms that are closed and opened again, as long
\* as the entry of a room has one channel: with several they follow the members of
\* all, and when one of several closes the entry shows nobody
\* (chatentry.cpp:124-167, 674-720 and 787-813).
ParticipantsAreMembers ==
  mChannels # <<>> /\ ~shared /\ (chatType = "room" => Len(mChannels) = 1) =>
    listed = ListsOf(Last(mChannels), role)

\* The channel of a job reaches the entry although the job is reported as
\* failed when its end overtakes the observer (chatentry.cpp:105-109 and 235-239).
\* It does not when it made the room and the entry has no id by then, as an empty
\* id matches no channel and only addChannel() would set it (chatmanager.cpp:239
\* and chatentry.cpp:616-618), or has the id of another room.
JobsChannelArrives ==
  \A j \in Jobs, c \in Channels :
    (chatType # "none" /\ job[j].state \in {"Finished", "Failed"} /\ job[j].channel = c) ~>
      \/ c \in ToSet(mChannels) \/ c \notin open \/ ~registered
      \/ chatType = "room" /\ mChatId # RoomOf[c]

\* An acknowledgement is not lost on its way: it is collected, sent and served,
\* also when the handler finds several channels for it, or the handler does not
\* know the channel of the message, or finds none for one that is not behind it in
\* the same call, which makes it drop the rest of the call (texthandler.cpp:102-106).
AcksAreServed ==
  [][\A m \in Waiting \ Waiting' :
       \/ m \notin unread' \/ ChannelOf[m] \notin handled
       \/ \E i, k \in DOMAIN Head(calls) :
            k <= i /\ Head(calls)[i] = m /\ existingChannels(Head(calls)[k]) = {}]_vars
=============================================================================
