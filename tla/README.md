# Formal models of telephony-service

telephony-service is the set of processes that sit between Telepathy and the
phone shell: it answers and rejects calls, owns the call and text channels,
sends messages, routes audio, and tells the user about missed calls, messages
and network requests. This directory holds TLA+ models of its core logic, the
TLC configurations that check them and the theorems TLAPS proves about them.

## Inventory

### Processes

* **approver** (`approver/`): Telepathy approver. Gets each new channel as a
  dispatch operation, prompts for incoming calls with one snap-decision
  notification, rings, and hands the channel to the handler or claims and hangs
  it up.
* **handler** (`handler/`): Telepathy handler. Owns call and text channels,
  offers call and message operations on D-Bus (`com.canonical.TelephonyServiceHandler`),
  runs message jobs, drives tones, audio routing and the proximity sensor.
* **indicator** (`indicator/`): Telepathy observer. Keeps the messaging menu
  (messages, missed calls, voicemail), notifications, USSD dialogs and
  authentication failures.
* **libtelephonyservice** (`libtelephonyservice/`): code shared by the three and
  by the QML plugin: account list and readiness, call and chat managers, channel
  observer, contact matching, tones.
* **Ubuntu/** QML plugins: thin wrappers over the library, participants model,
  presence requests, phone number formatting.

They share no memory. They meet through Telepathy (channels are seen by the
observer, the approver and the handler, in an order the channel dispatcher
chooses), through the D-Bus interfaces of the handler, the approver and the
indicator, and through AccountsService. Inside a process everything runs on one
Qt event loop, except the ringtone worker and the PulseAudio worker, which have
threads of their own fed by queued calls.

### Components, their state, their operations and what makes them correct

| component | state | operations and events | what must hold |
|---|---|---|---|
| Approver | `mDispatchOps`, `mChannels` (pending operations), `mPendingSnapDecision`, settle timer, sounds | AddDispatchOperation, channel ready, contact fetched, claim/hangup finished, call state changed, buttons, D-Bus, media key, power key | nothing rings without a prompt; buttons act on their call; a claimed call is hung up; ended calls are forgotten |
| Handler contexts | `mContexts`, `mReadyRequests` | handleChannels, channel ready | each invocation is answered once, each channel delivered once |
| CallHandler | `mCallChannels`, `mCallAgents`, `mClosingChannels`, `mHangupRequested`, tones | hangUp, hold, mute, conference, channel invalidated, state changed | tones follow the call; the call-ended tone is for calls the user did not hang up |
| DTMF queue | `dtmfString`/`pendingDTMF` per channel, tone timer | sendDTMF, stop, playNext, timer | digits are sent once, in order |
| Message jobs | job status, chat-starting jobs, connection waits | start, channel request finished, connected, send finished, deletion | a job finishes once, a message is sent at most once |
| TextHandler | text channels | start chat, acknowledge, leave, invite, redownload | acknowledgements reach every message named |
| Audio routing | `mChannels`, audio mode, proximity | call available, state changed, PulseAudio events | mode follows the calls; proximity only on the earpiece |
| CallManager / CallEntry | `mCallEntries`, `mConferenceCall` with its `mCalls`, `mNeedsUpdate` | call available, ended, merged, split, held, observer registered anew | a call is in the manager or in the conference, once; the client is told when the foreground call changes |
| ChannelObserver | `mContexts`, `mReadyMap` | observeChannels, ready, invalidated | every invocation is answered, after its last channel |
| TelepathyHelper | accounts, `mPendingAccountReady`, default accounts, their settings | account ready, added, removed, setting changed | `setupReady()` once, after every account; a default account is one there is |
| Accounts (AccountEntry, OfonoAccountEntry, AccountList) | connection, presence, voicemail count | connection, presence and D-Bus signals, queued calls | QML knows which accounts are active; the count is the one of the present connection |
| ChatManager / ChatEntry / TextHandler | `mTextChannels`, `mChannels`, participants, jobs, `mMessagesToAck` | channel available or invalidated, job finished, members changed, acknowledge, timer | an entry has its channels once; its lists show the members; an acknowledgement arrives |
| ParticipantsModel | rows, sorted cache, connections to the entry | setChatEntry, fetchMore, participant added or removed | the rows are the people of the chat, in order |
| GreeterContacts | active user, filter, settings cache, contacts of each user | queries and signals of AccountsService and of the greeter | late answers do not overwrite newer state |
| Ringtone | two players, the queue of a thread | play and stop, answers to blocking calls | no sound after the order to stop; every order is served |
| ContactWatcher | identifier, fields, running search, contact shown | identifier or fields set, search finished, address book changed | the contact shown is one of the identifier |
| USSD, AuthHandler | one dialog id for all SIM cards, requests by dialog | network requests, keys, dialogs closed | a key acts for the card or account of its dialog |
| Missed calls | call states, `mCalls` of the messaging menu | state changed, contact fetched, removed | one menu entry per caller, with the number of missed calls |
| Message notifications | `mUnreadMessages`, menu messages | message received/read, timer, contact fetched | a read message leaves no notification |

### What is hard

Almost every operation is split over an asynchronous reply (Telepathy pending
operations, contact fetch requests, D-Bus calls, timers), and the code between
request and reply usually looks state up again by a key that may have changed:
the account of a channel, the last channel of a list, a single stored pointer.
`PROJECT.json` lists these hazards line by line.

## The modules

| module | models | composes / abstract specification |
|---|---|---|
| `Approver` | `approver/approver.cpp`, `approverdbus.cpp` | channel dispatcher and remote party as environment |
| `ToneGenerator` | `libtelephonyservice/tonegenerator.cpp` | operators on one generator record |
| `CallHandler` | `handler/handler.cpp`, `handler/callhandler.cpp` (dispatch, states, hang-up, tones) | extends `ToneGenerator` |
| `DTMFQueue` | `CallHandler::sendDTMF`, `playNextDTMFTone`, `triggerNextDTMFTone` | - |
| `JobContract` | what a message job promises on the bus | abstract specification |
| `MessageJobs` | `handler/messagejob.cpp`, `messagesendingjob.cpp`, `chatstartingjob.cpp`, and the client side in `chatentry.cpp` | implements `JobContract` |
| `AudioRoute` | `handler/audioroutemanager.cpp`, `qpulseaudioengine.cpp`, `powerdaudiomodemediator.cpp` | two threads and their queues |
| `MissedCalls` | `indicator/callchannelobserver.cpp`, the calls and voicemail of `messagingmenu.cpp`, `voicemailindicator.cpp` | - |
| `MessageNotices` | `indicator/textchannelobserver.cpp`, the messages of `messagingmenu.cpp` | - |
| `Dialogs` | `indicator/ussdindicator.cpp`, `authhandler.cpp`, `libtelephonyservice/ussdmanager.cpp` | the notification daemon |
| `Accounts` | `libtelephonyservice/telepathyhelper.cpp`, `accountentry.cpp`, `ofonoaccountentry.cpp`, `accountlist.cpp` | account manager and modems |
| `CallEntries` | `libtelephonyservice/channelobserver.cpp`, `callmanager.cpp`, `callentry.cpp` | Telepathy's calls and conference |
| `Chats` | `libtelephonyservice/chatentry.cpp`, `chatmanager.cpp`, `handler/texthandler.cpp` | two processes and the bus between them |
| `Participants` | `Ubuntu/Telephony/participantsmodel.cpp` | - |
| `Greeter` | `libtelephonyservice/greetercontacts.cpp`, `ringtone.cpp`, the MMS setting of `telepathyhelper.cpp` | two threads, AccountsService, the greeter |
| `ContactWatcher` | `libtelephonyservice/contactwatcher.cpp` | the address book |
| `Lists` | the loops that keep some elements of a list, and sums of lists | used by `Accounts`, `CallEntries`, `Chats`, `ContactWatcher`, `MissedCalls`, `Participants` |
| `SequenceLemmas` | what the operators on lists return: `Keep`, `Total`, insertions, removals, orders | used by the proofs |
| `PromptsProofs` | theorems about `Approver` and `Dialogs` | - |
| `CallsProofs` | theorems about `CallHandler` and `DTMFQueue` | - |
| `MessageJobsProofs` | theorems about `MessageJobs` and its contract | - |
| `MenuProofs` | theorems about `MessageNotices` and `MissedCalls` | - |
| `LibraryProofs` | theorems about `Accounts`, `CallEntries` and `ContactWatcher` | - |
| `ChatsProofs` | theorems about `Chats` and `Participants` | - |
| `GreeterProofs` | theorems about `Greeter` and `AudioRoute` | - |
| `MC...` | the instances for TLC | see below |

Several `MC` modules check two modules *side by side*: `MCPrompts` (`Approver` and
`Dialogs`), `MCCalls` (`CallHandler` and `DTMFQueue`), `MCMenu` (`MessageNotices` and
`MissedCalls`), `MCLibrary` (`Accounts` and `CallEntries`), `MCChats` (`Chats` and
`Participants`), `MCContacts` (`Greeter` and `ContactWatcher`). The two share no
state, so every interleaving of them is determined by the two taken alone: a
variable `subject`, chosen at the start, says which one a behaviour is about, and the
other stays in an initial state. `MCApprover`, `MCMessageJobs` and `MCAudioRoute`
instantiate one module.

### Conventions

Variables and operators have the names of the source where TLA+ allows it. An
action is one callback of the event loop (a slot, a lambda, a D-Bus method) from
its first to its last statement; what Telepathy, PulseAudio, the contact store
and the user do are the other actions. A pending operation, a contact request
and a timer are each an element of a set, or a counter, that an action adds and
another one takes out, so replies come in any order. Bounds are constants called
`Max...`, and each appears in a guard.

A definition `X_Suffix` in front of a definition `X`, with the comment *Seeded
bug*, is a wrong version of `X` (a missing reset, a dropped guard, a swapped
order) that nothing uses. Putting it in the place of `X` must make a property
fail: `PROJECT.json` says which.

### Approver

`listed` and `arrived` are `mDispatchOps` (a list, in order of arrival),
`channels` the keys of `mChannels`, which are pending operations (`kind` is
"ready", "claim" or "hangup"). `snap` is `mPendingSnapDecision`; `notifs` are the
notifications on the screen, which outlive the handle when a second one replaces
it. `Prompt` is the `EventData` a button carries: the channel it shows and the
operation `dispatchOperation()` found, which differ with two channels of one
account. `ready` are the calls whose initiator and state are known here:
`becomeReady()` may fail, `onChannelReady()` does not look whether it did, and a
call of which nothing is known is one that does not wait for an answer (`Waits`), so
that it is accepted without a prompt. The settle timer, deferred media keys and the queued calls that follow
them are `settling`, `deferredKeys`, `queuedKeys`.

### CallHandler, ToneGenerator

`remote` is what the proxy of a channel knows of its call; `ready` and
`mClosingChannels` are the replies under way; `gen` is the record of the tone
that plays and the timers that will stop it. A tone timer of the source that is
not cancelled (`playCallEndedTone`) is the counter `stops`.

### DTMFQueue

Each chain of callbacks is a *pump* with the key it captured and the stage it
waits in. A chain normally hands over to its successor; a key sent while the
queue runs empty starts a further one, and the properties say that no key is
lost or sent twice although several run.

### MessageJobs, JobContract

A job is created by the D-Bus call, looks for its account and channel, and may
run again when a lambda left connected to `connectedChanged()` fires. The runs
of a job are numbered, and what is under way for a job names its run; `wire`
has the runs in which the connection manager took each part. `JobContract` is what
the D-Bus object of a job shows: a job that found its account connected has a single
run, ends once, and keeps the status and the message id it ended with; one that
waited is "patient", may end again, and then once for each run, with the id of that
run. `MeetsContract` states that `MessageJobs` implements it (`INSTANCE JobContract WITH`
a record for each job, `ContractJob`, which keeps the runs that may still end it).

### AudioRoute

`toWorker` and `toManager` are the queues of the two threads (queued Qt calls in
both directions). A mode of the source is a bit mask; here it is the set of its
bits, and `Preferred` chooses from it in the order of `sinkInfoCallback()`.
`waiting` is a worker that waits for a signal nobody sends, `failed` records that
an operation of PulseAudio failed.

### MissedCalls

`mCalls` is the list of entries, `callerFetches` the entries taken out of it until
their contact is found, `callMenu` the items with the count they show. `Person` says
which numbers `compareIds()` takes for the same. `cleared` is a history variable:
how many calls of each person the history took off the list.

### MessageNotices

A message passes from `timers` (1.5 s) to `fetches` (the observer's contact
request) and `menuFetches` (the menu's) to `menu`, and may be read, lose its
channel or its account in between. `greeter` is chosen at the start, and so is
`unsigned`, the messages without a sender: the timer's slot gives up on them.

### Dialogs

`dialog` is the daemon: the n-th call of `Notify()` gets the id n, or fails and gives
0. `Notify()` blocks the indicator, so the calls sent before it are served first
(`Shut`, `Told`); `CloseNotification()` does not, and is in `closing` until served.
`answers` are the signals of the daemon on their way, which reach both handlers.
`m_notificationId`, `mUSSDRequests` and `mAuthFailureRequests` are the members.

### Accounts

`conn` is the number of an account's present connection, `watched` and `heard` the
connections whose presence and whose D-Bus signals an entry is connected to. The
voicemail count changes off line as well, when no signal tells of it. The calls
an entry queues to the event loop are `events`; each carries the connection it
was made for. `awaited` are the accounts the manager knew when it became ready, and
`ready` those that have emitted `accountReady()`: history variables that
`SetupIsComplete` compares with the counter `mPendingAccountReady`. `toldActive` is
what QML last read.

### CallEntries

`observed`, `mReadyMap` and `mContexts` are the channels of the present observer, those
that are becoming ready and the invocation each came in. `toManager` and `toConference`
are the signal connections of each entry, which a merge and a split have to move.
`told` is what the client read when a signal last made it read: QML bindings are
not re-evaluated otherwise.

### Chats

`handled` is `TextHandler::mChannels` in the handler's process; `mTextChannels` and
`mChannels` are the lists of the manager and of the entry in the application's. `job`
follows a job of the handler and what the entry knows of it. `mMessagesToAck` are the
acknowledgements collected for 25 ms and `calls` those on the bus. `role` is the group
of each channel, and `listed` the three lists of the entry. A user writes or reads
in one behaviour (`user`): acknowledgements and jobs touch different state.

Contacts may have several channels on one account, of which `existingChannels()` finds
all. A room has an id (`RoomOf`) and one channel on an account: an entry looks for its
own id (`mChatId`), and one that is to start a new room has none, so that no channel
matches until a job brings one (`addChannel`).

### Participants

`rows` is `mParticipants`, `mParticipantsCache` what `fetchMore()` has not shown yet;
`positionForItem` is the binary search of the source with its rounding. `connections`
counts how often the slots are connected to an entry.

### Greeter

The main thread is one action per slot. The worker of the ringtone takes one step to
its blocking call and one after the answer, with `mMutex` held in between (`Held`);
slots that take the mutex wait, the slot that only writes the cache does not. `mail`
and `listMail` are the answers and signals of the two services, in their order;
the answer to a blocking call may overtake them. The requests for the list of users,
for a contact and for the entry in front may be answered with an error, a blocking
read is always answered, and the entry in front may be no user of the system
(`Nobody`): the code then leaves the members as they are. `unknown` and `entryUnknown`
are history variables: what was last asked in vain. `lastAsked` is a history variable: the
last order about the sound of calls.

### ContactWatcher

`mRequest` is the one search that runs, `news` the results and signals of the address
book on their way. A search that is cancelled takes its results out of `news`. How a
result is chosen depends on the fields of the account ("tel" compares numbers, "other"
takes the first).

## The runs

| run | expected | properties | what it shows |
|---|---|---|---|
| `prompts` | pass | `SoundHasSnap`, `SnapIsWaiting`, `ButtonsMatch`, `ClaimedIsHungUp`, `ListedIsTracked`, `AcceptNeedsPrompt`, `EndedIsForgotten`, `DialogsWork` | two incoming calls on two SIM cards and a text channel, in the session and in the greeter: nothing sounds without a prompt, buttons act on their call, the phone is not answered without a prompt but for a channel of the same account that does not wait, or that failed to become ready, a declined call is claimed and hung up, ended calls are forgotten. Or: the keys of a USSD or authentication dialog act for its card or account |
| `approver_ended` | violation | `EndedDropsOperations` | pending operations stay in `mChannels` when a declined call ends |
| `approver_carkit` | violation | `AnsweredOnItsOwn` | an outgoing call of the car kit on the same account: the incoming call is answered by itself |
| `calls` | pass | `ToneHasCause`, `OnlyApprovedCalls`, `EndedCallsLeave`, `EachKeyOnce` | an incoming call and a VoIP call placed by the user: tones have a cause and an end, only approved calls are listed, ended calls leave. Or: of four keys of which one is invalid none is lost or sent twice although chains of callbacks overlap |
| `jobs` | pass | `SentWasTaken`, `MeetsContract`, `JobsEnd` | two messages and two accounts: jobs end once for each run and keep their result, and "sent" means taken |
| `jobs_once` | violation | `SentOnce` | a message that waited for its account is sent with each reconnection |
| `menu` | pass | `ReadLeavesMenu`, `NotifiedWasUnread`, `UnreadIsAnnounced`, `MissedAreCounted` | two messages, a class 0 message and a new group: what was read is not announced, what was not read and has a sender is. Or: two calls of one person and one of a hidden number, counted once each |
| `audio` | pass | `SensorOffAtRest`, `RestoredAfterCalls` | an incoming and an outgoing call: the sensor and the cards are at rest after the calls |
| `audio_proximity` | violation | `EarpieceHasProximity` | a call soon after another one has no proximity handling |
| `library` | pass | `SetupIsComplete`, `SetupEnds`, `DefaultsAreKnown`, `ActiveIsTold`, `VoicemailIsKnown`, `OneHome`, `ConferenceHasItsCalls`, `ForegroundIsTold`, `InvocationsEnd` | a SIM and a VoIP account that come, go and reconnect around the set-up, while voicemail comes on line and off. Or: two calls and a conference, observed, merged, split and observed anew |
| `chats` | pass | `EntryHasItsChannels`, `ParticipantsAreMembers`, `JobsChannelArrives`, `AcksAreServed`, `ModelShowsEntry` | a conversation with two channels on one account, or on two accounts, closed and opened again, and rooms with and without an id; jobs and acknowledgements under way. Or: four people in a list that is filled a row at a time |
| `contacts` | pass | `MmsIsCurrent`, `ContactIsCurrent`, `StopsRinging`, `OrdersAreServed`, `ShownIsOfIdentifier` | settings and contacts of two users between two threads and two services, which may answer with an error. Or: a watcher whose identifier, fields and address book change during a search |

The violations are disagreements between the code and a comment or a test of the
repository; `PROJECT.json` quotes it for each. The type invariants (`TypeOK`,
`AccountsTypeOK`, ...) hold in these instances too and are conjuncts of the proved
invariants where there is a proof; the configurations leave them out, as every property
of a run is tested against a seeded bug and a wrong type is not one.

Properties that are stated beside the others, hold, and are left out for the same
reason (they say less than a property that is checked, or are proved):
`HandedOverLeavesList`, `QueueHasPump`, `ResultIsKept`, `CopiesOnlyOfWaiting`, `ItemIsKnown`,
`ActiveIsStamped`, `HangupFlagHasCall`.

Properties one may expect and that do NOT hold of the code are stated with the reason in
their comment, and the checked ones are worded around them: `BackgroundIsTold`
(`CallEntries`), `OldConnectionIsLeft` (`Accounts`), `SilentIsCurrent` (`Greeter`),
`UnknownHasNoName` and `HiddenHasNoContact` (`ContactWatcher`), `ModelShowsAnyEntry`
(`Participants`), `RepliesAreOwn` (`Dialogs`).

### Bounds, and why they are enough

* Two calls, because the mechanisms that go wrong (one snap-decision handle, one
  tone generator, one hang-up flag, "exactly one channel" in the audio router)
  are about *this* call and *another* one. `menu` has a third call,
  from a hidden number.
* `Account <- SecondSim` gives each operation its own account and `OneAccount`
  the same: the approver's lookup by account is right only in the first case.
  `SnapIsWaiting` and `ListedIsTracked` need it and say so (`DistinctAccounts`);
  `ButtonsMatch` and `AcceptNeedsPrompt` hold with call waiting on one card as well, and
  say what may happen there.
* `MaxClaims`, `MaxHangups`, `MaxKeys`, `MaxRuns`: how often the user or the
  network repeats something. Two is enough for a second try to meet the first.
* `MaxStops`: uncancelled tone timers. `MaxPumps = 3` chains of DTMF callbacks at
  a time; a fourth needs a key within the 250 ms of three others.
* `MaxChanges`, `MaxEvents`: disturbances (an item touched, voicemail, a lost
  connection; a card event, an output chosen, a failing operation). `audio` also
  passes with two of them (1.5 million states, three minutes); the shorter bound
  keeps the run fast.
* `menu` has two calls of one person, whose number is written in two ways, because an
  entry that is taken out must be found by the next call; a hidden number is not looked
  up.
* `library`: one account of each kind, since the counter, the default accounts and
  the queue relate one account to another; the SIM has two connections, as an old
  one matters only when there is a new one. Two calls and a conference are the
  least that can be merged and split. The observer is registered twice.
* `chats`: three channels, of which a behaviour has two on one account, so that the
  handler finds both for one message, or one on each of two accounts, each closed and
  opened again. The two on one account are of two rooms when they are of rooms, so that
  a job without an id may make the wrong one. Where two accounts are at hand nobody
  reads, as acknowledgements never look at another account. Four people, two of whose identifiers are not ordered, and pages of
  one row, so that people come and go between any two pages.
* `contacts`: two users, because an answer for the user before must not be taken
  for one of the present; `MaxMoves = 3` changes, so that one may come between a request
  and its answer, and one after. Settings and contacts of the greeter share only the
  active user, so a behaviour changes one or the other (`MCContacts`); where settings
  change, no request fails and a user of the system is in front (`AllIsWell`), which is what
  the contacts of the other behaviours are about. The watcher
  has three identifiers, two of which are normalised to one, and two contacts.
* `prompts`: two dialogs, the least for which one id is too few. The first call is
  offered in any state, the second one while it comes in (`SecondComesIn`).
* `menu`: messages without a sender only matter to messages, so they are there in
  the behaviours that are about those.

The largest instances have 1.7 million (`contacts`) and 1.1 million (`prompts`) distinct
states.

Deadlock is not checked: each call, key, message and change of these instances happens
a bounded number of times, and when all are over nothing remains to be done. That the
system does not stop too early is what the liveness properties say.

### Fairness

Only steps that the program or its libraries take by themselves are fair, never
the user, the network or the remote party:

* `Approver`: Telepathy answers a request, a contact fetch finishes, the settle
  timer and the queued call it makes run.
* `CallHandler`: a channel becomes ready or fails to, a channel that was asked to
  close is invalidated, tone timers fire.
* `MessageJobs`: a channel request and a send operation finish, the client's event
  loop delivers what it is connected to.
* `MessageNotices`: timers fire and contact requests finish. This is the contract of
  QTimer and QContactFetchRequest; a request without a result finishes as well.
* `AudioRoute`: both threads serve their queues and started timers fire. A worker
  that waits for a signal that does not come is modelled as a state in which it
  takes no step, and the property excuses it.
* `Accounts`: the event loop delivers queued calls.
* `CallEntries`: a channel becomes ready, or fails to, as long as it is awaited.
* `Chats`: the channel dispatcher tells a registered observer of a channel that stays.
* `Greeter`: the thread of the ringtone runs and AccountsService answers a blocking
  call. A thread that waits for its own mutex would take no step, fair or not.

All are weak fairness: none of these steps is disabled by another process for a
moment and enabled again. `DTMFQueue`, `MissedCalls`, `Participants` and `Dialogs` state
no liveness and assume no fairness; the fairness of `ContactWatcher` (the address book
answers) is part of its specification but no property needs it.

## The theorems

TLAPS proves the following for every value of the constants that satisfies the
assumptions of the module, which only say what kind of thing each constant is: how
many calls, cards, accounts, messages, users or people there are, and how often each
does what it may do, is arbitrary. Every safety property that a run checks is among
them, without a further hypothesis.

| theorem | property | argument |
|---|---|---|
| `PromptsProofs!TypeCorrect` | `TypeOK` | one lemma per action |
| `PromptsProofs!SoundStopsWithSnap` | `SoundHasSnap` | `SoundHasSnap /\ SnapOnScreen` is inductive: sounds play only while the handle is set, and the snap decision it names is on the screen. `UiStep` is the lemma for the steps that open and close a snap decision |
| `PromptsProofs!ButtonsActOnTheirCall` | `ButtonsMatch` | from `Books`: a lookup returns an operation of the account of the channel that was offered, and a contact request carries what it found |
| `PromptsProofs!ClaimsAreHungUp` | `ClaimedIsHungUp` | inductive with `TypeOK`, by three lemmas: `OwnerStep` (only `Reject` gives a channel to the approver, and a claim is then under way), `ClaimStep` (a claim stays under way until it finishes and the channel is hung up, or the call ends) and `DoneStep` (a hangup or an end is never taken back) |
| `PromptsProofs!HandedOverIsNotListed` | `HandedOverLeavesList` | `Books` |
| `PromptsProofs!PromptedCallWaits` | `SnapIsWaiting` | with `Books` |
| `PromptsProofs!ListedCallsAreTracked` | `ListedIsTracked` | with `Books` |
| `PromptsProofs!NoAnswerWithoutPrompt` | `AcceptNeedsPrompt` | an action property, from `SnapOnScreen` (a prompt that can be answered is on the screen), `WatchedAreReady` (the state of a call that is watched is known) and `Books`; `approver_carkit` shows what the exception it names amounts to |
| `PromptsProofs!DialogsInvariant`, `KeysOfDialogsWork` | `DialogsWork` | `DialogsInv` |
| `CallsProofs!TypeCorrect` | `TypeOK` | the generator stays a generator under every operation (`TonesType`) |
| `CallsProofs!IncomingCallsAreApproved` | `OnlyApprovedCalls` | states of a call never go back (`ApprovedGoesOn`) |
| `CallsProofs!ActiveCallsAreStamped` | `ActiveIsStamped` | inductive with `TypeOK` |
| `CallsProofs!HangupFlagIsCleared` | `HangupFlagHasCall` | inductive as it stands: the flag is set only with one call listed |
| `CallsProofs!TonesHaveCause` | `ToneHasCause` | split into the timed tones (`TimersSet`) and the tones of calls (`CallTone`) |
| `CallsProofs!KeysInvariant`, `DTMFTypesHold`, `KeysAreSentOnce` | `EachKeyOnce` | `KeysInv` |
| `MenuProofs!TypeCorrect` | `TypeOK` | part of the invariant `IInv` |
| `MenuProofs!ReadMessagesLeave` | `ReadLeavesMenu` | `IInv` |
| `MenuProofs!ReadMessagesAreNotAnnounced` | `NotifiedWasUnread` | an action property from `IInv` |
| `MenuProofs!MissedInvariant`, `NoMissedCallIsLost` | `MissedAreCounted` | `MissedInv` |
| `MessageJobsProofs!SentMessagesWereTaken` | `SentWasTaken` | `IInv` |
| `MessageJobsProofs!JobsMeetContract` | `MeetsContract` | refinement: `Init` maps to the initial state of `JobContract` (`InitRefines`), each step to a step or a stutter (`StepRefines`), from `IInv` |
| `MessageJobsProofs!ResultsAreKept` | `ResultIsKept` | an action property, from the same invariant: a job that did not wait and has ended has no run left |
| `LibraryProofs!AccountsInvariant`, `SetupWaitsForAll`, `DefaultAccountsExist`, `QmlKnowsActive`, `VoicemailCountIsRight` | `SetupIsComplete`, `DefaultsAreKnown`, `ActiveIsTold`, `VoicemailIsKnown` | `AccountsInv` |
| `LibraryProofs!EntriesInvariant`, `CallsHaveOneHome`, `MergedCallsAreInConference`, `ForegroundReachesClient` | `OneHome`, `ConferenceHasItsCalls`, `ForegroundIsTold` | `EntriesInv` |
| `LibraryProofs!WatcherInvariant`, `WatcherShowsContact` | `ShownIsOfIdentifier` | `WatcherInv` |
| `ChatsProofs!ChatInvariant`, `EntryKnowsItsChannels`, `ListsShowMembers` | `EntryHasItsChannels`, `ParticipantsAreMembers` | `ChatInv` |
| `ChatsProofs!AcksReachHandler` | `AcksAreServed` | an action property from `ChatInv`: what is served is read, whatever other channels are found (`ServedAreRead`) |
| `ChatsProofs!ParticipantsInvariant`, `ModelListsMembers` | `ModelShowsEntry` | `ParticipantsInv` and the lemma `PositionFits` |
| `GreeterProofs!RingtoneObeys` | `StopsRinging` | `IInv` |
| `GreeterProofs!NewsIsComing`, `MmsFollowsService`, `GreeterShowsContact` | `MmsIsCurrent`, `ContactIsCurrent` | `NewsInv` |
| `GreeterProofs!RouteInvariant`, `SensorGoesOff` | `SensorOffAtRest` | `RouteInv` |

### The inductive invariants

Hardly any of the properties is inductive as it stands, as it speaks of the moment
when nothing is under way, or of one of several places where a thing may be.

**Approver.** `Books` says what the approver keeps of the operations: nothing is listed,
owned by anybody else or asked about before it was offered (`OfferedOnce`); a call that
the approver owns, or that an answer to a claim or a hangup is about, has a claim counted
(`ClaimsCounted`); the call of a notification or of a contact request is watched
(`CallsWatched`); the greeter waits for no contact (`GreeterFetchesNone`); and what was
handed over has left the list (`HandedOverLeavesList`).

**Dialogs.** What both sides believe agrees: a dialog that is being closed known
to the daemon (`ClosingKnown`), and an answer on its way is of a dialog that is closed
(`AnswersEnded`), so that the entry an open dialog needs is taken out by its own
answer only.

**DTMFQueue.** Several chains of callbacks may pull keys from one queue. What makes that
harmless is a single number, the last key that came to the head (`LastPlayed`): the queue
holds exactly the keys after it (`QueueIsTail`), each
key up to it was started or waits in a pump (`PlayedIsCarried`, `StartedByPump`), and no
two pumps carry the same content and key (`OnePumpForKey`).

**MessageNotices.** `ReadLeavesMenu` says nothing of a message that is on its way to the
menu. `IInv` adds where a message may be (`Stages`: nothing is held for a message that was
not received), that what the indicator holds as unread or keeps data for is pending on
its channel (`Unread`), and that the greeter does not wait for contacts
(`GreeterDoesNotWait`; it skips the test for read messages, so a message held back
there would be shown too late).

**MissedCalls.** `MissedInv` adds to the equation of `MissedAreCounted` that the observer
has seen every state of a call (`CallsAreFollowed`; otherwise "Initialised" would not mean
that nobody accepted), and that an entry is about somebody who called on its account
(`Real`). The last is what makes `removeOne()` harmless, which compares the number
only: the first entry with the number is then the one the loop has found
(`TakeOut`). A sum after an insertion and after a removal is
`TotalAppend` and `TotalRemove` of `SequenceLemmas`.

**MessageJobs.** `SentWasTaken` and the refinement both need more than they say. `IInv`
has three parts. `Runs`: each run of a job is counted and waits for one thing (`RunsOnce`),
a job that did not wait has one run, which is over once the job has ended (`OneRun`), and
nothing of a job is under way before it was started (`Begun`). `Wires`: the parts of
each message. `Reports`: a job that was deleted has ended (`DyingEnded`), one that has
ended well has its id (`FinishedIsNamed`), and an answer of the connection manager is to
a part it took in that run (`TakenIsOnWire`). In the refinement every end is a step of the
contract; `OneRun` is what keeps a single job from a second one.

**Accounts.** The counter says how many accounts are awaited, not which; it is right
because of the order of the queue: a call is in it once (`QueuedOnce`), and the calls of
accounts that are waited for are ahead of those that came later (`AwaitedUpTo`), so that
the first `accountReady()` heard are theirs (`CountdownIsRight`). `PresenceIsFollowed`
and `SignalsTell` say that a connection nobody listens to has its call in the queue, and
that the last signal under way carries the count of now.

**CallEntries.** An entry is connected to whoever holds it (`EntriesConnected`), which a
merge, a split and the dissolution of the conference have to keep; entries come from
the present observer, or are dropped with the next channel (`EntriesAreShown`); the
calls in the conference call are merged ones, and nothing is merged before the conference
exists (`MergedCalls`); whoever was announced has an entry, in the conference call once
it is there (`AnnouncedAreListed`).

**ContactWatcher.** What was found, or is shown, is right for the address book of now,
or one of the signals on their way makes the watcher search again (`Upset`). Only one
search is under way (`OneAnswer`).

**Chats.** Nothing that was closed is listed (`KnownAreOpen`), the channel of a job is of
its account (`JobsAreOfAccount`), and a room has one channel on an account
(`OneOnAccount`), which is the contract of Telepathy that the code relies on: when a job
gives a new room its id, the channel it brings is the only one that matches. Contacts
may have any number of channels on an account.

**Participants.** `Fits` says that nobody before a place comes after the item and nobody
behind it before; `PositionFits` that the binary search returns such a place in a list
in order, although it compares twice a round and identifiers without a letter are
not ordered at all. `LookFits` is one round, and the width of the bounds decreases. In
`ParticipantsInv` a list is in order and without repetitions when each two of its
elements are in the relation `Rank`, which insertion, removal and cutting off a page
keep (`ListInsert`, `ListRemove`, `ListParts`).

**Greeter.** `StopsRinging` speaks of an empty queue only. `IInv` says what the
queue holds before that: when the last order was to stop and something rings, or an
order to play waits, an order to stop is behind every order to play (`StopIsComing`);
and the order at the head is the one the thread serves (`ServesHead`), so that the end
of a late answer removes an order to play and never one to stop. `NewsInv` says of each
member of `GreeterContacts` that it is what the service has, or a request for it is
under way, or the last message about it in the mail is good (`MmsMailIsGood`,
`CacheIsKnown`, `CopyIsKnown`, `ContactMailIsGood`, `ContactsAreKnown`, `EntryIsKnown`),
or that it was last asked for in vain.

**AudioRoute.** Without a call or a timer the last request to the worker, on its way or
served, is that of `enable_normal()` (`EndIsRequested`), and a worker whose last
request was that is on the speaker or a wired headset (`EndedIsNormal`), and the last
signal of the worker, on its way or heard, names the output it is on (`ModeIsTold`).
Nothing is claimed once an operation of PulseAudio has failed.

### Induction

The induction theorems of the library take an operator as a parameter, which the provers
cannot instantiate. Where a proof needs induction over numbers or lists it is stated of
sets: a set of numbers that has 0 and with `n` also `n + 1` is `Nat` (`Induction` of
`SequenceLemmas`, from the least element of a set of numbers), and likewise for lists
(`ListInduction`). The recursive definitions of the models are recursive functions, not
RECURSIVE operators, and each has a lemma that a function that satisfies the recursive
equation exists (`KeptStepExists`, `AddingStepExists`, `FindsExists`, ...). Loops that
keep some elements are written with `Keep` of `Lists`, as the operator that `SelectSeq`
takes is out of reach in the same way.

### Checked by TLC only

Liveness (`EndedIsForgotten`, `EndedCallsLeave`, `JobsEnd`, `UnreadIsAnnounced`,
`RestoredAfterCalls`, `SetupEnds`, `InvocationsEnd`, `JobsChannelArrives`,
`OrdersAreServed`): TLAPS does not do fairness and ENABLED. The type invariants of
`AudioRoute`, `Accounts`, `CallEntries`, `Chats`, `Greeter`, `ContactWatcher`,
`MissedCalls` and `Participants` are proved as far as the other theorems need them
(`...Types` in their proofs), which leaves out bounds on counters; `Participants` has
no theorem about a model that is given a second entry, as the code then lists people
who are gone.

## What is not modelled

Formatting, icons, wording and logging; the media plane (CallAgent, Farstream);
files of settings and protocols; start-up of the processes; the QML wrappers. The
channel dispatcher, connection managers, PulseAudio, the contact store and the
notification server are environments: they answer in any order, late, or with an
error, as far as the code has a branch for it, and where it has none but the answer
matters (`becomeReady()` of the approver); a blocking read of a setting is always
answered. Null pointers the code dereferences
are modelled where the state leads there (`crashed`), not for every lookup.
`PROJECT.json` gives the reason for each component, and for each hazard no
property covers.

Behaviour that falls short of what one may expect, and that the properties are
therefore stated around:

* The approver accepts a call whose `becomeReady()` failed without asking anybody, and
  with two calls on one SIM card its buttons may act on the other one.
* A late contact fetch of the approver rings for a call that is gone; a second call
  takes over the single notification handle; the end of one call closes the prompt
  of another.
* A call that had ended before the handler listed it stays in `mCallChannels`, and in
  `mChannels` of the audio router.
* The chains of DTMF callbacks stop for ever if `StoppedTones` comes before the
  signal is connected, and a call without DTMF content never empties its queue.
* Two missed calls while a contact is looked up give two entries with one menu id;
  calls over before they were observed are not counted; removing an entry compares
  the number only, so the entry of another account may go.
* A message without a sender is not announced, nor put in the menu.
* The 2.2 s timer of the audio router puts the next call on the speaker.
* Answering a message from the menu does not mark it read: `onMessageRead()`
  acknowledges the encoded id (textchannelobserver.cpp:832), and the action of a
  new group's notification passes on a null list (119).
* Library: a call that ended before its channel was ready stays in the list of entries,
  such a conference is shown for ever, and the members of a conference that ends around
  them are lost; that a listed call starts to dial is not signalled; a client that
  registers its observer twice would list calls twice. A SIM that loses its connection
  stays connected to the signals of the old one.
* Chats: a job whose end overtakes the observer is reported as failed although its
  channel comes; if it made a new room, the entry never gets the channel; the lists of an
  entry with several channels of rooms follow the members of all; a chat without a type
  never gets a channel; the handler drops what
  follows the first unknown channel in a call of acknowledgements; `acknowledgeAll`
  acknowledges messages that came after it; the two pending lists are exchanged
  (chatentry.cpp:146-155).
* Greeter: the slot writes the cache without `mMutex`, so an older answer of the ringtone
  thread may replace a newer value; the copy of `MmsEnabled` is not read again when the
  greeter shows another user; when the entry in front is no user of the system the user
  before stays active, and the contact shown is his; whether the greeter is active is read before its
  signal is connected.
* Watcher: after "Private Number" a search without a result leaves that name; setting
  a private number leaves the search that runs.
* Participants: giving the model another chat never clears its rows, and a null
  entry leaves the connections of the last one.
* USSD: there is one dialog id for all SIM cards, so only the last dialog can be
  answered, idle on one card closes the dialog of the other, the requests of closed
  dialogs stay, and the text of a closed dialog may be sent as the answer to the next.
  The state of the service is read before its signals are connected.

Not modelled but seen on the way: `accountproperties.cpp:34-40`, where
`allProperties()` returns nothing; `PresenceRequest`, which keeps the presence of the
contact before when a look-up fails; `authhandler.cpp:128`, which dereferences the
account of a dialog, which may have been removed.

## Plan

Order: what the user depends on first (answering, ending, hearing), then messages,
then the shared library.

1. Done: every module of the table above, its runs, and the theorems above.
2. Prove next: that `EndedCallsLeave` and the other liveness properties hold cannot be
   proved here, but the invariants their arguments rest on can (a call that has ended and
   is listed has a reply or an invalidation under way; an invocation that is not answered
   has a channel that is awaited); an abstract specification of the list of calls that
   `CallEntries` implements, as `JobContract` is of the jobs.
3. Model next: a composition of `Approver` and `CallHandler` (the approver's accept and
   hand-over against the handler's check of the state); delivery reports; roles and
   titles of rooms; `PresenceRequest`.
