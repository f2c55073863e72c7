----------------------------- MODULE CallEntries -----------------------------
(***************************************************************************)
(* The calls as a client of the library sees them (dialer, indicator): the *)
(* ChannelObserver that is told of new channels, the CallManager that      *)
(* keeps a CallEntry for each, and the conference call that takes entries  *)
(* over from the manager and gives them back.                              *)
(*                                                                         *)
(* An entry hears its channel through the connections made for it, to the  *)
(* manager or to the conference; the signals the manager then emits are    *)
(* what QML bindings are re-evaluated by. An entry is named by its channel *)
(* since at most one entry of a channel is alive (a client that registers  *)
(* twice without unregistering is not modelled: it would list calls twice).*)
(***************************************************************************)
EXTENDS Lists, SequencesExt

CONSTANTS
  Calls,        \* channels of single calls
  Incoming,     \* those initiated by the peer
  Conference,   \* the channel of a conference, one at a time (callmanager.cpp:317)
  None,         \* no call
  MaxObservers  \* bound: times the client registers its observer

ASSUME CallEntriesAssumption ==
  /\ Incoming \subseteq Calls
  /\ Conference \notin Calls
  /\ None \notin Calls \cup {Conference}
  /\ MaxObservers \in Nat \ {0}

Channels == Calls \cup {Conference}

VARIABLES
  callState,       \* callState() of each channel, "none" before it exists
  held,            \* channels with localHoldState() Held
  merged,          \* conferenceChannels() of the conference
  observers,       \* observers registered so far
  registered,      \* there is a ChannelObserver
  observed,        \* channels the present observer was told of
  mReadyMap,       \* of these, the ones that are becoming ready
  mContexts,       \* the invocation each of these belongs to: its set of channels
  finished,        \* invocations the present observer has answered
  mCallEntries,    \* the manager's entries, in order
  mConferenceCall, \* Conference or None
  mCalls,          \* entries in the conference call
  toManager,       \* channels whose entry is connected to the manager
  toConference,    \* channels whose entry is connected to the conference call
  mNeedsUpdate,
  told             \* what the client last read of the manager's properties

telepathy == <<callState, held, merged>>
observer == <<observers, registered, observed, mReadyMap, mContexts, finished>>
manager == <<mCallEntries, mConferenceCall, mCalls, toManager, toConference, mNeedsUpdate>>
vars == <<telepathy, observer, manager, told>>

\* The type of the state (callmanager.h:110-113, channelobserver.h:60-62).
TypeOK ==
  /\ callState \in [Channels -> {"none", "initialising", "initialised", "active", "ended"}]
  /\ held \in SUBSET Channels
  /\ merged \in SUBSET Calls
  /\ observers \in 0..MaxObservers
  /\ registered \in BOOLEAN
  /\ observed \in SUBSET Channels
  /\ mReadyMap \in SUBSET observed
  /\ mContexts \in [mReadyMap -> SUBSET observed]
  /\ finished \in SUBSET SUBSET observed
  /\ mCallEntries \in Seq(Calls)
  /\ mConferenceCall \in {None, Conference}
  /\ mCalls \in SUBSET Calls
  /\ toManager \in SUBSET Channels
  /\ toConference \in SUBSET Calls
  /\ mNeedsUpdate \in BOOLEAN
  /\ told \in [fg : Channels \cup {None}, bg : Channels \cup {None}, many : BOOLEAN]

Init ==
  /\ callState = [c \in Channels |-> "none"]
  /\ held = {} /\ merged = {}
  /\ observers = 0 /\ registered = FALSE
  /\ observed = {} /\ mReadyMap = {} /\ mContexts = [c \in {} |-> {}] /\ finished = {}
  /\ mCallEntries = <<>> /\ mConferenceCall = None /\ mCalls = {}
  /\ toManager = {} /\ toConference = {}
  /\ mNeedsUpdate = FALSE
  /\ told = [fg |-> None, bg |-> None, many |-> FALSE]

Exists(c) == callState[c] \notin {"none", "ended"}
-----------------------------------------------------------------------------
(* What the manager shows *)

Dialing(c) == c \in Calls \ Incoming /\ callState[c] = "initialised"
isActive(c) == callState[c] = "active"

\* The conference call is shown whatever its state.
activeCalls ==
  (IF mConferenceCall = None THEN <<>> ELSE <<mConferenceCall>>)
    \o Keep(mCallEntries, {c \in Calls : isActive(c) \/ Dialing(c)})

FirstOf(s) == IF s = <<>> THEN None ELSE Head(s)

\* A single call is in the foreground even if it is held.
foregroundCall ==
  IF Len(activeCalls) = 1 THEN Head(activeCalls)
  ELSE FirstOf(Keep(activeCalls, Channels \ held))

backgroundCall ==
  IF Len(activeCalls) = 1 THEN None
  ELSE FirstOf(Keep(activeCalls, held))

hasBackgroundCall == Len(activeCalls) > 1

\* The client reads a property again when its signal is emitted.
Emit(foreground, background, many) ==
  told' = [fg |-> IF foreground THEN foregroundCall' ELSE told.fg,
           bg |-> IF background THEN backgroundCall' ELSE told.bg,
           many |-> IF many THEN hasBackgroundCall' ELSE told.many]

EmitAll == Emit(TRUE, TRUE, TRUE)
Quiet == UNCHANGED told
-----------------------------------------------------------------------------
(* Channels: what connection managers, peers and the user do to them, and  *)
(* the slots of the entries that hear of it                                *)

\* A call is placed or comes in.
NewCall(c) ==
  /\ callState[c] = "none"
  /\ callState' = [callState EXCEPT ![c] = IF c \in Incoming THEN "initialised" ELSE "initialising"]
  /\ UNCHANGED <<held, merged, observer, manager, told>>

\* A conference is made of active calls.
NewConference(members) ==
  /\ callState[Conference] = "none"
  /\ members # {} /\ \A c \in members : isActive(c)
  /\ callState' = [callState EXCEPT ![Conference] = "active"]
  /\ merged' = members
  /\ UNCHANGED <<held, observer, manager, told>>

\* onCallStateChanged() for Initialised: dialingChanged() is all that is
\* emitted, and the manager is not connected to it.
Initialised(c) ==
  /\ callState[c] = "initialising"
  /\ callState' = [callState EXCEPT ![c] = "initialised"]
  /\ UNCHANGED <<held, merged, observer, manager, told>>

\* onCallStateChanged() for Active: activeChanged() is passed on as
\* foregroundCallChanged() and hasBackgroundCallChanged().
Answered(c) ==
  /\ callState[c] = "initialised"
  /\ callState' = [callState EXCEPT ![c] = "active"]
  /\ UNCHANGED <<held, merged, observer, manager>>
  /\ IF c \in toManager THEN Emit(TRUE, FALSE, TRUE) ELSE Quiet

\* localHoldStateChanged(): heldChanged() is passed on for both calls.
HoldChanged(c) ==
  /\ isActive(c)
  /\ held' = IF c \in held THEN held \ {c} ELSE held \cup {c}
  /\ UNCHANGED <<callState, merged, observer, manager>>
  /\ IF c \in toManager THEN Emit(TRUE, TRUE, FALSE) ELSE Quiet

Without(s, c) == Keep(s, Calls \ {c})

\* Seeded bug: nobody is told.
EntryLeavesManager_Quiet(c) ==
  /\ IF c = mConferenceCall
     THEN mConferenceCall' = None /\ mCalls' = {} /\ toConference' = {} /\ UNCHANGED mCallEntries
     ELSE mCallEntries' = Without(mCallEntries, c) /\ UNCHANGED <<mConferenceCall, mCalls, toConference>>
  /\ toManager' = toManager \ {c}
  /\ UNCHANGED <<mNeedsUpdate, told>>

\* CallManager::onCallEnded(). What the conference call held is not given back.
\* deleteLater() ends the entry's connections.
EntryLeavesManager(c) ==
  /\ IF c = mConferenceCall
     THEN /\ mConferenceCall' = None
          /\ mCalls' = {} /\ toConference' = {}
          /\ UNCHANGED mCallEntries
     ELSE /\ mCallEntries' = Without(mCallEntries, c)
          /\ UNCHANGED <<mConferenceCall, mCalls, toConference>>
  /\ toManager' = toManager \ {c}
  /\ UNCHANGED mNeedsUpdate
  /\ EmitAll

\* CallEntry::onInternalCallEnded(), of the conference call.
EntryLeavesConference(c) ==
  /\ mCalls' = mCalls \ {c}
  /\ toConference' = toConference \ {c}
  /\ UNCHANGED <<mCallEntries, mConferenceCall, toManager, mNeedsUpdate, told>>

\* onCallStateChanged() for Ended: callEnded() goes to whom the entry is
\* connected to.
Ended(c) ==
  /\ Exists(c)
  /\ callState' = [callState EXCEPT ![c] = "ended"]
  /\ held' = held \ {c}
  /\ UNCHANGED <<merged, observer>>
  /\ CASE c \in toManager -> EntryLeavesManager(c)
       [] c \in toConference -> EntryLeavesConference(c)
       [] OTHER -> UNCHANGED <<manager, told>>
-----------------------------------------------------------------------------
(* The conference call *)

\* Seeded bug: the entries stay connected to the manager.
takeCalls_Connected(channels) ==
  /\ mCallEntries' = Keep(mCallEntries, Calls \ channels)
  /\ toManager' = toManager

\* CallManager::takeCalls(): the manager lets go of the entries of `channels`.
takeCalls(channels) ==
  /\ mCallEntries' = Keep(mCallEntries, Calls \ channels)
  /\ toManager' = toManager \ (ToSet(mCallEntries) \cap channels)

\* onConferenceChannelMerged(): an entry the manager does not have yet will
\* find the conference when it arrives.
Merged(c) ==
  /\ Exists(Conference) /\ isActive(c) /\ c \notin merged
  /\ merged' = merged \cup {c}
  /\ UNCHANGED <<callState, held, observer, mConferenceCall, mNeedsUpdate>>
  /\ IF mConferenceCall = Conference
     THEN /\ takeCalls({c})
          /\ mCalls' = mCalls \cup ({c} \cap ToSet(mCallEntries))
          /\ toConference' = toConference \cup ({c} \cap ToSet(mCallEntries))
          /\ EmitAll
     ELSE UNCHANGED <<mCallEntries, toManager, mCalls, toConference, told>>

\* CallManager::addCalls()
addCalls(c) ==
  /\ mCallEntries' = IF c \in ToSet(mCallEntries) THEN mCallEntries ELSE Append(mCallEntries, c)
  /\ toManager' = toManager \cup {c}

\* Seeded bug: the conference call keeps the entry as well.
Removed_Kept(c) ==
  /\ Exists(Conference) /\ c \in merged
  /\ merged' = merged \ {c}
  /\ UNCHANGED <<callState, held, observer, mConferenceCall, mNeedsUpdate, mCalls, toConference>>
  /\ IF c \in mCalls THEN addCalls(c) /\ EmitAll ELSE UNCHANGED <<mCallEntries, toManager, told>>

\* onConferenceChannelRemoved(): a call was split off, or is over.
Removed(c) ==
  /\ Exists(Conference) /\ c \in merged
  /\ merged' = merged \ {c}
  /\ UNCHANGED <<callState, held, observer, mConferenceCall, mNeedsUpdate>>
  /\ IF c \in mCalls
     THEN /\ addCalls(c)
          /\ mCalls' = mCalls \ {c}
          /\ toConference' = toConference \ {c}
          /\ EmitAll
     ELSE UNCHANGED <<mCallEntries, toManager, mCalls, toConference, told>>
-----------------------------------------------------------------------------
(* The observer *)

\* registerChannelObserver(): a new observer, which the channel dispatcher
\* tells of the channels that exist already (shouldRecover).
Register ==
  /\ ~registered /\ observers < MaxObservers
  /\ registered' = TRUE
  /\ observers' = observers + 1
  /\ UNCHANGED <<telepathy, observed, mReadyMap, mContexts, finished, manager, told>>

\* unregisterChannelObserver(): the observer goes with its pending requests and
\* invocations; the entries are kept to avoid flickering.
Unregister ==
  /\ registered
  /\ registered' = FALSE
  /\ observed' = {} /\ mReadyMap' = {} /\ mContexts' = [c \in {} |-> {}] /\ finished' = {}
  /\ mNeedsUpdate' = TRUE
  /\ UNCHANGED <<telepathy, observers, mCallEntries, mConferenceCall, mCalls, toManager,
                 toConference, told>>

\* ChannelObserver::observeChannels(): one invocation for some channels of an
\* account, of a supported protocol.
ObserveChannels(channels) ==
  /\ registered
  /\ channels # {} /\ channels \cap observed = {} /\ \A c \in channels : Exists(c)
  /\ observed' = observed \cup channels
  /\ mReadyMap' = mReadyMap \cup channels
  /\ mContexts' = [c \in mReadyMap' |-> IF c \in channels THEN channels ELSE mContexts[c]]
  /\ UNCHANGED <<telepathy, observers, registered, finished, manager, told>>

\* Seeded bug: the invocation is only answered when no other one is pending.
checkContextFinished_Any(c) ==
  /\ mContexts' = [d \in mReadyMap' |-> mContexts[d]]
  /\ finished' = IF mReadyMap' # {} THEN finished ELSE finished \cup {mContexts[c]}

\* ChannelObserver::checkContextFinished()
checkContextFinished(c) ==
  /\ mContexts' = [d \in mReadyMap' |-> mContexts[d]]
  /\ finished' = IF \E d \in mReadyMap' : mContexts[d] = mContexts[c]
                 THEN finished ELSE finished \cup {mContexts[c]}

\* What the manager has when a channel arrives: nothing, on the first call of
\* a new observer.
Kept(s) == IF mNeedsUpdate THEN <<>> ELSE s

\* CallManager::onCallChannelAvailable(). Old entries are deleted with their
\* connections; calls in an old conference call are left to themselves.
onCallChannelAvailable(c) ==
  LET entries == Kept(mCallEntries)
      conference == IF mNeedsUpdate THEN None ELSE mConferenceCall
      calls == IF mNeedsUpdate THEN {} ELSE mCalls
      connected == IF mNeedsUpdate THEN {} ELSE toManager
      taken == ToSet(entries) \cap merged
  IN /\ mNeedsUpdate' = FALSE
     /\ CASE c = Conference ->
               /\ mConferenceCall' = c
               /\ mCallEntries' = Keep(entries, Calls \ taken)
               /\ mCalls' = taken /\ toConference' = taken
               /\ toManager' = (connected \ taken) \cup {c}
          [] conference # None /\ c \in merged ->
               /\ mConferenceCall' = conference
               /\ mCallEntries' = entries
               /\ mCalls' = calls \cup {c} /\ toConference' = calls \cup {c}
               /\ toManager' = connected
          [] OTHER ->
               /\ mConferenceCall' = conference
               /\ mCallEntries' = Append(entries, c)
               /\ mCalls' = calls /\ toConference' = calls
               /\ toManager' = connected \cup {c}
     /\ EmitAll

\* onCallChannelReady(): becomeReady() has finished, with or without an error.
\* The constructor of CallEntry reports the present state of the call before
\* anybody is connected to the entry, so one that is over is not heard of again.
CallChannelReady(c) ==
  /\ c \in mReadyMap
  /\ mReadyMap' = mReadyMap \ {c}
  /\ UNCHANGED <<telepathy, observers, registered, observed>>
  /\ onCallChannelAvailable(c)
  /\ checkContextFinished(c)
-----------------------------------------------------------------------------
Next ==
  \/ \E c \in Calls :
       NewCall(c) \/ Initialised(c) \/ Answered(c) \/ Merged(c) \/ Removed(c)
  \/ \E c \in Channels : HoldChanged(c) \/ Ended(c) \/ CallChannelReady(c)
  \/ \E members \in SUBSET Calls : NewConference(members)
  \/ Register \/ Unregister
  \/ \E channels \in SUBSET Channels : ObserveChannels(channels)

\* A request to become ready finishes one way or the other.
Fairness == \A c \in Channels : WF_vars(CallChannelReady(c))

Spec == Init /\ [][Next]_vars /\ Fairness
-----------------------------------------------------------------------------
(* Properties *)

\* Calls the manager has been given by the present observer, and that are not
\* in a conference that ended around them (what such a conference held is lost).
Announced ==
  {c \in Calls : /\ c \in observed \ mReadyMap
                 /\ Exists(c)
                 /\ ~(c \in merged /\ callState[Conference] = "ended")}

\* However channels become ready, are merged, split and observed anew, every
\* call the client was told of is in exactly one place, the manager or the
\* conference call, once, and its end is reported there and nowhere else
\* (callmanager.cpp:93-130 and 303-343, callentry.cpp:132-168).
OneHome ==
  /\ IsInjective(mCallEntries)
  /\ ToSet(mCallEntries) \cap mCalls = {}
  /\ \A c \in Announced : c \in ToSet(mCallEntries) \cup mCalls
  /\ toManager \cap Calls = ToSet(mCallEntries)
  /\ toConference = mCalls

\* While the conference call is shown, the calls in it are those that Telepathy
\* says are merged: onConferenceChannelMerged(), onConferenceChannelRemoved()
\* and onCallChannelAvailable() miss none, in whatever order they come.
ConferenceHasItsCalls ==
  mConferenceCall = Conference /\ callState[Conference] # "ended" =>
    Announced \cap merged \subseteq mCalls /\ mCalls \subseteq merged

\* The client is told when the foreground call changes, and whether there is
\* another one, across answers, ends, merges and new observers. (A call that
\* starts to dial after it was listed is not reported until it is answered.)
ForegroundIsTold ==
  (\A c \in ToSet(mCallEntries) : ~Dialing(c)) =>
    told.fg = foregroundCall /\ told.many = hasBackgroundCall

\* backgroundCallChanged() is declared as what notifies of a change of
\* backgroundCall (callmanager.h:40-42).
BackgroundIsTold ==
  (\A c \in ToSet(mCallEntries) : ~Dialing(c)) => told.bg = backgroundCall

\* A registered observer answers every invocation of ObserveChannels, on which
\* the channel dispatcher waits before it goes on, though one invocation may
\* bring several channels that end or become ready at different times.
InvocationsEnd ==
  \A c \in Channels :
    c \in mReadyMap ~> (~registered \/ \E s \in finished : c \in s)
=============================================================================
