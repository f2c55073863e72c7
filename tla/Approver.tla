------------------------------ MODULE Approver ------------------------------
(***************************************************************************)
(* The telephony-service-approver process (src/approver/approver.cpp): a   *)
(* Telepathy approver that is offered every new channel as a "dispatch     *)
(* operation", prompts the user for incoming calls with a snap-decision    *)
(* notification, rings, and then either hands the channel to the handler   *)
(* process or claims it and hangs it up.                                   *)
(*                                                                         *)
(* Every dispatch operation carries exactly one channel ("assume there is  *)
(* just one channel in the dispatchOp for calls", approver.cpp:403), so an *)
(* element of Ops names the operation and its channel alike.               *)
(***************************************************************************)
EXTENDS Naturals, Sequences

CONSTANTS
  Calls,        \* dispatch operations that carry a call channel
  Texts,        \* dispatch operations that carry a text channel
  Outgoing,     \* the calls initiated by the user, outside Telepathy (car kit)
  Handleable,   \* the texts whose possibleHandlers() name our handler
  Accounts,
  Account,      \* the account of each operation
  Supported,    \* the accounts whose protocol the ProtocolManager supports
  MaxClaims,    \* bound: claims of one operation
  MaxKeys,      \* bound: media key events under way at the same time
  None

Ops == Calls \cup Texts

ASSUME ApproverAssumption ==
  /\ Calls \cap Texts = {}
  /\ Outgoing \subseteq Calls
  /\ Handleable \subseteq Texts
  /\ Account \in [Ops -> Accounts]
  /\ Supported \subseteq Accounts
  /\ MaxClaims \in Nat \ {0}
  /\ MaxKeys \in Nat \ {0}
  /\ None \notin [call : Calls, op : Ops]

CallState == {"initialising", "initialised", "accepted", "active", "ended"}

\* Asynchronous Telepathy operations the approver waits for (Tp::PendingOperation).
PendingOp ==
  [kind : {"ready"}, chan : Calls, n : {0}]
    \cup [kind : {"claim"}, chan : Ops, n : 1..MaxClaims]
    \cup [kind : {"hangup"}, chan : Calls, n : 1..MaxClaims]
Reply     == [op : PendingOp, error : BOOLEAN]
\* What a notification's buttons know: the operation they act on (EventData)
\* and the call the notification is about.
Prompt    == [call : Calls, op : Ops]

VARIABLES
  (* the rest of the system *)
  greeterMode,  \* GreeterContacts::isGreeterMode(), for the life of the process
  callState,    \* state of each call channel
  owner,        \* who the channel dispatcher gave each channel to
  accepted,     \* calls on which accept() was called
  hungUp,       \* calls on which the approver called hangup()
  endAsked,     \* calls the approver asked the handler to end
  busySent,     \* calls whose caller was sent a "busy" text message
  notifs,       \* prompts on the screen
  replies,      \* pending operations that have not finished yet
  answered,     \* the result of each AddDispatchOperation invocation
  claims,       \* number of claims made of each operation
  (* the approver *)
  arrived,      \* operations ever appended to mDispatchOps, in order
  listed,       \* operations in mDispatchOps: those of arrived not yet removed
  channels,     \* keys of mChannels; the value of op is op.chan
  ready,        \* calls whose initiator and state are known here
  watched,      \* calls whose callStateChanged() is connected
  fetches,      \* contact fetch requests under way, with what their lambda captured
  snap,         \* mPendingSnapDecision
  sounds,       \* ringtone, waiting tone and vibration timer that are on
  settling,     \* mSettleTimer is running
  deferredKeys, \* media keys connected to the settle timer's timeout
  queuedKeys,   \* queued processHandleMediaKey() calls
  crashed       \* a null channel was dereferenced

env   == <<callState, owner, accepted, hungUp, endAsked, busySent, answered, claims>>
ui    == <<notifs, snap, sounds>>
keys  == <<settling, deferredKeys, queuedKeys>>
books == <<arrived, listed, channels, ready, watched, fetches>>
vars  == <<greeterMode, env, replies, ui, keys, books, crashed>>

\* The type of the state (approver.h:82-91). Init chooses greeterMode for good.
TypeOK ==
  /\ callState \in [Calls -> CallState]
  /\ owner \in [Ops -> {"dispatcher", "handler", "approver"}]
  /\ accepted \in SUBSET Calls
  /\ hungUp \in SUBSET Calls
  /\ endAsked \in SUBSET Calls
  /\ busySent \in SUBSET Ops
  /\ notifs \in SUBSET Prompt
  /\ replies \in SUBSET Reply
  /\ answered \in [Ops -> {"no", "finished", "error"}]
  /\ claims \in [Ops -> 0..MaxClaims]
  /\ arrived \in Seq(Ops)
  /\ listed \in SUBSET Ops
  /\ channels \in SUBSET PendingOp
  /\ ready \in SUBSET Calls
  /\ watched \in SUBSET Calls
  /\ fetches \in SUBSET Prompt
  /\ snap \in Prompt \cup {None}
  /\ sounds \in SUBSET {"ringtone", "waitingTone", "vibration"}
  /\ settling \in BOOLEAN
  /\ deferredKeys \in Nat
  /\ queuedKeys \in Nat
  /\ deferredKeys + queuedKeys <= MaxKeys
  /\ crashed \in BOOLEAN

\* An operation may be offered late (channels are recovered when the approver
\* starts), so its call can already be in any state.
Init ==
  /\ greeterMode \in BOOLEAN
  /\ callState \in [Calls -> {"initialising", "initialised", "active"}]
  /\ owner = [o \in Ops |-> "dispatcher"]
  /\ accepted = {} /\ hungUp = {} /\ endAsked = {} /\ busySent = {}
  /\ notifs = {} /\ replies = {} /\ snap = None /\ sounds = {}
  /\ answered = [o \in Ops |-> "no"]
  /\ claims = [o \in Ops |-> 0]
  /\ arrived = <<>> /\ listed = {} /\ channels = {} /\ ready = {} /\ watched = {} /\ fetches = {}
  /\ settling = TRUE /\ deferredKeys = 0 /\ queuedKeys = 0
  /\ crashed = FALSE

-----------------------------------------------------------------------------
(* Helpers *)

\* o is the first operation of mDispatchOps that belongs to S.
IsFirst(o, S) ==
  /\ o \in S
  /\ \E i \in DOMAIN arrived :
        arrived[i] = o /\ \A j \in 1..(i-1) : arrived[j] \notin S

\* Seeded bug: the account is not compared.
SameAccount_Any(c) == listed

\* dispatchOperation(): looked up by the ACCOUNT of the channel only.
SameAccount(c) == {o \in listed : Account[o] = Account[c]}

\* CallManager::hasCalls(), which asks the handler.
HasCalls ==
  \E c \in Calls : /\ owner[c] = "handler"
                   /\ \/ callState[c] = "active"
                      \/ c \in Outgoing /\ callState[c] \in {"initialising", "initialised"}

\* Seeded bug: the sounds are not stopped.
CloseSnap_Noisy(pressed) ==
  /\ notifs' = notifs \ (pressed \cup {snap})
  /\ snap' = None
  /\ UNCHANGED sounds

\* closeSnapDecision(); the notifications in pressed were closed by the
\* notification server when one of their buttons was pressed.
CloseSnap(pressed) ==
  /\ notifs' = notifs \ (pressed \cup {snap})
  /\ snap' = None
  /\ sounds' = {}

\* showSnapDecision() of a call, its buttons bound to o.
ShowSnap(c, o) ==
  \/ \* no account for the connection
     UNCHANGED ui
  \/ \* the notification cannot be shown: the handle is replaced, then closed
     /\ snap' = None
     /\ sounds' = {}
     /\ UNCHANGED notifs
  \/ /\ snap' = [call |-> c, op |-> o]
     /\ notifs' = notifs \cup {snap'}
     /\ \E vibrate \in BOOLEAN :      \* incomingCallVibrate()
          sounds' = sounds \cup (IF HasCalls THEN {"waitingTone"}
                                 ELSE {"ringtone"} \cup (IF vibrate THEN {"vibration"} ELSE {}))

\* ChannelDispatchOperation::handleWith(): the dispatcher ignores it once the
\* channel has been given away.
HandleWith(S) ==
  owner' = [o \in Ops |-> IF o \in S /\ owner[o] = "dispatcher" THEN "handler" ELSE owner[o]]

\* acceptCallChannels(), with the call states it reads. Of a call that is not
\* ready it reads no initiator, so that the call is "incoming", and no state, so
\* that it is not active. (accept() does nothing to a call placed by the user.)
Accept(o, states) ==
  accepted' = accepted \cup
     {c \in Calls \ Outgoing : c = o /\ (c \notin ready \/ states[c] # "active")}

\* onApproved()
Approve(o, pressed, states) ==
  /\ CloseSnap(pressed)
  /\ Accept(o, states)
  /\ HandleWith({o})
  /\ listed' = listed \ {o}

\* Seeded bug: the claim is not recorded in mChannels.
Reject_Unrecorded(o, pressed) ==
  LET op == [kind |-> "claim", chan |-> o, n |-> claims[o] + 1] IN
  /\ claims[o] < MaxClaims
  /\ claims' = [claims EXCEPT ![o] = @ + 1]
  /\ CloseSnap(pressed)
  /\ UNCHANGED channels
  /\ \E error \in BOOLEAN :
       /\ (owner[o] # "dispatcher" \/ (o \in Calls /\ callState[o] = "ended")) => error
       /\ replies' = replies \cup {[op |-> op, error |-> error]}
       /\ owner' = [owner EXCEPT ![o] = IF error THEN @ ELSE "approver"]

\* onRejected(): claim the operation; the dispatcher refuses when the channel
\* is gone or was given away, and the call may fail for other reasons.
Reject(o, pressed) ==
  LET op == [kind |-> "claim", chan |-> o, n |-> claims[o] + 1] IN
  /\ claims[o] < MaxClaims
  /\ claims' = [claims EXCEPT ![o] = @ + 1]
  /\ CloseSnap(pressed)
  /\ channels' = channels \cup {op}
  /\ \E error \in BOOLEAN :
       /\ (owner[o] # "dispatcher" \/ (o \in Calls /\ callState[o] = "ended")) => error
       /\ replies' = replies \cup {[op |-> op, error |-> error]}
       /\ owner' = [owner EXCEPT ![o] = IF error THEN @ ELSE "approver"]

-----------------------------------------------------------------------------
(* D-Bus entry points of the channel dispatcher *)

\* addDispatchOperation(), with the processChannels() it ends with. becomeReady()
\* of a call may fail: the channel is gone, or does not answer.
AddDispatchOperation(o) ==
  /\ answered[o] = "no"
  /\ \/ /\ Account[o] \notin Supported
        /\ answered' = [answered EXCEPT ![o] = "error"]
        /\ UNCHANGED <<owner, replies, arrived, listed, channels>>
     \/ /\ Account[o] \in Supported
        /\ answered' = [answered EXCEPT ![o] = "finished"]
        /\ arrived' = Append(arrived, o)
        /\ listed' = (listed \cup {o}) \ Handleable
        /\ HandleWith((listed \cup {o}) \cap Handleable)
        /\ LET op == [kind |-> "ready", chan |-> o, n |-> 0] IN
           IF o \in Calls
           THEN /\ channels' = channels \cup {op}
                /\ \E error \in BOOLEAN : replies' = replies \cup {[op |-> op, error |-> error]}
           ELSE UNCHANGED <<channels, replies>>
  /\ UNCHANGED <<callState, accepted, hungUp, endAsked, busySent, claims,
                 ui, keys, ready, watched, fetches, crashed>>

\* Seeded bug: callStateChanged() is not connected.
RingFor_Unwatched(c, o, op) ==
  /\ channels' = channels \ {op}
  /\ IF greeterMode
     THEN ShowSnap(c, o) /\ UNCHANGED fetches
     ELSE /\ fetches' \in {fetches, fetches \cup {[call |-> c, op |-> o]}}
          /\ UNCHANGED ui
  /\ UNCHANGED <<watched, owner, accepted, listed>>

\* onChannelReady() of a call that still waits to be answered.
RingFor(c, o, op) ==
  /\ watched' = watched \cup {c}
  /\ channels' = channels \ {op}
  /\ IF greeterMode
     THEN ShowSnap(c, o) /\ UNCHANGED fetches
     ELSE /\ fetches' \in {fetches, fetches \cup {[call |-> c, op |-> o]}}
          /\ UNCHANGED ui
  /\ UNCHANGED <<owner, accepted, listed>>

\* What onChannelReady() asks of the channel: a call that comes in and waits to
\* be answered. When becomeReady() failed its state is unknown.
Waits(r) == ~r.error /\ r.op.chan \notin Outgoing /\ callState[r.op.chan] = "initialised"

\* onChannelReady(), which does not ask whether becomeReady() failed.
ChannelReady(r) ==
  LET c == r.op.chan IN
  /\ r.op.kind = "ready"
  /\ replies' = replies \ {r}
  /\ ready' = ready \cup {d \in {c} : ~r.error}
  /\ \/ /\ r.op \notin channels \/ SameAccount(c) = {}
        /\ UNCHANGED <<owner, accepted, ui, listed, channels, watched, fetches>>
     \/ \E o \in SameAccount(c) :
          /\ r.op \in channels
          /\ IsFirst(o, SameAccount(c))
          /\ IF Waits(r)
             THEN RingFor(c, o, r.op)
             ELSE /\ Approve(o, {}, callState)
                  /\ UNCHANGED <<channels, watched, fetches>>
  /\ UNCHANGED <<callState, hungUp, endAsked, busySent, answered, claims,
                 keys, arrived, crashed>>

\* The lambda connected to the contact fetch request.
ContactFetched(f) ==
  /\ fetches' = fetches \ {f}
  /\ ShowSnap(f.call, f.op)
  /\ UNCHANGED <<env, replies, keys, arrived, listed, channels, ready, watched, crashed>>

\* onClaimFinished()
ClaimFinished(r) ==
  LET hop == [r.op EXCEPT !.kind = "hangup"] IN
  /\ r.op.kind = "claim"
  /\ IF ~r.error /\ r.op \in channels /\ r.op.chan \in Calls
     THEN /\ hungUp' = hungUp \cup {r.op.chan}
          /\ channels' = channels \cup {hop}
          /\ \E error \in BOOLEAN :
               replies' = (replies \ {r}) \cup {[op |-> hop, error |-> error]}
     ELSE /\ replies' = replies \ {r}
          /\ UNCHANGED <<hungUp, channels>>
  /\ UNCHANGED <<callState, owner, accepted, endAsked, busySent, answered, claims,
                 ui, keys, arrived, listed, ready, watched, fetches, crashed>>

\* onHangupFinished(): dispatchOperation() dereferences the channel of op.
HangupFinished(r) ==
  /\ r.op.kind = "hangup"
  /\ replies' = replies \ {r}
  /\ \/ /\ r.error
        /\ UNCHANGED <<listed, channels, crashed>>
     \/ /\ ~r.error /\ r.op \notin channels
        /\ crashed' = TRUE
        /\ UNCHANGED <<listed, channels>>
     \/ /\ ~r.error /\ r.op \in channels
        /\ channels' = channels \ {r.op}
        /\ listed' = listed \ {o \in listed : IsFirst(o, SameAccount(r.op.chan))}
        /\ UNCHANGED crashed
  /\ UNCHANGED <<env, ui, keys, arrived, ready, watched, fetches>>

-----------------------------------------------------------------------------
(* The call channels *)

\* Seeded bug: the notification of an ended call stays.
ForgetEnded_Open(c) ==
  /\ listed' = listed \ {c}
  /\ channels' \in {channels} \cup {channels \ {p} : p \in channels}
  /\ UNCHANGED <<ui, owner, accepted>>

\* Seeded bug: the operation of an ended call stays in mDispatchOps.
ForgetEnded_Listed(c) ==
  /\ channels' \in {channels} \cup {channels \ {p} : p \in channels}
  /\ CloseSnap({})
  /\ UNCHANGED <<listed, owner, accepted>>

\* onCallStateChanged(Ended): mChannels.key() finds ONE operation of the
\* channel, the one whose pointer compares lowest.
ForgetEnded(c) ==
  /\ listed' = listed \ {c}
  /\ \/ /\ {p \in channels : p.chan = c} = {}
        /\ UNCHANGED channels
     \/ \E p \in channels : p.chan = c /\ channels' = channels \ {p}
  /\ CloseSnap({})
  /\ UNCHANGED <<owner, accepted>>

\* The call channel changes state and, when connected, onCallStateChanged()
\* runs. A call becomes active without accept() when it is answered elsewhere.
CallStateChanged(c, s) ==
  /\ \/ s = "initialised" /\ callState[c] = "initialising"
     \/ s = "accepted" /\ callState[c] = "initialised" /\ c \in accepted
     \/ s = "active" /\ callState[c] \in {"initialising", "initialised", "accepted"}
     \/ s = "ended" /\ callState[c] # "ended"
  /\ callState' = [callState EXCEPT ![c] = s]
  /\ \/ /\ c \in watched \cap listed
        /\ \/ s = "ended" /\ ForgetEnded(c)
           \/ s = "active" /\ Approve(c, {}, callState') /\ UNCHANGED channels
           \/ s \in {"initialised", "accepted"} /\ UNCHANGED <<owner, accepted, ui, listed, channels>>
     \/ /\ c \notin watched \cap listed
        /\ UNCHANGED <<owner, accepted, ui, listed, channels>>
  /\ UNCHANGED <<hungUp, endAsked, busySent, answered, claims, replies, keys,
                 arrived, ready, watched, fetches, crashed>>

-----------------------------------------------------------------------------
(* The user *)

\* action_accept(): the accept button of a notification.
PressAccept(n) ==
  /\ Approve(n.op, {n}, callState)
  /\ UNCHANGED <<callState, hungUp, endAsked, busySent, answered, claims, replies, keys,
                 arrived, channels, ready, watched, fetches, crashed>>

\* action_reject() and action_reject_message(): the latter texts the caller first.
PressReject(n) ==
  /\ Reject(n.op, {n})
  /\ busySent' \in {busySent, busySent \cup {n.op}}
  /\ UNCHANGED <<callState, accepted, hungUp, endAsked, answered, keys,
                 arrived, listed, ready, watched, fetches, crashed>>

\* dispatchOperationForIncomingCall()
IncomingCall(o) == IsFirst(o, listed \cap Calls)

\* onAcceptCallRequested(), reached from D-Bus and from the media key.
AcceptCallRequested ==
  \/ /\ snap # None
     /\ \E o \in listed : /\ IncomingCall(o)
                          /\ Approve(o, {}, callState)
     /\ UNCHANGED <<callState, hungUp, endAsked, busySent, answered, claims, replies,
                    arrived, channels, ready, watched, fetches>>
  \/ /\ snap = None \/ listed \cap Calls = {}
     /\ UNCHANGED <<env, replies, ui, books>>

AcceptCall == AcceptCallRequested /\ UNCHANGED <<keys, crashed>>

\* onRejectCallRequested()
RejectCall ==
  /\ snap # None
  /\ \E o \in listed : IncomingCall(o) /\ Reject(o, {})
  /\ UNCHANGED <<callState, accepted, hungUp, endAsked, busySent, answered, keys,
                 arrived, listed, ready, watched, fetches, crashed>>

\* onUnityStateChanged(): the power key silences the ringtone and the vibration.
PowerKey ==
  /\ snap # None
  /\ sounds' = sounds \ {"ringtone", "vibration"}
  /\ UNCHANGED <<env, replies, notifs, snap, keys, books, crashed>>

\* updateNotification(), greeter only, when showing the update fails.
UpdateFails ==
  /\ greeterMode /\ snap # None
  /\ CloseSnap({})
  /\ UNCHANGED <<env, replies, keys, books, crashed>>

\* handleMediaKey()
HandleMediaKey ==
  /\ deferredKeys + queuedKeys < MaxKeys
  /\ IF settling
     THEN deferredKeys' = deferredKeys + 1 /\ UNCHANGED queuedKeys
     ELSE queuedKeys' = queuedKeys + 1 /\ UNCHANGED deferredKeys
  /\ UNCHANGED <<env, replies, ui, settling, books, crashed>>

\* onSettleTimerTimeout(), then the lambdas that handle the deferred keys again.
SettleTimeout ==
  /\ settling
  /\ settling' = FALSE
  /\ queuedKeys' = queuedKeys + deferredKeys
  /\ deferredKeys' = 0
  /\ UNCHANGED <<env, replies, ui, books, crashed>>

\* processHandleMediaKey()
ProcessMediaKey ==
  /\ queuedKeys > 0
  /\ queuedKeys' = queuedKeys - 1
  /\ UNCHANGED <<settling, deferredKeys, crashed>>
  /\ \/ snap # None /\ AcceptCallRequested
     \/ /\ snap = None
        /\ \/ UNCHANGED endAsked    \* no calls, or no foreground call
           \/ \E c \in Calls : /\ owner[c] = "handler" /\ callState[c] = "active"
                               /\ endAsked' = endAsked \cup {c}
        /\ UNCHANGED <<callState, owner, accepted, hungUp, busySent, answered, claims,
                       replies, ui, books>>

-----------------------------------------------------------------------------
\* The process is there, and stays in the session it was started in.
Alive == ~crashed /\ UNCHANGED greeterMode

Next ==
  /\ Alive
  /\ \/ \E o \in Ops : AddDispatchOperation(o)
     \/ \E r \in replies : ChannelReady(r) \/ ClaimFinished(r) \/ HangupFinished(r)
     \/ \E f \in fetches : ContactFetched(f)
     \/ \E c \in Calls, s \in CallState : CallStateChanged(c, s)
     \/ \E n \in notifs : PressAccept(n) \/ PressReject(n)
     \/ AcceptCall \/ RejectCall
     \/ PowerKey \/ UpdateFails
     \/ HandleMediaKey \/ SettleTimeout \/ ProcessMediaKey

\* Telepathy operations finish, contact fetches finish, timers fire and
\* queued calls run; no one is obliged to press a button or to hang up.
Fairness ==
  /\ WF_vars(Alive /\ \E r \in replies : ChannelReady(r) \/ ClaimFinished(r) \/ HangupFinished(r))
  /\ WF_vars(Alive /\ \E f \in fetches : ContactFetched(f))
  /\ WF_vars(Alive /\ SettleTimeout)
  /\ WF_vars(Alive /\ ProcessMediaKey)

Spec == Init /\ [][Next]_vars /\ Fairness

-----------------------------------------------------------------------------
(* Properties *)

\* No two operations share an account, so dispatchOperation() finds the
\* operation it was asked for.
DistinctAccounts == \A o, p \in Ops : Account[o] = Account[p] => o = p

\* Nothing rings, beeps or vibrates without a notification whose buttons can
\* stop it: every path that drops the notification handle also silences the
\* phone (closeSnapDecision), and every sound starts after the handle is set.
SoundHasSnap == sounds # {} => snap # None /\ snap \in notifs

\* The buttons of a call's notification act on that call, whatever arrived, was
\* answered or ended while its contact was being fetched; with call waiting they
\* may act on another operation, but only on one of the same account that was
\* offered too (dispatchOperation() looks it up by the account).
ButtonsMatch ==
  \A n \in notifs \cup fetches :
     n.op # n.call => Account[n.op] = Account[n.call] /\ answered[n.op] = "finished"

\* In greeter mode the notification the approver considers pending is of a
\* call that still waits for the user, in mDispatchOps and neither active nor
\* ended, unless a RejectCall meant for another call claimed it before it rang.
\* (Out of greeter mode the contact fetch may finish after the call is gone.)
SnapIsWaiting ==
  greeterMode /\ DistinctAccounts /\ snap # None /\ claims[snap.op] = 0 =>
     /\ snap.call \in listed
     /\ callState[snap.call] \in {"initialised", "accepted"}
     /\ owner[snap.call] = "dispatcher"

\* A channel handed to the handler is never kept in mDispatchOps, where a later
\* AcceptCall or RejectCall would pick it again.
HandedOverLeavesList == \A o \in listed : owner[o] # "handler"

\* A declined call is not left ringing on the caller's side by the two
\* asynchronous steps of the rejection: once the approver owns the channel
\* either the claim is still to finish and will find its entry in mChannels, or
\* hangup() was called, or the call ended by itself.
ClaimedIsHungUp ==
  \A c \in Calls : owner[c] = "approver" =>
     \/ c \in hungUp
     \/ callState[c] = "ended"
     \/ \E r \in replies : /\ r.op.kind = "claim" /\ r.op.chan = c /\ ~r.error
                          /\ r.op \in channels

\* Every call in mDispatchOps is either becoming ready, with its entry in
\* mChannels, or watched and not ended: no dead call stays in the list for
\* AcceptCall to pick.
ListedIsTracked ==
  DistinctAccounts => \A c \in listed \cap Calls :
     \/ \E r \in replies : r.op.kind = "ready" /\ r.op.chan = c /\ r.op \in channels
     \/ c \in watched /\ callState[c] # "ended"

\* accept() is called on a call that is not answered yet only while a notification
\* is on the screen, with one exception: a channel of the same account has just
\* turned out not to wait for an answer, because it was placed by the user, is in
\* another state, or failed to become ready, which onChannelReady() takes alike.
\* Nothing that happens on another SIM card answers the phone.
AcceptNeedsPrompt ==
  [][\A c \in accepted' \ accepted :
        callState[c] \in {"initialising", "initialised"} =>
          \/ notifs # {}
          \/ \E r \in replies \ replies' :
                r.op.kind = "ready" /\ ~Waits(r) /\ Account[r.op.chan] = Account[c]]_vars

\* The approver answers no ringing call because of another one: without a
\* notification on the screen only a call's own channel, which has just become
\* ready, or a channel that failed to, gets a call accepted. (tests/approver/
\* ApproverTest.cpp says so of calls placed from or answered on a car kit.)
AnsweredOnItsOwn ==
  [][\A c \in accepted' \ accepted :
        callState[c] \in {"initialising", "initialised"} =>
          \/ notifs # {}
          \/ \E r \in replies \ replies' : r.op.chan = c \/ r.error]_vars

\* A call that has ended does not stay in mDispatchOps for ever.
EndedIsForgotten ==
  \A c \in Calls : callState[c] = "ended" ~> (c \notin listed \/ crashed)

\* "remove all channels and pending operations" (approver.cpp:713): when a
\* watched call ends, no pending operation of its channel is left in mChannels.
EndedDropsOperations ==
  [][\A c \in watched \cap listed :
        callState[c] # "ended" /\ callState'[c] = "ended" =>
           \A p \in channels' : p.chan # c]_vars
=============================================================================
