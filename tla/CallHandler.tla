----------------------------- MODULE CallHandler -----------------------------
(***************************************************************************)
(* The calls of the telephony-service-handler process: the gate a channel  *)
(* passes when the channel dispatcher hands it over (Handler, in           *)
(* src/handler/handler.cpp), the list of calls it then lives in and the    *)
(* tones played about them (CallHandler, in src/handler/callhandler.cpp).  *)
(*                                                                         *)
(* The peer, the connection manager (CM) and the channel dispatcher move   *)
(* a channel through its states at any moment, also between two callbacks  *)
(* of the handler. DTMF keys of a call are queued as DTMFQueue models it.  *)
(***************************************************************************)
EXTENDS ToneGenerator, FiniteSets

CONSTANTS
  Calls,       \* call channels
  Incoming,    \* the calls not initiated by the account's own contact
  Streaming,   \* the calls with handlerStreamingRequired(): VoIP
  MaxHangups   \* bound: hangup() requests of one call under way

ASSUME CallHandlerAssumption ==
  /\ IsFiniteSet(Calls)
  /\ Incoming \subseteq Calls
  /\ Streaming \subseteq Calls
  /\ MaxHangups \in Nat \ {0}

\* The states of a channel as its proxy knows them. Before Telepathy's own
\* there are "none", "resolving" (the contact of startCall() is being looked up)
\* and "requested" (ensureAudioCall() was called). "accepting" is
\* PendingInitiator after accept().
RemoteState ==
  {"none", "resolving", "requested", "pendingInitiator", "accepting",
   "initialising", "initialised", "accepted", "active", "ended"}

VARIABLES
  remote,           \* state of each channel
  gone,             \* channels invalidated: closed, or their CM died
  closeAsked,       \* channels requestClose() was called on
  context,          \* the answer to HandleChannels for each channel
  ready,            \* mReadyRequests: channels that become ready
  mCallChannels,    \* the calls the handler knows
  mClosingChannels, \* number of hangup() requests under way for each call
  mHangupRequested,
  stamped,          \* calls with an "activeTimestamp" property
  gen               \* the tone generator

callVars == <<remote, gone, closeAsked, context, ready, mCallChannels, stamped>>
vars == <<callVars, mClosingChannels, mHangupRequested, gen>>

TypeOK ==
  /\ remote \in [Calls -> RemoteState]
  /\ gone \in SUBSET Calls
  /\ closeAsked \in SUBSET Calls
  /\ context \in [Calls -> {"none", "open", "finished", "error"}]
  /\ ready \in SUBSET Calls
  /\ mCallChannels \in SUBSET Calls
  /\ mClosingChannels \in [Calls -> 0..MaxHangups]
  /\ mHangupRequested \in BOOLEAN
  /\ stamped \in SUBSET Calls
  /\ gen \in Generator

Init ==
  /\ remote = [c \in Calls |-> "none"]
  /\ gone = {} /\ closeAsked = {} /\ ready = {} /\ mCallChannels = {} /\ stamped = {}
  /\ context = [c \in Calls |-> "none"]
  /\ mClosingChannels = [c \in Calls |-> 0]
  /\ mHangupRequested = FALSE
  /\ gen = Quiet

Exists(c) == remote[c] \notin {"none", "resolving", "requested"}
Live(c) == Exists(c) /\ c \notin gone

\* The channels whose signals are connected to CallHandler.
Heard(c) == c \in mCallChannels /\ c \notin gone
-----------------------------------------------------------------------------
(* How a call comes about *)

\* startCall(): the account and its connection exist.
StartCall(c) ==
  /\ c \notin Incoming
  /\ remote[c] = "none"
  /\ remote' = [remote EXCEPT ![c] = "resolving"]
  /\ UNCHANGED <<gone, closeAsked, context, ready, mCallChannels, mClosingChannels,
                 mHangupRequested, stamped, gen>>

\* onContactsAvailable(): no contact when the identifier is not valid.
ContactsAvailable(c) ==
  /\ remote[c] = "resolving"
  /\ \E found \in BOOLEAN :
        remote' = [remote EXCEPT ![c] = IF found THEN "requested" ELSE "none"]
  /\ UNCHANGED <<gone, closeAsked, context, ready, mCallChannels, mClosingChannels,
                 mHangupRequested, stamped, gen>>

\* The CM creates the channel: on the request of the handler, for a peer that
\* calls, or for a call of the user that started elsewhere (a car kit).
NewChannel(c) ==
  /\ \/ c \in Incoming /\ remote[c] = "none"
        /\ remote' = [remote EXCEPT ![c] = "initialised"]
     \/ c \notin Incoming /\ remote[c] \in {"none", "requested"}
        /\ \E s \in {"pendingInitiator", "initialising"} :
              remote' = [remote EXCEPT ![c] = s]
  /\ UNCHANGED <<gone, closeAsked, context, ready, mCallChannels, mClosingChannels,
                 mHangupRequested, stamped, gen>>

\* Handler::handleChannels(), for an account of a supported protocol. An
\* incoming call comes after the approver accepted it, or straight from the
\* channel dispatcher when no approver is running.
HandleChannels(c) ==
  /\ Exists(c) /\ context[c] = "none"
  /\ context' = [context EXCEPT ![c] = "open"]
  /\ ready' = ready \cup {c}
  /\ UNCHANGED <<remote, gone, closeAsked, mCallChannels, mClosingChannels,
                 mHangupRequested, stamped, gen>>

\* Seeded bug: the handler takes every call it is handed.
Rejected_Never(c, coreReady) == FALSE

\* The gate of Handler::onCallChannelReady(). Without the core feature (the
\* channel was closed before it became ready) the channel has no initiator, is
\* not known to be requested, and its state is unknown: not an approved call.
Rejected(c, coreReady) ==
  IF coreReady THEN c \in Incoming /\ remote[c] \notin {"accepted", "active"}
               ELSE TRUE

Stamp(c) == IF remote[c] = "active" THEN stamped \cup {c} ELSE stamped

\* CallHandler::onCallChannelAvailable(). A channel waiting for its initiator is
\* accepted.
CallChannelAvailable(c) ==
  /\ remote' = IF remote[c] = "pendingInitiator"
               THEN [remote EXCEPT ![c] = "accepting"] ELSE remote
  /\ mCallChannels' = mCallChannels \cup {c}
  /\ stamped' = Stamp(c)

\* Handler::onCallChannelReady(). The error of an operation that failed is not
\* looked at: a channel closed in the meantime passes if its core was ready.
CallChannelReady(c) ==
  /\ c \in ready
  /\ ready' = ready \ {c}
  /\ \E coreReady \in {TRUE} \cup {c \notin gone} :
       \/ /\ Rejected(c, coreReady)
          /\ context' = [context EXCEPT ![c] = "error"]
          /\ UNCHANGED <<remote, mCallChannels, stamped>>
       \/ /\ ~Rejected(c, coreReady)
          /\ context' = [context EXCEPT ![c] = "finished"]
          /\ CallChannelAvailable(c)
  /\ UNCHANGED <<gone, closeAsked, mClosingChannels, mHangupRequested, gen>>
-----------------------------------------------------------------------------
(* The life of a call *)

\* Seeded bug: the ringing tone goes on when the call ends.
ToneFor_NoStop(c, state, g) ==
  IF state = "initialised" /\ c \notin Incoming /\ c \in Streaming
  THEN PlayRingingTone(StopTone(g)) ELSE g

\* The tones of CallHandler::onCallStateChanged(): the network of a phone call
\* plays its own, so all but the end of a call is about VoIP.
ToneFor(c, state, g) ==
  CASE state = "initialising" /\ c \notin Incoming /\ c \in Streaming -> PlayDialingTone(g)
    [] state = "initialised" /\ c \notin Incoming /\ c \in Streaming ->
          PlayRingingTone(StopTone(g))
    [] state = "active" /\ c \in Streaming -> StopTone(g)
    [] state = "ended" -> StopTone(g)
    [] OTHER -> g

NextStates(c) ==
  CASE remote[c] = "pendingInitiator" -> {"ended"}
    [] remote[c] = "accepting"    -> {"initialising", "ended"}
    [] remote[c] = "initialising" -> {"initialised", "active", "ended"}
    [] remote[c] = "initialised"  -> {"accepted", "active", "ended"}
    [] remote[c] = "accepted"     -> {"active", "ended"}
    [] remote[c] = "active"       -> {"ended"}
    [] OTHER -> {}

\* Seeded bug: an ended channel is left for somebody else to close.
Closing_Never(c, state) == closeAsked

Closing(c, state) == IF state = "ended" THEN closeAsked \cup {c} ELSE closeAsked

\* The state of a channel changes; CallHandler::onCallStateChanged() if it is
\* connected.
CallStateChanged(c) ==
  /\ Live(c)
  /\ \E state \in NextStates(c) :
       /\ remote' = [remote EXCEPT ![c] = state]
       /\ \/ /\ Heard(c)
             /\ gen' = ToneFor(c, state, gen)
             /\ closeAsked' = Closing(c, state)
             /\ stamped' = IF state = "active" THEN stamped \cup {c} ELSE stamped
          \/ ~Heard(c) /\ UNCHANGED <<gen, closeAsked, stamped>>
  /\ UNCHANGED <<gone, context, ready, mCallChannels, mClosingChannels, mHangupRequested>>

\* hangUpCall(): the user hangs up, or the approver asks for it.
HangUpCall(c) ==
  /\ c \in mCallChannels
  /\ mClosingChannels[c] < MaxHangups
  /\ mClosingChannels' = [mClosingChannels EXCEPT ![c] = @ + 1]
  /\ UNCHANGED <<callVars, mHangupRequested, gen>>

\* mClosingChannels.contains(op) for an operation about call c.
Pending(c) == mClosingChannels[c] > 0

\* onCallHangupFinished(), whether the operation failed or not. The reply may
\* come after the channel it is about has gone.
HangupFinished(c) ==
  /\ Pending(c)
  /\ mClosingChannels' = [mClosingChannels EXCEPT ![c] = @ - 1]
  /\ mHangupRequested' = (mHangupRequested \/ Cardinality(mCallChannels) = 1)
  /\ UNCHANGED <<callVars, gen>>

\* The channel is closed, or its CM dies. onCallChannelInvalidated() if it is
\* connected.
Invalidated(c) ==
  /\ Live(c)
  /\ gone' = gone \cup {c}
  /\ \/ /\ c \in mCallChannels
        /\ mCallChannels' = mCallChannels \ {c}
        /\ \/ /\ mCallChannels' = {} /\ ~mHangupRequested
              /\ CanPlayCallEndedTone(gen)
              /\ gen' = PlayCallEndedTone(StopTone(gen))
           \/ /\ mCallChannels' # {} \/ mHangupRequested
              /\ gen' = StopTone(gen)
        /\ mHangupRequested' = FALSE
     \/ /\ c \notin mCallChannels
        /\ UNCHANGED <<mCallChannels, gen, mHangupRequested>>
  /\ UNCHANGED <<remote, closeAsked, context, ready, mClosingChannels, stamped>>
-----------------------------------------------------------------------------
(* Tones and their timers *)

\* sendDTMF() plays a key of the dialpad, of a call, and also one for an object
\* path that no call has any more.
PlayKey ==
  /\ \E event \in {-1, 1} : gen' = PlayDTMFTone(gen, event)
  /\ UNCHANGED <<callVars, mClosingChannels, mHangupRequested>>

DTMFTimeout ==
  /\ gen.dtmfTimer
  /\ gen' = StopDTMFTone(gen)
  /\ UNCHANGED <<callVars, mClosingChannels, mHangupRequested>>

CallEndedToneTimeout ==
  /\ gen.stops > 0
  /\ gen' = CallEndedTimeout(gen)
  /\ UNCHANGED <<callVars, mClosingChannels, mHangupRequested>>

\* The approver plays the waiting tone when it prompts for a call during
\* another one, loops it, and stops it with the prompt.
WaitingTone ==
  /\ gen' \in {PlayWaitingTone(gen), StopWaitingTone(gen)}
  /\ UNCHANGED <<callVars, mClosingChannels, mHangupRequested>>

Next ==
  \/ \E c \in Calls :
       \/ StartCall(c) \/ ContactsAvailable(c) \/ NewChannel(c)
       \/ HandleChannels(c) \/ CallChannelReady(c)
       \/ CallStateChanged(c) \/ HangUpCall(c) \/ HangupFinished(c) \/ Invalidated(c)
  \/ PlayKey \/ DTMFTimeout \/ CallEndedToneTimeout \/ WaitingTone

\* The event loop serves replies and timers; a channel asked to close closes.
Fairness ==
  /\ \A c \in Calls :
       /\ WF_vars(CallChannelReady(c))
       /\ WF_vars(c \in closeAsked /\ Invalidated(c))
  /\ WF_vars(DTMFTimeout)
  /\ WF_vars(CallEndedToneTimeout)

Spec == Init /\ [][Next]_vars /\ Fairness
-----------------------------------------------------------------------------
(* Properties *)

Progressing(c) ==
  /\ c \notin Incoming
  /\ c \in Streaming
  /\ Heard(c)
  /\ remote[c] \in {"initialising", "initialised", "accepted"}

\* A dialing or ringing tone is heard only while some VoIP call placed by the
\* user still is on its way to be answered, and a key tone or a call-ended tone
\* always has a timer that will stop it (callhandler.cpp:339-391 and
\* tonegenerator.cpp), in spite of calls that end, vanish or start meanwhile.
ToneHasCause ==
  /\ gen.playing \in {"dialing", "ringing"} => \E c \in Calls : Progressing(c)
  /\ gen.playing = "dtmf" => gen.dtmfTimer
  /\ gen.playing = "callEnded" => gen.stops > 0
  /\ gen.playing = "waiting" => gen.waitingTimer

\* A request to hang up that silences the call-ended tone does not outlive the
\* calls it was made for (mHangupRequested, callhandler.cpp:323-358), even when
\* the reply to hangup() arrives after the channel has gone.
HangupFlagHasCall == mHangupRequested => mCallChannels # {}

\* Nobody but the user answers an incoming call: the handler lists only those
\* already accepted (handler.cpp:168-185), whatever the channel dispatcher hands
\* over and however the call proceeds while the channel becomes ready.
OnlyApprovedCalls ==
  \A c \in mCallChannels \cap Incoming : remote[c] \in {"accepted", "active", "ended"}

\* A call in progress always has the time it became active, whichever of the
\* answer of the peer and the readiness of the channel came first
\* (callhandler.cpp:282-287 and 384).
ActiveIsStamped ==
  \A c \in mCallChannels : c \notin gone /\ remote[c] = "active" => c \in stamped

\* A listed call that ends leaves the list, because its channel is then closed
\* (callhandler.cpp:389). A call that had ended before it was listed is never
\* closed by the handler and stays.
EndedCallsLeave ==
  \A c \in Calls :
    [](Heard(c) /\ remote[c] # "ended" =>
         [](remote[c] = "ended" => <>(c \notin mCallChannels)))
=============================================================================
