------------------------- MODULE CallsProofs -------------------------
(***************************************************************************)
(* Theorems about the calls of the handler (CallHandler) and about the keys *)
(* of one call (DTMFQueue), which share no state.                          *)
(***************************************************************************)
EXTENDS CallHandler, DTMFQueue, FiniteSetTheorems, TLAPS, FunctionTheorems, SequenceTheorems

-----------------------------------------------------------------------------
(* Theorems about CallHandler, for any finite number of calls. *)

\* Whatever a process asks of its tone generator, the generator stays one.
LEMMA TonesType ==
  ASSUME NEW g \in Generator
  PROVE  /\ StopTone(g) \in Generator
         /\ StopDTMFTone(g) \in Generator
         /\ PlayDialingTone(g) \in Generator
         /\ PlayRingingTone(g) \in Generator
         /\ PlayRingingTone(StopTone(g)) \in Generator
         /\ PlayWaitingTone(g) \in Generator
         /\ StopWaitingTone(g) \in Generator
         /\ \A event : PlayDTMFTone(g, event) \in Generator
BY DEF Generator, Tone, StartEventTone, StopTone, StopDTMFTone, PlayDialingTone,
       PlayRingingTone, PlayWaitingTone, StopWaitingTone, PlayDTMFTone

\* The single shots of the call-ended tone are counted within their bound.
LEMMA EndedToneType ==
  ASSUME NEW g \in Generator
  PROVE  /\ CanPlayCallEndedTone(g) => PlayCallEndedTone(StopTone(g)) \in Generator
         /\ g.stops > 0 => CallEndedTimeout(g) \in Generator
<1>1. g.stops \in 0..MaxStops
  BY DEF Generator
<1>2. g.stops < MaxStops => g.stops + 1 \in 0..MaxStops
  BY <1>1, MaxStopsAssumption
<1>3. g.stops > 0 => g.stops - 1 \in 0..MaxStops
  BY <1>1, MaxStopsAssumption
<1> QED
  BY <1>1, <1>2, <1>3
  DEF CanPlayCallEndedTone, PlayCallEndedTone, StopTone, StartEventTone,
      CallEndedTimeout, Generator, Tone

LEMMA ToneForType ==
  ASSUME NEW c \in Calls, NEW state, NEW g \in Generator
  PROVE  ToneFor(c, state, g) \in Generator
BY TonesType DEF ToneFor

LEMMA NextStatesType ==
  ASSUME TypeOK, NEW c \in Calls
  PROVE  NextStates(c) \subseteq RemoteState
BY DEF NextStates, RemoteState, TypeOK

LEMMA InitType == Init => TypeOK
<1> SUFFICES ASSUME Init PROVE TypeOK
  OBVIOUS
<1>1. remote \in [Calls -> RemoteState]
  BY DEF Init, RemoteState
<1>2. mClosingChannels \in [Calls -> 0..MaxHangups]
  BY CallHandlerAssumption DEF Init, CallHandlerAssumption
<1>3. gen \in Generator
  BY MaxStopsAssumption DEF Init, Quiet, Generator
<1> QED
  BY <1>1, <1>2, <1>3 DEF Init, TypeOK

LEMMA NextType == TypeOK /\ [Next]_vars => TypeOK'
<1> SUFFICES ASSUME TypeOK, [Next]_vars PROVE TypeOK'
  OBVIOUS
<1>1. ASSUME NEW c \in Calls, StartCall(c) PROVE TypeOK'
  BY <1>1 DEF StartCall, TypeOK, RemoteState
<1>2. ASSUME NEW c \in Calls, ContactsAvailable(c) PROVE TypeOK'
  BY <1>2 DEF ContactsAvailable, TypeOK, RemoteState
<1>3. ASSUME NEW c \in Calls, NewChannel(c) PROVE TypeOK'
  BY <1>3 DEF NewChannel, TypeOK, RemoteState
<1>4. ASSUME NEW c \in Calls, HandleChannels(c) PROVE TypeOK'
  BY <1>4 DEF HandleChannels, TypeOK
<1>5. ASSUME NEW c \in Calls, CallChannelReady(c) PROVE TypeOK'
  BY <1>5 DEF CallChannelReady, CallChannelAvailable, Stamp, TypeOK, RemoteState
<1>6. ASSUME NEW c \in Calls, CallStateChanged(c) PROVE TypeOK'
  <2>1. PICK state \in NextStates(c) :
          /\ remote' = [remote EXCEPT ![c] = state]
          /\ \/ gen' = ToneFor(c, state, gen) /\ closeAsked' = Closing(c, state)
                /\ stamped' = IF state = "active" THEN stamped \cup {c} ELSE stamped
             \/ UNCHANGED <<gen, closeAsked, stamped>>
    BY <1>6 DEF CallStateChanged
  <2>2. state \in RemoteState
    BY <2>1, NextStatesType
  <2>3. gen' \in Generator
    BY <2>1, ToneForType DEF TypeOK
  <2>4. closeAsked' \in SUBSET Calls /\ stamped' \in SUBSET Calls
    BY <2>1 DEF Closing, TypeOK
  <2> QED
    BY <1>6, <2>1, <2>2, <2>3, <2>4 DEF CallStateChanged, TypeOK
<1>7. ASSUME NEW c \in Calls, HangUpCall(c) PROVE TypeOK'
  <2>1. mClosingChannels[c] + 1 \in 0..MaxHangups
    BY <1>7, CallHandlerAssumption DEF CallHandlerAssumption, HangUpCall, TypeOK
  <2> QED
    BY <1>7, <2>1 DEF HangUpCall, TypeOK, callVars
<1>8. ASSUME NEW c \in Calls, HangupFinished(c) PROVE TypeOK'
  <2>1. mClosingChannels[c] - 1 \in 0..MaxHangups
    BY <1>8, CallHandlerAssumption DEF CallHandlerAssumption, HangupFinished, Pending, TypeOK
  <2>2. mHangupRequested' \in BOOLEAN
    BY <1>8 DEF HangupFinished
  <2> QED
    BY <1>8, <2>1, <2>2 DEF HangupFinished, TypeOK, callVars
<1>9. ASSUME NEW c \in Calls, Invalidated(c) PROVE TypeOK'
  <2>1. gen' \in Generator
    BY <1>9, TonesType, EndedToneType DEF Invalidated, TypeOK
  <2>2. mHangupRequested' \in BOOLEAN
    BY <1>9 DEF Invalidated, TypeOK
  <2> QED
    BY <1>9, <2>1, <2>2 DEF Invalidated, TypeOK
<1>10. CASE PlayKey \/ DTMFTimeout \/ CallEndedToneTimeout \/ WaitingTone
  <2>1. gen' \in Generator
    BY <1>10, TonesType, EndedToneType
    DEF PlayKey, DTMFTimeout, CallEndedToneTimeout, WaitingTone, TypeOK
  <2> QED
    BY <1>10, <2>1
    DEF PlayKey, DTMFTimeout, CallEndedToneTimeout, WaitingTone, TypeOK, callVars
<1>11. CASE UNCHANGED vars
  BY <1>11 DEF vars, callVars, TypeOK
<1> QED
  BY <1>1, <1>2, <1>3, <1>4, <1>5, <1>6, <1>7, <1>8, <1>9, <1>10, <1>11 DEF Next

\* Every reachable state of the call handler is well typed: the requests to
\* hang up (callhandler.cpp:134-146 and 323-337) and the timers of the
\* call-ended tone are counted exactly.
THEOREM TypeCorrect == Spec => []TypeOK
BY InitType, NextType, PTL DEF Spec
-----------------------------------------------------------------------------
(* Calls of the peer *)

LEMMA InitApproved == Init => OnlyApprovedCalls
BY DEF Init, OnlyApprovedCalls

\* A state that follows "accepted" is one a listed incoming call may be in.
LEMMA ApprovedGoesOn ==
  ASSUME NEW c \in Calls, remote[c] \in {"accepted", "active", "ended"}
  PROVE  NextStates(c) \subseteq {"accepted", "active", "ended"}
BY DEF NextStates

LEMMA NextApproved == TypeOK /\ OnlyApprovedCalls /\ [Next]_vars => OnlyApprovedCalls'
<1> SUFFICES ASSUME TypeOK, OnlyApprovedCalls, [Next]_vars PROVE OnlyApprovedCalls'
  OBVIOUS
<1>1. CASE UNCHANGED <<remote, mCallChannels>>
  BY <1>1 DEF OnlyApprovedCalls
<1>2. ASSUME NEW c \in Calls, StartCall(c) \/ ContactsAvailable(c) \/ NewChannel(c)
      PROVE  OnlyApprovedCalls'
  BY <1>2 DEF StartCall, ContactsAvailable, NewChannel, OnlyApprovedCalls, TypeOK
<1>3. ASSUME NEW c \in Calls, CallChannelReady(c) PROVE OnlyApprovedCalls'
  <2>1. CASE UNCHANGED <<remote, mCallChannels>>
    BY <1>1, <2>1
  <2>2. CASE /\ \E coreReady \in BOOLEAN : ~Rejected(c, coreReady)
             /\ CallChannelAvailable(c)
    <3>1. c \in Incoming => remote[c] \in {"accepted", "active"}
      BY <2>2 DEF Rejected
    <3> QED
      BY <2>2, <3>1 DEF CallChannelAvailable, OnlyApprovedCalls, TypeOK
  <2> QED
    BY <1>3, <2>1, <2>2 DEF CallChannelReady
<1>4. ASSUME NEW c \in Calls, CallStateChanged(c) PROVE OnlyApprovedCalls'
  BY <1>4, ApprovedGoesOn DEF CallStateChanged, OnlyApprovedCalls, TypeOK
<1>5. ASSUME NEW c \in Calls, Invalidated(c) PROVE OnlyApprovedCalls'
  BY <1>5 DEF Invalidated, OnlyApprovedCalls
<1>6. ASSUME NEW c \in Calls, HandleChannels(c) \/ HangUpCall(c) \/ HangupFinished(c)
      PROVE  UNCHANGED <<remote, mCallChannels>>
  BY <1>6 DEF HandleChannels, HangUpCall, HangupFinished, callVars
<1>7. CASE PlayKey \/ DTMFTimeout \/ CallEndedToneTimeout \/ WaitingTone \/ UNCHANGED vars
  BY <1>1, <1>7 DEF PlayKey, DTMFTimeout, CallEndedToneTimeout, WaitingTone, callVars, vars
<1> QED
  BY <1>1, <1>2, <1>3, <1>4, <1>5, <1>6, <1>7 DEF Next

\* The handler never holds an incoming call that nobody answered
\* (handler.cpp:168-185), however the call moves on while its channel becomes
\* ready and whoever handed it over.
THEOREM IncomingCallsAreApproved == Spec => []OnlyApprovedCalls
<1>1. Spec => []TypeOK
  BY TypeCorrect
<1> QED
  BY <1>1, InitApproved, NextApproved, PTL DEF Spec
-----------------------------------------------------------------------------
(* The time at which a call became active *)

LEMMA InitStamped == Init => ActiveIsStamped
BY DEF Init, ActiveIsStamped

LEMMA NextStamped == TypeOK /\ ActiveIsStamped /\ [Next]_vars => ActiveIsStamped'
<1> SUFFICES ASSUME TypeOK, ActiveIsStamped, [Next]_vars PROVE ActiveIsStamped'
  OBVIOUS
<1>1. CASE UNCHANGED <<remote, gone, mCallChannels, stamped>>
  BY <1>1 DEF ActiveIsStamped
<1>2. ASSUME NEW c \in Calls, StartCall(c) \/ ContactsAvailable(c) \/ NewChannel(c)
      PROVE  ActiveIsStamped'
  BY <1>2 DEF StartCall, ContactsAvailable, NewChannel, ActiveIsStamped, TypeOK
<1>3. ASSUME NEW c \in Calls, CallChannelReady(c) PROVE ActiveIsStamped'
  BY <1>3 DEF CallChannelReady, CallChannelAvailable, Stamp, ActiveIsStamped, TypeOK
<1>4. ASSUME NEW c \in Calls, CallStateChanged(c) PROVE ActiveIsStamped'
  BY <1>4 DEF CallStateChanged, Live, Heard, ActiveIsStamped, TypeOK
<1>5. ASSUME NEW c \in Calls, Invalidated(c) PROVE ActiveIsStamped'
  BY <1>5 DEF Invalidated, ActiveIsStamped
<1>6. ASSUME NEW c \in Calls, HandleChannels(c) \/ HangUpCall(c) \/ HangupFinished(c)
      PROVE  UNCHANGED <<remote, gone, mCallChannels, stamped>>
  BY <1>6 DEF HandleChannels, HangUpCall, HangupFinished, callVars
<1>7. CASE PlayKey \/ DTMFTimeout \/ CallEndedToneTimeout \/ WaitingTone \/ UNCHANGED vars
  BY <1>1, <1>7 DEF PlayKey, DTMFTimeout, CallEndedToneTimeout, WaitingTone, callVars, vars
<1> QED
  BY <1>1, <1>2, <1>3, <1>4, <1>5, <1>6, <1>7 DEF Next

\* A call in progress has its activeTimestamp, whether it was active when its
\* channel became ready or became so later (callhandler.cpp:282-287 and 384).
THEOREM ActiveCallsAreStamped == Spec => []ActiveIsStamped
<1>1. Spec => []TypeOK
  BY TypeCorrect
<1> QED
  BY <1>1, InitStamped, NextStamped, PTL DEF Spec
-----------------------------------------------------------------------------
(* The request to hang up that silences the call-ended tone *)

LEMMA InitHangup == Init => HangupFlagHasCall
BY DEF Init, HangupFlagHasCall

LEMMA NextHangup == HangupFlagHasCall /\ [Next]_vars => HangupFlagHasCall'
<1> SUFFICES ASSUME HangupFlagHasCall, [Next]_vars PROVE HangupFlagHasCall'
  OBVIOUS
<1>1. CASE UNCHANGED <<mHangupRequested, mCallChannels>>
  BY <1>1 DEF HangupFlagHasCall
<1>2. ASSUME NEW c \in Calls, CallChannelReady(c) PROVE HangupFlagHasCall'
  BY <1>2 DEF CallChannelReady, CallChannelAvailable, HangupFlagHasCall
<1>3. ASSUME NEW c \in Calls, HangupFinished(c) PROVE HangupFlagHasCall'
  <2>1. Cardinality(mCallChannels) = 1 => mCallChannels # {}
    BY FS_EmptySet
  <2> QED
    BY <1>3, <2>1 DEF HangupFinished, callVars, HangupFlagHasCall
<1>4. ASSUME NEW c \in Calls, Invalidated(c) PROVE HangupFlagHasCall'
  BY <1>4 DEF Invalidated, HangupFlagHasCall
<1>5. ASSUME NEW c \in Calls,
             \/ StartCall(c) \/ ContactsAvailable(c) \/ NewChannel(c)
             \/ HandleChannels(c) \/ CallStateChanged(c) \/ HangUpCall(c)
      PROVE  UNCHANGED <<mHangupRequested, mCallChannels>>
  BY <1>5 DEF StartCall, ContactsAvailable, NewChannel, HandleChannels, CallStateChanged,
              HangUpCall, callVars
<1>6. CASE PlayKey \/ DTMFTimeout \/ CallEndedToneTimeout \/ WaitingTone \/ UNCHANGED vars
  BY <1>1, <1>6 DEF PlayKey, DTMFTimeout, CallEndedToneTimeout, WaitingTone, callVars, vars
<1> QED
  BY <1>1, <1>2, <1>3, <1>4, <1>5, <1>6 DEF Next

\* The flag that silences the call-ended tone is down whenever the handler has
\* no call, even if the reply to hangup() comes after the last one is gone
\* (callhandler.cpp:323-358): the next call starts with a clean slate.
THEOREM HangupFlagIsCleared == Spec => []HangupFlagHasCall
BY InitHangup, NextHangup, PTL DEF Spec
-----------------------------------------------------------------------------
(* Tones *)

\* The parts of ToneHasCause that a generator alone decides.
TimersSet(g) ==
  /\ g.playing = "dtmf" => g.dtmfTimer
  /\ g.playing = "callEnded" => g.stops > 0
  /\ g.playing = "waiting" => g.waitingTimer

CallTone(g) == g.playing \in {"dialing", "ringing"}

LEMMA ToneCause == ToneHasCause <=> TimersSet(gen) /\ (CallTone(gen) => \E c \in Calls : Progressing(c))
BY DEF ToneHasCause, TimersSet, CallTone

\* Stopping a tone leaves silence; the call-ended tone comes with its timer.
LEMMA StopIsQuiet ==
  ASSUME NEW g \in Generator
  PROVE  /\ TimersSet(StopTone(g)) /\ ~CallTone(StopTone(g))
         /\ TimersSet(PlayCallEndedTone(StopTone(g)))
         /\ ~CallTone(PlayCallEndedTone(StopTone(g)))
<1>1. g.stops \in Nat
  BY MaxStopsAssumption DEF Generator
<1>2. g.stops + 1 > 0
  BY <1>1
<1> QED
  BY <1>2 DEF Generator, StopTone, PlayCallEndedTone, StartEventTone, TimersSet, CallTone

\* The tone for a new state of a call: silence, the old tone unless the call was
\* progressing and no longer is, or a tone for a call that now progresses.
LEMMA ToneForCause ==
  ASSUME NEW c \in Calls, NEW state, NEW g \in Generator, TimersSet(g)
  PROVE  /\ TimersSet(ToneFor(c, state, g))
         /\ CallTone(ToneFor(c, state, g)) =>
              \/ /\ c \notin Incoming /\ c \in Streaming
                 /\ state \in {"initialising", "initialised"}
              \/ /\ ToneFor(c, state, g) = g
                 /\ c \in Streaming => state # "active"
                 /\ state # "ended"
<1>1. /\ TimersSet(StopTone(g)) /\ ~CallTone(StopTone(g))
  BY StopIsQuiet
<1>2. TimersSet(PlayDialingTone(g)) /\ TimersSet(PlayRingingTone(StopTone(g)))
  BY DEF TimersSet, PlayDialingTone, PlayRingingTone, StartEventTone, StopTone, Generator
<1> QED
  BY <1>1, <1>2 DEF ToneFor

\* Keys, timers and the waiting tone play no dialing or ringing tone, and what
\* they play has its timer.
LEMMA TimedTones ==
  ASSUME NEW g \in Generator, TimersSet(g),
         NEW h \in {StopDTMFTone(g), CallEndedTimeout(g), PlayWaitingTone(g),
                    StopWaitingTone(g), PlayDTMFTone(g, 1), PlayDTMFTone(g, -1)}
  PROVE  TimersSet(h) /\ (CallTone(h) => CallTone(g))
<1> USE DEF TimersSet, CallTone, Generator, StartEventTone, StopTone
<1>1. CASE h = StopDTMFTone(g)
  BY <1>1 DEF StopDTMFTone
<1>2. CASE h = CallEndedTimeout(g)
  BY <1>2 DEF CallEndedTimeout
<1>3. CASE h = PlayWaitingTone(g)
  BY <1>3 DEF PlayWaitingTone
<1>4. CASE h = StopWaitingTone(g)
  BY <1>4 DEF StopWaitingTone
<1>5. CASE h = PlayDTMFTone(g, 1)
  BY <1>5 DEF PlayDTMFTone
<1>6. CASE h = PlayDTMFTone(g, -1)
  BY <1>6 DEF PlayDTMFTone
<1> QED
  BY <1>1, <1>2, <1>3, <1>4, <1>5, <1>6

LEMMA InitTones == Init => ToneHasCause
BY DEF Init, Quiet, ToneHasCause

LEMMA NextTones == TypeOK /\ ToneHasCause /\ [Next]_vars => ToneHasCause'
<1> SUFFICES ASSUME TypeOK, ToneHasCause, [Next]_vars PROVE ToneHasCause'
  OBVIOUS
<1>0. gen \in Generator
  BY DEF TypeOK
<1>1. CASE UNCHANGED <<gen, remote, gone, mCallChannels>>
  BY <1>1 DEF ToneHasCause, Progressing, Heard
<1>2. ASSUME NEW c \in Calls, StartCall(c) \/ ContactsAvailable(c) \/ NewChannel(c)
      PROVE  ToneHasCause'
  <2>1. UNCHANGED <<gen, gone, mCallChannels>>
    BY <1>2 DEF StartCall, ContactsAvailable, NewChannel
  <2>2. \A d \in Calls : Progressing(d) => remote'[d] = remote[d]
    BY <1>2 DEF StartCall, ContactsAvailable, NewChannel, TypeOK, Progressing
  <2> QED
    BY <2>1, <2>2 DEF ToneHasCause, Progressing, Heard
<1>3. ASSUME NEW c \in Calls, CallChannelReady(c) PROVE ToneHasCause'
  <2>1. UNCHANGED <<gen, gone>> /\ mCallChannels \subseteq mCallChannels'
    BY <1>3 DEF CallChannelReady, CallChannelAvailable
  <2>2. \A d \in Calls : Progressing(d) => remote'[d] = remote[d]
    BY <1>3 DEF CallChannelReady, CallChannelAvailable, TypeOK, Progressing
  <2> QED
    BY <2>1, <2>2 DEF ToneHasCause, Progressing, Heard
<1>4. ASSUME NEW c \in Calls, CallStateChanged(c) PROVE ToneHasCause'
  <2>1. PICK state \in NextStates(c) :
          /\ remote' = [remote EXCEPT ![c] = state]
          /\ \/ Heard(c) /\ gen' = ToneFor(c, state, gen)
             \/ ~Heard(c) /\ UNCHANGED gen
    BY <1>4 DEF CallStateChanged
  <2>2. UNCHANGED <<gone, mCallChannels>>
    BY <1>4 DEF CallStateChanged
  <2>3. \A d \in Calls \ {c} : Progressing(d) => Progressing(d)'
    BY <2>1, <2>2 DEF TypeOK, Progressing, Heard
  <2>4. remote'[c] = state
    BY <2>1 DEF TypeOK
  <2>5. CASE ~Heard(c) /\ UNCHANGED gen
    BY <2>3, <2>5 DEF ToneHasCause, Progressing
  <2>6. CASE Heard(c) /\ gen' = ToneFor(c, state, gen)
    <3>1. TimersSet(gen')
      BY <1>0, <2>6, ToneCause, ToneForCause DEF TimersSet
    <3>2. CASE /\ c \notin Incoming /\ c \in Streaming
               /\ state \in {"initialising", "initialised"}
      BY <2>2, <2>4, <2>6, <3>1, <3>2 DEF ToneHasCause, TimersSet, Progressing, Heard
    <3>3. CASE /\ gen' = gen
               /\ c \in Streaming => state # "active"
               /\ state # "ended"
      <4>1. Progressing(c) => state \in {"initialised", "accepted"}
        BY <2>1, <3>3 DEF NextStates, Progressing
      <4>2. Progressing(c) => Progressing(c)'
        BY <2>2, <2>4, <4>1 DEF Progressing, Heard
      <4> QED
        BY <2>3, <3>3, <4>2 DEF ToneHasCause
    <3>4. CASE ~CallTone(gen')
      BY <3>1, <3>4 DEF ToneHasCause, CallTone, TimersSet
    <3> QED
      BY <1>0, <2>6, <3>2, <3>3, <3>4, ToneCause, ToneForCause DEF CallTone
  <2> QED
    BY <2>1, <2>5, <2>6
<1>5. ASSUME NEW c \in Calls, Invalidated(c) PROVE ToneHasCause'
  <2>1. CASE c \in mCallChannels
    <3>1. TimersSet(gen') /\ ~CallTone(gen')
      BY <1>0, <1>5, <2>1, StopIsQuiet DEF Invalidated, TimersSet, CallTone
    <3> QED
      BY <3>1 DEF ToneHasCause, TimersSet, CallTone
  <2>2. CASE c \notin mCallChannels
    <3>1. UNCHANGED <<gen, mCallChannels, remote>> /\ gone' = gone \cup {c}
      BY <1>5, <2>2 DEF Invalidated
    <3> QED
      BY <2>2, <3>1 DEF ToneHasCause, Progressing, Heard
  <2> QED
    BY <2>1, <2>2
<1>6. ASSUME NEW c \in Calls, HandleChannels(c) \/ HangUpCall(c) \/ HangupFinished(c)
      PROVE  UNCHANGED <<gen, remote, gone, mCallChannels>>
  BY <1>6 DEF HandleChannels, HangUpCall, HangupFinished, callVars
<1>7. CASE PlayKey \/ DTMFTimeout \/ CallEndedToneTimeout \/ WaitingTone
  <2>1. UNCHANGED <<remote, gone, mCallChannels>>
    BY <1>7 DEF PlayKey, DTMFTimeout, CallEndedToneTimeout, WaitingTone, callVars
  <2>2. TimersSet(gen) /\ (CallTone(gen) => \E c \in Calls : Progressing(c))
    BY ToneCause
  <2>3. TimersSet(gen') /\ (CallTone(gen') => CallTone(gen))
    BY <1>0, <1>7, <2>2, TimedTones
    DEF PlayKey, DTMFTimeout, CallEndedToneTimeout, WaitingTone
  <2> QED
    BY <2>1, <2>2, <2>3 DEF ToneHasCause, TimersSet, CallTone, Progressing, Heard
<1>8. CASE UNCHANGED vars
  BY <1>1, <1>8 DEF vars, callVars
<1> QED
  BY <1>1, <1>2, <1>3, <1>4, <1>5, <1>6, <1>7, <1>8 DEF Next

\* A tone always has its cause: no dialing or ringing tone goes on once no VoIP
\* call of the user is on its way, and key, waiting and call-ended tones have a
\* running timer that stops them (callhandler.cpp:339-391, tonegenerator.cpp).
THEOREM TonesHaveCause == Spec => []ToneHasCause
<1>1. Spec => []TypeOK
  BY TypeCorrect
<1> QED
  BY <1>1, InitTones, NextTones, PTL DEF Spec

-----------------------------------------------------------------------------
(***************************************************************************)
(* Each valid key is sent once on every content.                           *)
(*                                                                         *)
(* The keys wait in one queue, but each key that comes to its head gets    *)
(* one pump per content, and pumps wait for replies and timers of their    *)
(* own. What counts is the last key that has been at the head: the keys up *)
(* to it have exactly one pump or tone per content, the others are in the  *)
(* queue.                                                                  *)
(***************************************************************************)

\* The last key that has been at the head of the queue, and was given its pumps.
LastPlayed ==
  IF pendingDTMF = <<>> THEN sent ELSE sent - Len(pendingDTMF) + 1

\* The queue holds the last keys that were sent, in order.
QueueIsTail ==
  /\ Len(pendingDTMF) <= sent
  /\ \A i \in 1..Len(pendingDTMF) : pendingDTMF[i] = sent - Len(pendingDTMF) + i

\* A content has one pump at most for a key that has been at the head.
OnePumpForKey ==
  /\ \A p \in pumps : p.key <= LastPlayed
  /\ \A p, q \in pumps : p.content = q.content /\ p.key = q.key /\ p.key # 0 => p = q

\* What was started had its pump, and that pump is in its pause.
StartedByPump ==
  /\ \A x \in Contents : \A i \in DOMAIN started[x] : started[x][i] <= LastPlayed
  /\ \A p \in pumps : p.stage # "pausing" /\ HasEvent(p) => p.key \notin Started(p.content)

\* Every key that has been at the head is started or waits.
PlayedIsCarried ==
  \A k \in (1..LastPlayed) \ Invalid : \A x \in Contents :
     k \in Started(x) \cup Waiting(x)

KeysInv ==
  /\ DTMFTypeOK /\ IsFiniteSet(pumps)
  /\ QueueIsTail /\ OnePumpForKey /\ StartedByPump /\ PlayedIsCarried /\ NoKeyTwice
-----------------------------------------------------------------------------
(* The pumps that playNextDTMFTone() starts                                  *)

LEMMA InjectionFits ==
  ASSUME NEW S, NEW T, IsFiniteSet(S), IsFiniteSet(T), Cardinality(S) <= Cardinality(T)
  PROVE  \E f \in [S -> T] : \A x, y \in S : f[x] = f[y] => x = y
<1> DEFINE n == Cardinality(S)
           m == Cardinality(T)
<1>1. n \in Nat /\ m \in Nat
  BY FS_CardinalityType
<1>2. PICK b \in Bijection(1..n, S) : TRUE
  BY FS_CardinalityType DEF ExistsBijection
<1>3. PICK c \in Bijection(1..m, T) : TRUE
  BY FS_CardinalityType DEF ExistsBijection
<1>4. /\ b \in [1..n -> S] /\ \A x \in S : \E i \in 1..n : b[i] = x
  BY <1>2 DEF Bijection, Surjection, Injection
<1>5. /\ c \in [1..m -> T] /\ \A i, j \in 1..m : c[i] = c[j] => i = j
  BY <1>3 DEF Bijection, Injection, IsInjective
<1> HIDE DEF n, m
<1> DEFINE at == [x \in S |-> CHOOSE i \in 1..n : b[i] = x]
           f == [x \in S |-> c[at[x]]]
<1>6. \A x \in S : at[x] \in 1..n /\ b[at[x]] = x
  BY <1>4
<1>7. \A i \in 1..n : i \in 1..m
  BY <1>1 DEF n, m
<1>8. f \in [S -> T]
  BY <1>5, <1>6, <1>7
<1>9. ASSUME NEW x \in S, NEW y \in S, f[x] = f[y] PROVE x = y
  <2>1. at[x] = at[y]
    BY <1>5, <1>6, <1>7, <1>9
  <2> QED
    BY <2>1, <1>6
<1> QED
  BY <1>8, <1>9

LEMMA PlayNextStep ==
  ASSUME NEW P \in SUBSET Pump, IsFiniteSet(P), RoomFor(P), NEW q \in Seq(1..MaxKeys)
  PROVE  LET key == IF q = <<>> THEN 0 ELSE Head(q)
             N == PlayNext(q, P)
         IN /\ N \in SUBSET Pump /\ IsFiniteSet(N) /\ P \subseteq N
            /\ \A p \in N \ P : p.key = key /\ p.stage = "stopping"
            /\ \A p, r \in N \ P : p.content = r.content => p = r
            /\ \A x \in Contents : \E p \in N :
                  p.content = x /\ p.key = key /\ p.stage = "stopping"
<1> DEFINE key == IF q = <<>> THEN 0 ELSE Head(q)
           number == CHOOSE f \in [Contents -> Free(P)] :
                       \A x, y \in Contents : f[x] = f[y] => x = y
           new(x) == [content |-> x, key |-> key, stage |-> "stopping", n |-> number[x]]
           New == {new(x) : x \in Contents}
<1>1. PlayNext(q, P) = P \cup New
  BY DEF PlayNext
<1>2. IsFiniteSet(Contents) /\ MaxPumps \in Nat /\ MaxKeys \in Nat
  BY DTMFAssumption
<1>3. Free(P) \subseteq 1..MaxPumps /\ IsFiniteSet(Free(P))
  <2>1. Free(P) \in SUBSET (1..MaxPumps)
    BY DEF Free
  <2>2. IsFiniteSet(1..MaxPumps)
    BY <1>2, FS_Interval
  <2> QED
    BY <2>1, <2>2, FS_Subset
<1>4. number \in [Contents -> Free(P)]
  BY <1>2, <1>3, InjectionFits DEF RoomFor
<1>5. key \in 0..MaxKeys
  BY <1>2
<1> HIDE DEF number, key
<1>6. \A x \in Contents : new(x) \in Pump
  BY <1>3, <1>4, <1>5 DEF Pump, Stage
<1>7. IsFiniteSet(New)
  <2> DEFINE F == [x \in Contents |-> new(x)]
  <2>1. F \in Surjection(Contents, New)
    BY DEF Surjection
  <2> QED
    BY <2>1, <1>2, FS_Surjection
<1>8. IsFiniteSet(P \cup New)
  BY <1>7, FS_Union
<1>9. \A p \in New : p.key = key /\ p.stage = "stopping"
  OBVIOUS
<1>10. \A p, r \in New : p.content = r.content => p = r
  OBVIOUS
<1>11. \A x \in Contents : new(x) \in New /\ new(x).content = x
                           /\ new(x).key = key /\ new(x).stage = "stopping"
  OBVIOUS
<1>12. New \subseteq Pump
  BY <1>6
<1> HIDE DEF New
<1>13. \A x \in Contents : \E p \in New : p.content = x /\ p.key = key /\ p.stage = "stopping"
  BY <1>11
<1> QED
  BY <1>1, <1>8, <1>9, <1>10, <1>12, <1>13 DEF key
-----------------------------------------------------------------------------
(* One lemma per step                                                        *)

\* playNextDTMFTone() on what is left of the queue, after which a key that is
\* new at the head has one pump on every content.
LEMMA HeadStep ==
  ASSUME KeysInv, NEW P \in SUBSET pumps, \A p \in pumps \ P : p.stage = "pausing",
         RoomFor(P), pumps' = PlayNext(pendingDTMF', P), UNCHANGED <<sending, started>>,
         sent' \in 0..MaxKeys, pendingDTMF' \in Seq(1..MaxKeys), QueueIsTail',
         IF pendingDTMF' = <<>> THEN LastPlayed' = LastPlayed
         ELSE LastPlayed' = LastPlayed + 1 /\ Head(pendingDTMF') = LastPlayed'
  PROVE  KeysInv'
<1> DEFINE key == IF pendingDTMF' = <<>> THEN 0 ELSE Head(pendingDTMF')
<1>0. /\ DTMFTypeOK /\ IsFiniteSet(pumps) /\ P \in SUBSET Pump
      /\ LastPlayed \in Nat /\ LastPlayed' \in Nat
  BY DEF KeysInv, DTMFTypeOK, LastPlayed, QueueIsTail
<1>1. IsFiniteSet(P)
  BY <1>0, FS_Subset
<1>2. /\ pumps' \in SUBSET Pump /\ IsFiniteSet(pumps') /\ P \subseteq pumps'
      /\ \A p \in pumps' \ P : p.key = key /\ p.stage = "stopping"
      /\ \A p, r \in pumps' \ P : p.content = r.content => p = r
      /\ \A x \in Contents : \E p \in pumps' :
            p.content = x /\ p.key = key /\ p.stage = "stopping"
  BY <1>0, <1>1, PlayNextStep
<1>3. key # 0 => key = LastPlayed + 1 /\ LastPlayed' = LastPlayed + 1
  OBVIOUS
<1>4. key = 0 => LastPlayed' = LastPlayed
  BY <1>0
<1> HIDE DEF key
<1>5. \A p \in pumps : p.key \in Nat /\ p.key <= LastPlayed
  BY <1>0, DTMFAssumption DEF KeysInv, OnePumpForKey, DTMFTypeOK, Pump
<1>6. DTMFTypeOK'
  BY <1>0, <1>2 DEF DTMFTypeOK
<1>7. OnePumpForKey'
  <2>1. \A p \in pumps' : p.key <= LastPlayed'
    BY <1>0, <1>2, <1>3, <1>4, <1>5
  <2>2. ASSUME NEW p \in pumps', NEW r \in pumps',
               p.content = r.content, p.key = r.key, p.key # 0
        PROVE  p = r
    BY <1>0, <1>2, <1>3, <1>5, <2>2 DEF KeysInv, OnePumpForKey
  <2> QED
    BY <2>1, <2>2 DEF OnePumpForKey
<1>8. StartedByPump'
  <2>0. started' = started /\ \A x \in Contents : Started(x)' = Started(x)
    BY DEF Started
  <2>1. \A x \in Contents : \A i \in DOMAIN started[x] :
          started[x][i] \in Nat /\ started[x][i] <= LastPlayed
    BY <1>0, DTMFAssumption DEF KeysInv, StartedByPump, DTMFTypeOK
  <2>2. \A x \in Contents : \A i \in DOMAIN started'[x] : started'[x][i] <= LastPlayed'
    BY <1>0, <1>3, <1>4, <2>0, <2>1
  <2>3. ASSUME NEW p \in pumps', p.stage # "pausing", HasEvent(p)
        PROVE  p.key \notin Started(p.content)
    <3>1. CASE p \in P
      BY <2>3, <3>1 DEF KeysInv, StartedByPump
    <3>2. CASE p \notin P
      <4>1. p.key = LastPlayed + 1 /\ p.content \in Contents
        BY <1>2, <1>3, <2>3, <3>2 DEF HasEvent, Pump
      <4> QED
        BY <4>1, <2>1, <1>0 DEF Started
    <3> QED
      BY <3>1, <3>2
  <2>4. \A p \in pumps' : p.content \in Contents
    BY <1>2 DEF Pump
  <2> QED
    BY <2>0, <2>2, <2>3, <2>4 DEF StartedByPump, HasEvent
<1>9. PlayedIsCarried'
  <2> SUFFICES ASSUME NEW k \in (1..LastPlayed') \ Invalid, NEW x \in Contents,
                      k \notin Started(x)'
               PROVE  k \in Waiting(x)'
    BY DEF PlayedIsCarried
  <2>0. k \notin Started(x)
    BY DEF Started
  <2>1. CASE k <= LastPlayed
    <3>1. k \in Waiting(x)
      BY <1>0, <2>0, <2>1 DEF KeysInv, PlayedIsCarried
    <3>2. PICK p \in pumps : p.content = x /\ p.stage # "pausing" /\ p.key = k
      BY <3>1 DEF Waiting
    <3> QED
      BY <3>2, <1>2 DEF Waiting
  <2>2. CASE ~(k <= LastPlayed)
    <3>1. key = k
      BY <1>0, <1>3, <1>4, <2>2
    <3> QED
      BY <3>1, <1>2 DEF Waiting
  <2> QED
    BY <2>1, <2>2
<1>10. NoKeyTwice'
  BY DEF KeysInv, NoKeyTwice
<1> QED
  BY <1>2, <1>6, <1>7, <1>8, <1>9, <1>10 DEF KeysInv

LEMMA SendStep ==
  ASSUME KeysInv, SendDTMF
  PROVE  KeysInv'
<1>1. /\ sent \in Nat /\ sent + 1 \in 1..MaxKeys /\ sent' = sent + 1
      /\ pendingDTMF \in Seq(1..MaxKeys)
      /\ pendingDTMF' = Append(pendingDTMF, sent + 1)
      /\ UNCHANGED <<sending, started>>
      /\ Len(pendingDTMF) <= sent
      /\ \A i \in 1..Len(pendingDTMF) : pendingDTMF[i] = sent - Len(pendingDTMF) + i
  BY DTMFAssumption DEF KeysInv, DTMFTypeOK, QueueIsTail, SendDTMF, Queue
<1>2. /\ pendingDTMF' \in Seq(1..MaxKeys) /\ Len(pendingDTMF') = Len(pendingDTMF) + 1
      /\ \A i \in 1..Len(pendingDTMF) : pendingDTMF'[i] = pendingDTMF[i]
      /\ pendingDTMF'[Len(pendingDTMF) + 1] = sent + 1
      /\ pendingDTMF' # <<>> /\ Head(pendingDTMF') = pendingDTMF'[1]
      /\ Len(pendingDTMF) \in Nat /\ (Len(pendingDTMF) = 0 <=> pendingDTMF = <<>>)
  BY <1>1
<1>3. QueueIsTail' /\ sent' \in 0..MaxKeys
  BY <1>1, <1>2 DEF QueueIsTail
<1>4. CASE Len(pendingDTMF') = 1
  <2>1. RoomFor(pumps) /\ pumps' = PlayNext(pendingDTMF', pumps)
    BY <1>4 DEF SendDTMF, Queue
  <2>2. LastPlayed' = LastPlayed + 1 /\ Head(pendingDTMF') = LastPlayed'
    BY <1>1, <1>2, <1>4 DEF LastPlayed
  <2> QED
    BY <1>1, <1>2, <1>3, <2>1, <2>2, HeadStep
<1>5. CASE Len(pendingDTMF') # 1
  <2>1. UNCHANGED <<pumps, started, sending>>
    BY <1>1, <1>5 DEF SendDTMF, Queue
  <2>2. LastPlayed' = LastPlayed
    BY <1>1, <1>2, <1>5 DEF LastPlayed
  <2>3. DTMFTypeOK'
    BY <1>2, <1>3, <2>1 DEF KeysInv, DTMFTypeOK
  <2> QED
    BY <1>3, <2>1, <2>2, <2>3 DEF KeysInv, OnePumpForKey, StartedByPump, PlayedIsCarried,
       NoKeyTwice, Started, Waiting, HasEvent
<1> QED
  BY <1>4, <1>5

LEMMA TimeoutStep ==
  ASSUME KeysInv, NEW p \in pumps, Timeout(p)
  PROVE  KeysInv'
<1>1. /\ p.stage = "pausing" /\ UNCHANGED <<sent, sending, started>>
      /\ sent \in 0..MaxKeys /\ pendingDTMF \in Seq(1..MaxKeys) /\ MaxKeys \in Nat
      /\ IsFiniteSet(pumps)
  BY DTMFAssumption DEF Timeout, KeysInv, DTMFTypeOK
<1>2. CASE pendingDTMF = <<>> /\ pumps' = pumps \ {p} /\ UNCHANGED pendingDTMF
  <2>1. LastPlayed' = LastPlayed /\ \A x : Started(x)' = Started(x)
    BY <1>1, <1>2 DEF LastPlayed, Started
  <2>2. \A x : Waiting(x)' = Waiting(x)
    BY <1>1, <1>2 DEF Waiting
  <2>3. IsFiniteSet(pumps')
    BY <1>1, <1>2, FS_RemoveElement
  <2>4. DTMFTypeOK' /\ QueueIsTail' /\ NoKeyTwice'
    BY <1>1, <1>2 DEF KeysInv, DTMFTypeOK, QueueIsTail, NoKeyTwice
  <2>5. OnePumpForKey' /\ StartedByPump' /\ PlayedIsCarried'
    BY <1>1, <1>2, <2>1, <2>2
       DEF KeysInv, OnePumpForKey, StartedByPump, PlayedIsCarried, HasEvent
  <2> QED
    BY <2>3, <2>4, <2>5 DEF KeysInv
<1>3. CASE Next250(p)
  <2>1. /\ pendingDTMF # <<>> /\ pendingDTMF' = Tail(pendingDTMF) /\ RoomFor(pumps \ {p})
        /\ pumps' = PlayNext(pendingDTMF', pumps \ {p})
    BY <1>3 DEF Next250
  <2> DEFINE m == Len(pendingDTMF)
  <2>2. m \in Nat \ {0}
    BY <1>1, <2>1
  <2>3. pendingDTMF' \in Seq(1..MaxKeys) /\ Len(pendingDTMF') = m - 1
    BY <1>1, <2>1
  <2>4. \A i \in 1..(m - 1) : pendingDTMF'[i] = pendingDTMF[i + 1]
    BY <1>1, <2>1, <2>2
  <2>5. m <= sent /\ \A i \in 1..m : pendingDTMF[i] = sent - m + i
    BY DEF KeysInv, QueueIsTail
  <2> HIDE DEF m
  <2>6. \A i \in 1..(m - 1) : pendingDTMF'[i] = sent - (m - 1) + i
    BY <1>1, <2>2, <2>4, <2>5
  <2>7. QueueIsTail'
    BY <1>1, <2>2, <2>3, <2>5, <2>6 DEF QueueIsTail
  <2>8. LastPlayed = sent - m + 1
    BY <2>1 DEF LastPlayed, m
  <2>9. CASE pendingDTMF' = <<>>
    <3>1. m = 1 /\ LastPlayed' = sent
      BY <1>1, <2>2, <2>3, <2>9 DEF LastPlayed
    <3>2. LastPlayed' = LastPlayed
      BY <1>1, <3>1, <2>8
    <3> QED
      BY <1>1, <2>1, <2>3, <2>7, <2>9, <3>2, HeadStep
  <2>10. CASE pendingDTMF' # <<>>
    <3>1. m - 1 >= 1 /\ Head(pendingDTMF') = pendingDTMF'[1]
      BY <2>2, <2>3, <2>10
    <3>2. Head(pendingDTMF') = sent - (m - 1) + 1
      BY <2>2, <2>6, <3>1
    <3>3. LastPlayed' = sent - (m - 1) + 1
      BY <1>1, <2>3, <2>10 DEF LastPlayed
    <3>4. LastPlayed' = LastPlayed + 1 /\ Head(pendingDTMF') = LastPlayed'
      BY <1>1, <2>2, <2>8, <3>2, <3>3
    <3> QED
      BY <1>1, <2>1, <2>3, <2>7, <2>10, <3>4, HeadStep
  <2> QED
    BY <2>9, <2>10
<1> QED
  BY <1>2, <1>3 DEF Timeout

\* A pump goes on to its next stage: on its way to the tone, or into its pause
\* when the tone is started (or there is none to start).
LEMMA MoveStep ==
  ASSUME KeysInv, NEW p \in pumps, NEW stage \in Stage, p.stage # "pausing",
         stage # "pausing", Move(p, stage), UNCHANGED <<sent, pendingDTMF, sending, started>>
  PROVE  KeysInv'
<1> DEFINE r == [p EXCEPT !.stage = stage]
<1>1. /\ p \in Pump /\ pumps' = (pumps \ {p}) \cup {r}
      /\ pumps \in SUBSET Pump /\ IsFiniteSet(pumps)
  BY DEF KeysInv, DTMFTypeOK, Move
<1>2. r \in Pump /\ r.content = p.content /\ r.key = p.key /\ r.stage = stage
  BY <1>1 DEF Pump
<1> HIDE DEF r
<1>3. IsFiniteSet(pumps')
  BY <1>1, FS_RemoveElement, FS_AddElement
<1>4. LastPlayed' = LastPlayed /\ \A x : Started(x)' = Started(x)
  BY DEF LastPlayed, Started
<1>5. DTMFTypeOK' /\ QueueIsTail' /\ NoKeyTwice'
  BY <1>1, <1>2 DEF KeysInv, DTMFTypeOK, QueueIsTail, NoKeyTwice
<1>6. OnePumpForKey'
  BY <1>1, <1>2, <1>4 DEF KeysInv, OnePumpForKey
<1>7. StartedByPump'
  BY <1>1, <1>2, <1>4 DEF KeysInv, StartedByPump, HasEvent
<1>8. \A x : Waiting(x)' = Waiting(x)
  <2> SUFFICES ASSUME NEW x, NEW k PROVE k \in Waiting(x)' <=> k \in Waiting(x)
    OBVIOUS
  <2>1. k \in Waiting(x) <=> \E q \in pumps : q.content = x /\ q.stage # "pausing" /\ q.key = k
    BY DEF Waiting
  <2>2. k \in Waiting(x)' <=> \E q \in pumps' : q.content = x /\ q.stage # "pausing" /\ q.key = k
    BY DEF Waiting
  <2> QED
    BY <1>1, <1>2, <2>1, <2>2
<1>9. PlayedIsCarried'
  BY <1>4, <1>8 DEF KeysInv, PlayedIsCarried
<1> QED
  BY <1>3, <1>5, <1>6, <1>7, <1>9 DEF KeysInv

LEMMA StartStep ==
  ASSUME KeysInv, NEW p \in pumps, p.stage # "pausing", Start(p)
  PROVE  KeysInv'
<1> DEFINE r == [p EXCEPT !.stage = "pausing"]
<1>1. /\ p \in Pump /\ pumps' = (pumps \ {p}) \cup {r}
      /\ pumps \in SUBSET Pump /\ IsFiniteSet(pumps) /\ UNCHANGED <<sent, pendingDTMF>>
      /\ started \in [Contents -> Seq(1..MaxKeys)] /\ MaxKeys \in Nat
  BY DTMFAssumption DEF KeysInv, DTMFTypeOK, Start, Move
<1>2. r \in Pump /\ r.content = p.content /\ r.key = p.key /\ r.stage = "pausing"
  BY <1>1 DEF Pump, Stage
<1> HIDE DEF r
<1>3. IsFiniteSet(pumps')
  BY <1>1, FS_RemoveElement, FS_AddElement
<1>4. LastPlayed' = LastPlayed /\ LastPlayed \in Nat
  BY <1>1 DEF LastPlayed, KeysInv, DTMFTypeOK, QueueIsTail
<1>5. OnePumpForKey'
  BY <1>1, <1>2, <1>4 DEF KeysInv, OnePumpForKey
<1>6. p.content \in Contents /\ p.key \in 0..MaxKeys /\ p.key <= LastPlayed
  BY <1>1 DEF Pump, KeysInv, OnePumpForKey
<1>7. QueueIsTail'
  BY <1>1 DEF KeysInv, QueueIsTail
<1>8. \A x, k : k \in Waiting(x) =>
         k \in Waiting(x)' \/ (x = p.content /\ k = p.key)
  <2> SUFFICES ASSUME NEW x, NEW k, k \in Waiting(x)
               PROVE  k \in Waiting(x)' \/ (x = p.content /\ k = p.key)
    OBVIOUS
  <2>1. PICK q \in pumps : q.content = x /\ q.stage # "pausing" /\ q.key = k
    BY DEF Waiting
  <2>2. q # p => q \in pumps'
    BY <1>1
  <2> QED
    BY <2>1, <2>2 DEF Waiting
<1>9. CASE HasEvent(p)
  <2> DEFINE c == p.content
  <2>1. /\ started' = [started EXCEPT ![c] = Append(@, p.key)]
        /\ sending' = sending \cup {c}
    BY <1>9 DEF Start
  <2>2. p.key \in 1..MaxKeys /\ p.key \notin Invalid
    BY <1>1, <1>6, <1>9 DEF HasEvent
  <2>3. \A x \in Contents : x # c => started'[x] = started[x]
    BY <1>1, <2>1
  <2>4. started[c] \in Seq(1..MaxKeys) /\ started'[c] = Append(started[c], p.key)
    BY <1>1, <1>6, <2>1
  <2>5. p.key \notin Started(c)
    BY <1>9 DEF KeysInv, StartedByPump
  <2>6. /\ Len(started[c]) \in Nat /\ Len(started'[c]) = Len(started[c]) + 1
        /\ DOMAIN started[c] = 1..Len(started[c])
        /\ DOMAIN started'[c] = 1..(Len(started[c]) + 1)
    BY <2>2, <2>4
  <2>7. /\ \A i \in DOMAIN started[c] : started'[c][i] = started[c][i]
        /\ started'[c][Len(started[c]) + 1] = p.key
    BY <2>2, <2>4
  <2>8. started' \in [Contents -> Seq(1..MaxKeys)]
    <3>1. started'[c] \in Seq(1..MaxKeys)
      BY <2>2, <2>4
    <3> QED
      BY <1>1, <1>6, <2>1, <2>3, <3>1
  <2>9. DTMFTypeOK'
    BY <1>1, <1>2, <1>6, <2>1, <2>8 DEF KeysInv, DTMFTypeOK
  <2>10. \A x \in Contents : Started(x)' = Started(x) \cup (IF x = c THEN {p.key} ELSE {})
    <3> SUFFICES ASSUME NEW x \in Contents
                 PROVE  Started(x)' = Started(x) \cup (IF x = c THEN {p.key} ELSE {})
      OBVIOUS
    <3>1. CASE x # c
      BY <2>3, <3>1 DEF Started
    <3>2. CASE x = c
      BY <2>6, <2>7, <3>2 DEF Started
    <3> QED
      BY <3>1, <3>2
  <2>11. StartedByPump'
    <3>1. \A x \in Contents : \A i \in DOMAIN started'[x] : started'[x][i] <= LastPlayed'
      <4> SUFFICES ASSUME NEW x \in Contents, NEW i \in DOMAIN started'[x]
                   PROVE  started'[x][i] <= LastPlayed
        BY <1>4
      <4>1. started'[x][i] \in Started(x)'
        BY DEF Started
      <4>2. CASE started'[x][i] \in Started(x)
        BY <4>2 DEF KeysInv, StartedByPump, Started
      <4>3. CASE started'[x][i] = p.key
        BY <1>6, <4>3
      <4> QED
        BY <2>10, <4>1, <4>2, <4>3
    <3>2. ASSUME NEW q \in pumps', q.stage # "pausing", HasEvent(q)
          PROVE  q.key \notin Started(q.content)'
      <4>1. q \in pumps /\ q # p /\ q.content \in Contents
        BY <1>1, <1>2, <3>2 DEF Pump
      <4>2. q.key \notin Started(q.content)
        BY <3>2, <4>1 DEF KeysInv, StartedByPump
      <4>3. ~(q.content = c /\ q.key = p.key)
        BY <3>2, <4>1 DEF KeysInv, OnePumpForKey, HasEvent
      <4> QED
        BY <2>10, <4>1, <4>2, <4>3
    <3> QED
      BY <3>1, <3>2 DEF StartedByPump, HasEvent
  <2>12. PlayedIsCarried'
    BY <1>4, <1>8, <2>10 DEF KeysInv, PlayedIsCarried
  <2>13. NoKeyTwice'
    <3> SUFFICES ASSUME NEW x \in Contents, NEW i \in DOMAIN started'[x],
                        NEW j \in DOMAIN started'[x], started'[x][i] = started'[x][j]
                 PROVE  i = j
      BY DEF NoKeyTwice
    <3>1. CASE x # c
      BY <2>3, <3>1 DEF KeysInv, NoKeyTwice
    <3>2. CASE x = c
      <4>1. \A h \in DOMAIN started[c] : started[c][h] # p.key
        BY <2>5 DEF Started
      <4>2. \A g, h \in DOMAIN started[c] : started[c][g] = started[c][h] => g = h
        BY <1>6 DEF KeysInv, NoKeyTwice
      <4>3. CASE i \in DOMAIN started[c] /\ j \in DOMAIN started[c]
        BY <2>7, <3>2, <4>2, <4>3
      <4>4. CASE i \in DOMAIN started[c] /\ j \notin DOMAIN started[c]
        BY <2>6, <2>7, <3>2, <4>1, <4>4
      <4>5. CASE i \notin DOMAIN started[c] /\ j \in DOMAIN started[c]
        BY <2>6, <2>7, <3>2, <4>1, <4>5
      <4>6. CASE i \notin DOMAIN started[c] /\ j \notin DOMAIN started[c]
        BY <2>6, <3>2, <4>6
      <4> QED
        BY <4>3, <4>4, <4>5, <4>6
    <3> QED
      BY <3>1, <3>2
  <2> QED
    BY <1>3, <1>5, <1>7, <2>9, <2>11, <2>12, <2>13 DEF KeysInv
<1>10. CASE ~HasEvent(p)
  <2>1. UNCHANGED <<started, sending>> /\ \A x : Started(x)' = Started(x)
    BY <1>10 DEF Start, Started
  <2>2. DTMFTypeOK' /\ NoKeyTwice'
    BY <1>1, <1>2, <2>1 DEF KeysInv, DTMFTypeOK, NoKeyTwice
  <2>3. StartedByPump'
    BY <1>1, <1>2, <1>4, <2>1 DEF KeysInv, StartedByPump, HasEvent
  <2>4. PlayedIsCarried'
    BY <1>4, <1>8, <1>10, <2>1 DEF KeysInv, PlayedIsCarried, HasEvent
  <2> QED
    BY <1>3, <1>5, <1>7, <2>2, <2>3, <2>4 DEF KeysInv
<1> QED
  BY <1>9, <1>10

\* The tones of all the pumps that wait on a content start one after the other:
\* they are of different keys.
LEMMA StoppedStep ==
  ASSUME KeysInv, NEW x \in Contents, StoppedTones(x)
  PROVE  KeysInv'
<1> DEFINE W == {p \in pumps : p.content = x /\ p.stage = "waiting"}
           Tones == {p \in W : HasEvent(p)}
           pause(p) == [p EXCEPT !.stage = "pausing"]
           Paused == {pause(p) : p \in W}
           n == Cardinality(Tones)
<1>1. PICK order \in [1..n -> Tones] :
         /\ \A p \in Tones : \E i \in DOMAIN order : order[i] = p
         /\ started' = [started EXCEPT ![x] = @ \o [i \in DOMAIN order |-> order[i].key]]
  BY DEF StoppedTones
<1>2. /\ pumps' = (pumps \ W) \cup Paused /\ UNCHANGED <<sent, pendingDTMF>>
      /\ sending' = IF Tones = {} THEN sending \ {x} ELSE sending
  BY DEF StoppedTones
<1>3. /\ pumps \in SUBSET Pump /\ IsFiniteSet(pumps) /\ MaxKeys \in Nat
      /\ started \in [Contents -> Seq(1..MaxKeys)]
  BY DTMFAssumption DEF KeysInv, DTMFTypeOK
<1>4. \A p \in W : /\ pause(p) \in Pump /\ pause(p).content = p.content
                   /\ pause(p).key = p.key /\ pause(p).stage = "pausing"
  BY <1>3 DEF Pump, Stage
<1>5. IsFiniteSet(pumps')
  <2>1. IsFiniteSet(W) /\ IsFiniteSet(pumps \ W)
    BY <1>3, FS_Subset
  <2>2. IsFiniteSet(Paused)
    <3> DEFINE F == [p \in W |-> pause(p)]
    <3>1. F \in Surjection(W, Paused)
      BY DEF Surjection
    <3> QED
      BY <2>1, <3>1, FS_Surjection
  <2> QED
    BY <1>2, <2>1, <2>2, FS_Union
<1>6. IsFiniteSet(Tones) /\ n \in Nat
  BY <1>3, FS_Subset, FS_CardinalityType
<1>7. /\ \A p \in Tones : p \in pumps /\ p.content = x /\ p.stage = "waiting" /\ HasEvent(p)
      /\ \A p \in pumps : p.content = x /\ p.stage = "waiting" /\ HasEvent(p) => p \in Tones
      /\ \A p \in W : p \in pumps /\ p.content = x /\ p.stage = "waiting"
      /\ \A p \in pumps : p.content = x /\ p.stage = "waiting" => p \in W
  OBVIOUS
<1>8. \A p \in pumps' : \/ p \in pumps /\ p \notin W
                        \/ \E q \in W : p = pause(q)
  BY <1>2
<1>9. \A q \in W : pause(q) \in pumps'
  BY <1>2
<1>10. pumps \ W \subseteq pumps'
  BY <1>2
<1> HIDE DEF Tones, n, W, pause, Paused
<1>11. \A i, j \in 1..n : order[i] = order[j] => i = j
  <2>1. order \in Surjection(1..n, Tones)
    BY <1>1 DEF Surjection
  <2>2. IsFiniteSet(1..n) /\ Cardinality(1..n) = n
    BY <1>6, FS_Interval
  <2>3. order \in Injection(1..n, Tones)
    BY <1>6, <2>1, <2>2, FS_SurjSameCardinalityImpliesInj DEF n
  <2> QED
    BY <2>3 DEF Injection, IsInjective
<1> DEFINE new == [i \in 1..n |-> order[i].key]
<1>12. \A i \in 1..n : /\ order[i] \in Tones /\ order[i].key \in 1..MaxKeys
                       /\ order[i].key \notin Invalid
  <2> SUFFICES ASSUME NEW i \in 1..n
               PROVE  /\ order[i] \in Tones /\ order[i].key \in 1..MaxKeys
                      /\ order[i].key \notin Invalid
    OBVIOUS
  <2>1. order[i] \in Tones
    BY <1>1
  <2>2. order[i] \in Pump /\ HasEvent(order[i])
    BY <1>3, <1>7, <2>1
  <2>3. order[i].key \in 0..MaxKeys
    BY <2>2 DEF Pump
  <2> QED
    BY <1>3, <2>1, <2>2, <2>3 DEF HasEvent
<1>13. \A i \in 1..n : new[i] = order[i].key
  OBVIOUS
<1>14. new \in [1..n -> 1..MaxKeys]
  BY <1>12
<1>15. new \in Seq(1..MaxKeys) /\ Len(new) = n
  BY <1>6, <1>14
<1>16. started' = [started EXCEPT ![x] = started[x] \o new]
  BY <1>1
<1> HIDE DEF new
<1>17. \A i, j \in 1..n : new[i] = new[j] => i = j
  <2> SUFFICES ASSUME NEW i \in 1..n, NEW j \in 1..n, new[i] = new[j] PROVE i = j
    OBVIOUS
  <2>1. order[i].key = order[j].key /\ order[i] \in Tones /\ order[j] \in Tones
    BY <1>12, <1>13
  <2>2. order[i] = order[j]
    BY <1>7, <2>1 DEF KeysInv, OnePumpForKey, HasEvent
  <2> QED
    BY <1>11, <2>2
<1>18. \A i \in 1..n : new[i] \notin Started(x)
  BY <1>7, <1>12, <1>13 DEF KeysInv, StartedByPump
<1>19. /\ LastPlayed' = LastPlayed /\ LastPlayed \in Nat
       /\ \A p \in pumps : p.key \in Nat /\ p.key <= LastPlayed
  BY <1>2, <1>3 DEF LastPlayed, KeysInv, DTMFTypeOK, QueueIsTail, OnePumpForKey, Pump
<1> DEFINE old == started[x]
<1>20. \A y \in Contents : y # x => started'[y] = started[y]
  BY <1>3, <1>16
<1>21. old \in Seq(1..MaxKeys) /\ started'[x] = old \o new
  BY <1>3, <1>16
<1>22. /\ started'[x] \in Seq(1..MaxKeys) /\ Len(old) \in Nat
       /\ DOMAIN old = 1..Len(old) /\ DOMAIN started'[x] = 1..(Len(old) + n)
  <2>1. started'[x] \in Seq(1..MaxKeys)
    BY <1>15, <1>21
  <2>2. Len(started'[x]) = Len(old) + n
    <3>1. old \in Seq(1..MaxKeys) /\ new \in Seq(1..MaxKeys)
      BY <1>15, <1>21
    <3>2. Len(old \o new) = Len(old) + Len(new)
      BY <3>1, ConcatProperties
    <3> QED
      BY <1>15, <1>21, <3>2
  <2> QED
    BY <1>6, <1>21, <2>1, <2>2
<1>23. \A i \in 1..Len(old) : started'[x][i] = old[i]
  BY <1>15, <1>21
<1>24. \A i \in 1..n : started'[x][Len(old) + i] = new[i]
  BY <1>15, <1>21
<1> HIDE DEF old
<1>25. DTMFTypeOK'
  <2>1. started' \in [Contents -> Seq(1..MaxKeys)]
    BY <1>3, <1>16, <1>20, <1>22
  <2>2. pumps' \in SUBSET Pump
    BY <1>3, <1>4, <1>8
  <2> QED
    BY <1>2, <2>1, <2>2 DEF KeysInv, DTMFTypeOK
<1>26. OnePumpForKey'
  <2> DEFINE of(p) == IF p \in pumps /\ p \notin W THEN p ELSE CHOOSE q \in W : p = pause(q)
  <2>1. \A p \in pumps' : /\ of(p) \in pumps /\ of(p).content = p.content /\ of(p).key = p.key
                          /\ p = IF of(p) \in W THEN pause(of(p)) ELSE of(p)
    BY <1>4, <1>7, <1>8
  <2> HIDE DEF of
  <2>2. \A p \in pumps' : p.key <= LastPlayed'
    BY <1>19, <2>1
  <2>3. \A p, q \in pumps' : p.content = q.content /\ p.key = q.key /\ p.key # 0 => p = q
    <3> SUFFICES ASSUME NEW p \in pumps', NEW q \in pumps', p.content = q.content,
                        p.key = q.key, p.key # 0
                 PROVE  p = q
      OBVIOUS
    <3>1. of(p) = of(q)
      BY <2>1 DEF KeysInv, OnePumpForKey
    <3> QED
      BY <2>1, <3>1
  <2> QED
    BY <2>2, <2>3 DEF OnePumpForKey
<1>27. \A y \in Contents : Started(y)' = Started(y) \cup (IF y = x THEN {new[i] : i \in 1..n} ELSE {})
  <2> SUFFICES ASSUME NEW y \in Contents
               PROVE  Started(y)' = Started(y) \cup (IF y = x THEN {new[i] : i \in 1..n} ELSE {})
    OBVIOUS
  <2>1. CASE y # x
    BY <1>20, <2>1 DEF Started
  <2>2. CASE y = x
    <3>1. \A i \in 1..(Len(old) + n) : i \in 1..Len(old) \/ \E j \in 1..n : i = Len(old) + j
      <4> SUFFICES ASSUME NEW i \in 1..(Len(old) + n), i \notin 1..Len(old)
                   PROVE  \E j \in 1..n : i = Len(old) + j
        OBVIOUS
      <4>1. i - Len(old) \in 1..n /\ i = Len(old) + (i - Len(old))
        BY <1>6, <1>22
      <4> QED
        BY <4>1
    <3>2. \A k : k \in Started(x)' <=> \E i \in 1..(Len(old) + n) : started'[x][i] = k
      BY <1>22 DEF Started
    <3>3. \A k : k \in Started(x) <=> \E i \in 1..Len(old) : old[i] = k
      BY <1>22 DEF Started, old
    <3>4. \A i \in 1..Len(old) : i \in 1..(Len(old) + n)
      BY <1>6, <1>22
    <3>5. \A i \in 1..n : Len(old) + i \in 1..(Len(old) + n)
      BY <1>6, <1>22
    <3> QED
      <4> SUFFICES ASSUME NEW k
                   PROVE  k \in Started(x)' <=> k \in Started(x) \/ \E i \in 1..n : new[i] = k
        BY <2>2
      <4>1. ASSUME k \in Started(x)' PROVE k \in Started(x) \/ \E i \in 1..n : new[i] = k
        <5>1. PICK i \in 1..(Len(old) + n) : started'[x][i] = k
          BY <3>2, <4>1
        <5>2. CASE i \in 1..Len(old)
          BY <1>23, <3>3, <5>1, <5>2
        <5>3. ASSUME NEW j \in 1..n, i = Len(old) + j PROVE new[j] = k
          BY <1>24, <5>1, <5>3
        <5> QED
          BY <3>1, <5>2, <5>3
      <4>2. ASSUME k \in Started(x) PROVE k \in Started(x)'
        BY <1>23, <3>2, <3>3, <3>4, <4>2
      <4>3. ASSUME NEW i \in 1..n, new[i] = k PROVE k \in Started(x)'
        BY <1>24, <3>2, <3>5, <4>3
      <4> QED
        BY <4>1, <4>2, <4>3
  <2> QED
    BY <2>1, <2>2
<1>28. StartedByPump'
  <2>1. \A y \in Contents : \A i \in DOMAIN started'[y] : started'[y][i] <= LastPlayed'
    <3> SUFFICES ASSUME NEW y \in Contents, NEW i \in DOMAIN started'[y]
                 PROVE  started'[y][i] <= LastPlayed
      BY <1>19
    <3>1. started'[y][i] \in Started(y)'
      BY DEF Started
    <3>2. \A k \in Started(y) : k <= LastPlayed
      BY DEF KeysInv, StartedByPump, Started
    <3>3. \A j \in 1..n : new[j] <= LastPlayed
      BY <1>7, <1>12, <1>13, <1>19
    <3> QED
      BY <1>27, <3>1, <3>2, <3>3
  <2>2. ASSUME NEW p \in pumps', p.stage # "pausing", HasEvent(p)
        PROVE  p.key \notin Started(p.content)'
    <3>1. p \in pumps /\ p \notin W /\ p.content \in Contents
      BY <1>3, <1>4, <1>8, <2>2 DEF Pump
    <3>2. p.key \notin Started(p.content)
      BY <2>2, <3>1 DEF KeysInv, StartedByPump
    <3>3. ASSUME p.content = x, NEW i \in 1..n, p.key = new[i] PROVE FALSE
      <4>1. p.key = order[i].key /\ order[i] \in pumps /\ order[i].content = x
        BY <1>7, <1>12, <1>13, <3>3
      <4>2. p = order[i]
        BY <2>2, <3>1, <3>3, <4>1 DEF KeysInv, OnePumpForKey, HasEvent
      <4> QED
        BY <1>7, <1>12, <3>1, <4>2
    <3> QED
      BY <1>27, <3>1, <3>2, <3>3
  <2> QED
    BY <2>1, <2>2 DEF StartedByPump, HasEvent
<1>29. PlayedIsCarried'
  <2> SUFFICES ASSUME NEW k \in (1..LastPlayed) \ Invalid, NEW y \in Contents, k \notin Started(y)'
               PROVE  k \in Waiting(y)'
    BY <1>19 DEF PlayedIsCarried
  <2>1. k \in Waiting(y)
    BY <1>27 DEF KeysInv, PlayedIsCarried
  <2>2. PICK p \in pumps : p.content = y /\ p.stage # "pausing" /\ p.key = k
    BY <2>1 DEF Waiting
  <2>3. p \notin W
    <3> SUFFICES ASSUME p \in W PROVE FALSE
      OBVIOUS
    <3>1. y = x /\ p \in Tones
      BY <1>7, <1>19, <2>2 DEF HasEvent
    <3>2. PICK i \in 1..n : order[i] = p
      BY <1>1, <3>1
    <3> QED
      BY <1>13, <1>27, <2>2, <3>1, <3>2
  <2> QED
    BY <1>10, <2>2, <2>3 DEF Waiting
<1>30. NoKeyTwice'
  <2> SUFFICES ASSUME NEW y \in Contents, NEW i \in DOMAIN started'[y],
                      NEW j \in DOMAIN started'[y], started'[y][i] = started'[y][j]
               PROVE  i = j
    BY DEF NoKeyTwice
  <2>1. CASE y # x
    BY <1>20, <2>1 DEF KeysInv, NoKeyTwice
  <2>2. CASE y = x
    <3> DEFINE m == Len(old)
    <3>0. m \in Nat /\ i \in 1..(m + n) /\ j \in 1..(m + n)
      BY <1>22, <2>2
    <3>1. \A g, h \in 1..m : old[g] = old[h] => g = h
      BY <1>22 DEF KeysInv, NoKeyTwice, old
    <3>2. \A g \in 1..m, h \in 1..n : old[g] # new[h]
      BY <1>18, <1>22 DEF Started, old
    <3>3. \A h \in 1..(m + n) : h \in 1..m \/ (h - m \in 1..n /\ h = m + (h - m))
      BY <1>6, <3>0
    <3>4. \A h \in 1..m : started'[x][h] = old[h]
      BY <1>23
    <3>5. \A h \in 1..(m + n) : h \notin 1..m => h - m \in 1..n /\ started'[x][h] = new[h - m]
      BY <1>24, <3>3
    <3> HIDE DEF m
    <3>6. CASE i \in 1..m /\ j \in 1..m
      BY <2>2, <3>1, <3>4, <3>6
    <3>7. CASE i \in 1..m /\ j \notin 1..m
      BY <2>2, <3>0, <3>2, <3>4, <3>5, <3>7
    <3>8. CASE i \notin 1..m /\ j \in 1..m
      BY <2>2, <3>0, <3>2, <3>4, <3>5, <3>8
    <3>9. CASE i \notin 1..m /\ j \notin 1..m
      <4>1. i - m = j - m
        BY <1>17, <2>2, <3>0, <3>5, <3>9
      <4> QED
        BY <3>0, <4>1
    <3> QED
      BY <3>6, <3>7, <3>8, <3>9
  <2> QED
    BY <2>1, <2>2
<1>31. QueueIsTail'
  BY <1>2 DEF KeysInv, QueueIsTail
<1> QED
  BY <1>5, <1>25, <1>26, <1>28, <1>29, <1>30, <1>31 DEF KeysInv
-----------------------------------------------------------------------------
LEMMA KeysInvInit ==
  ASSUME DTMFInit
  PROVE  KeysInv
<1>1. /\ sent = 0 /\ pendingDTMF = <<>> /\ pumps = {} /\ sending = {}
      /\ \A x \in Contents : started[x] = <<>>
      /\ MaxKeys \in Nat
  BY DTMFAssumption DEF DTMFInit
<1>2. DTMFTypeOK
  BY <1>1 DEF DTMFInit, DTMFTypeOK
<1>3. LastPlayed = 0
  BY <1>1 DEF LastPlayed
<1> QED
  BY <1>1, <1>2, <1>3, FS_EmptySet DEF KeysInv, QueueIsTail, OnePumpForKey, StartedByPump,
     PlayedIsCarried, NoKeyTwice

LEMMA KeysInvNext ==
  ASSUME KeysInv, [DTMFNext]_dtmfVars
  PROVE  KeysInv'
<1>1. CASE SendDTMF
  BY <1>1, SendStep
<1>2. ASSUME NEW p \in pumps, StopFinished(p) PROVE KeysInv'
  <2>1. CASE Start(p)
    BY <1>2, <2>1, StartStep DEF StopFinished
  <2>2. CASE Move(p, "asking") /\ UNCHANGED <<sent, pendingDTMF, sending, started>>
    BY <1>2, <2>2, MoveStep DEF StopFinished, Stage
  <2> QED
    BY <1>2, <2>1, <2>2 DEF StopFinished
<1>3. ASSUME NEW p \in pumps, AskFinished(p) PROVE KeysInv'
  <2>1. CASE Start(p)
    BY <1>3, <2>1, StartStep DEF AskFinished
  <2>2. CASE Move(p, "answered") /\ UNCHANGED <<sent, pendingDTMF, sending, started>>
    BY <1>3, <2>2, MoveStep DEF AskFinished, Stage
  <2> QED
    BY <1>3, <2>1, <2>2 DEF AskFinished
<1>4. ASSUME NEW p \in pumps, Connect(p) PROVE KeysInv'
  BY <1>4, MoveStep DEF Connect, Stage
<1>5. ASSUME NEW p \in pumps, Timeout(p) PROVE KeysInv'
  BY <1>5, TimeoutStep
<1>6. ASSUME NEW x \in Contents, StoppedTones(x) PROVE KeysInv'
  BY <1>6, StoppedStep
<1>7. CASE UNCHANGED dtmfVars
  <2>1. UNCHANGED <<sent, pendingDTMF, pumps, sending, started>>
    BY <1>7 DEF dtmfVars
  <2>2. DTMFTypeOK' /\ QueueIsTail' /\ NoKeyTwice'
    BY <2>1 DEF KeysInv, DTMFTypeOK, QueueIsTail, NoKeyTwice
  <2>3. OnePumpForKey' /\ StartedByPump' /\ PlayedIsCarried'
    BY <2>1 DEF KeysInv, OnePumpForKey, StartedByPump, PlayedIsCarried, LastPlayed, Started,
       Waiting, HasEvent
  <2> QED
    BY <2>1, <2>2, <2>3 DEF KeysInv
<1> QED
  BY <1>1, <1>2, <1>3, <1>4, <1>5, <1>6, <1>7 DEF DTMFNext

\* A key that has left the queue has been at its head.
LEMMA KeysInvImplies ==
  ASSUME KeysInv
  PROVE  EachKeyOnce
<1>1. /\ sent \in Nat /\ pendingDTMF \in Seq(1..MaxKeys)
      /\ Len(pendingDTMF) <= sent
      /\ \A i \in 1..Len(pendingDTMF) : pendingDTMF[i] = sent - Len(pendingDTMF) + i
  BY DTMFAssumption DEF KeysInv, DTMFTypeOK, QueueIsTail
<1>2. ASSUME NEW k \in 1..sent, k \notin Queued PROVE k <= LastPlayed
  <2> DEFINE m == Len(pendingDTMF)
  <2>1. m \in Nat /\ DOMAIN pendingDTMF = 1..m
    BY <1>1
  <2>2. \A i \in 1..m : sent - m + i # k
    BY <1>1, <1>2, <2>1 DEF Queued
  <2>3. k - (sent - m) \notin 1..m
    <3>1. \A i \in 1..m : i # k - (sent - m)
      BY <1>1, <2>1, <2>2
    <3> QED
      BY <3>1
  <2>4. k <= sent - m
    BY <1>1, <2>1, <2>3
  <2> QED
    BY <1>1, <2>1, <2>4 DEF LastPlayed
<1>3. NoKeyLost
  <2> SUFFICES ASSUME NEW k \in (1..sent) \ (Queued \cup Invalid), NEW x \in Contents
               PROVE  k \in Started(x) \cup Waiting(x)
    BY DEF NoKeyLost
  <2>1. LastPlayed \in Nat /\ k \in 1..LastPlayed
    BY <1>1, <1>2 DEF LastPlayed
  <2> QED
    BY <2>1 DEF KeysInv, PlayedIsCarried
<1> QED
  BY <1>3 DEF KeysInv, EachKeyOnce
-----------------------------------------------------------------------------
\* The inductive invariant of the queue: what it holds are the last keys sent,
\* and each key that came to its head was given exactly one pump per content,
\* which still carries it or has started its tone (callhandler.cpp:429-503).
THEOREM KeysInvariant == DTMFSpec => []KeysInv
<1>1. DTMFInit => KeysInv
  BY KeysInvInit
<1>2. KeysInv /\ [DTMFNext]_dtmfVars => KeysInv'
  BY KeysInvNext
<1> QED
  BY <1>1, <1>2, PTL DEF DTMFSpec

\* The variables keep their types.
THEOREM DTMFTypesHold == DTMFSpec => []DTMFTypeOK
<1>1. KeysInv => DTMFTypeOK
  BY DEF KeysInv
<1> QED
  BY <1>1, KeysInvariant, PTL

\* Each valid key of a call is sent once on every content, however many keys,
\* contents and pumps there are: none is lost when keys arrive while the queue
\* runs empty, none is played by two pumps (callhandler.cpp:429-503).
THEOREM KeysAreSentOnce == DTMFSpec => []EachKeyOnce
<1>1. KeysInv => EachKeyOnce
  BY KeysInvImplies
<1> QED
  BY <1>1, KeysInvariant, PTL
=============================================================================
