---------------------------- MODULE ToneGenerator ----------------------------
(***************************************************************************)
(* The tones a process plays through the tone generator daemon tonegend    *)
(* (src/libtelephonyservice/tonegenerator.cpp). tonegend plays the event   *)
(* tone started last until StopTone(); it knows neither which process      *)
(* started the tone nor when it should end, so the timers of ToneGenerator *)
(* send StopTone() blindly.                                                *)
(*                                                                         *)
(* A generator is a value and every slot an operator on it, so that a      *)
(* handler that calls several of them is one step. The two processes that  *)
(* play tones share tonegend: the handler owns dtmfTimer and stops, the    *)
(* approver owns waitingTimer. That D-Bus accepts the message to tonegend  *)
(* (startEventTone() returns true) is taken for granted.                   *)
(***************************************************************************)
EXTENDS Integers

CONSTANT MaxStops  \* bound: call-ended tones whose two seconds are running
ASSUME MaxStopsAssumption == MaxStops \in Nat \ {0}

Tone == {"dtmf", "dialing", "ringing", "callEnded", "waiting"}

Generator ==
  [playing      : Tone \cup {"none"},  \* what tonegend plays
   dtmfTimer    : BOOLEAN,             \* mDTMFPlaybackTimer is running
   waitingTimer : BOOLEAN,             \* mWaitingPlaybackTimer is running
   stops        : 0..MaxStops]         \* the single shots of playCallEndedTone()

Quiet == [playing |-> "none", dtmfTimer |-> FALSE, waitingTimer |-> FALSE, stops |-> 0]

StartEventTone(g, tone) == [g EXCEPT !.playing = tone]
StopTone(g) == [g EXCEPT !.playing = "none"]

\* The event is passed as an unsigned number: -1, no tone, is ignored like
\* every other event above 11.
PlayDTMFTone(g, event) ==
  IF event \in 0..11 THEN [StartEventTone(g, "dtmf") EXCEPT !.dtmfTimer = TRUE]
                     ELSE g

\* The slot of mDTMFPlaybackTimer.
StopDTMFTone(g) == [StopTone(g) EXCEPT !.dtmfTimer = FALSE]

PlayDialingTone(g) == StartEventTone(g, "dialing")
PlayRingingTone(g) == StartEventTone(g, "ringing")

CanPlayCallEndedTone(g) == g.stops < MaxStops

PlayCallEndedTone(g) == [StartEventTone(g, "callEnded") EXCEPT !.stops = @ + 1]

\* One of the two-second timers of playCallEndedTone() fires.
CallEndedTimeout(g) == [StopTone(g) EXCEPT !.stops = @ - 1]

\* Restarting a running timer and StopTone() before StartEventTone() leave
\* nothing else behind, so the two ways to enter playWaitingTone() are one.
PlayWaitingTone(g) == [StartEventTone(g, "waiting") EXCEPT !.waitingTimer = TRUE]
StopWaitingTone(g) == [StopTone(g) EXCEPT !.waitingTimer = FALSE]
=============================================================================
