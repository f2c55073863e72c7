----------------------------- MODULE AudioRoute -----------------------------
(***************************************************************************)
(* Where the sound of a call goes. AudioRouteManager (event loop of the    *)
(* handler) follows the calls and asks QPulseAudioEngine for an output; the *)
(* worker of the engine (a thread of its own) serves these requests and    *)
(* the card events of PulseAudio from one queue, and reports the output in *)
(* use through another. PowerDAudioModeMediator turns the proximity sensor *)
(* on while the earpiece is in use.                                        *)
(*                                                                         *)
(* An AudioMode is a mask; here it is the set of its bits.                 *)
(***************************************************************************)
EXTENDS Naturals, Sequences, FiniteSets

CONSTANTS
  Calls,
  Incoming,    \* calls somebody else places
  MaxEvents    \* bound on card events, outputs the user chooses, and failing operations

ASSUME AudioAssumption ==
  /\ Incoming \subseteq Calls
  /\ MaxEvents \in Nat

VARIABLES
  call,                  \* the call of the network
  mChannels,             \* AudioRouteManager: calls it knows
  mActiveAudioOutput,    \* output the clients are told
  mAudioOutputs,         \* outputs the clients may choose
  timers,                \* pending enable_normal() timers (2.2 s)
  toWorker,              \* calls queued for the worker
  toManager,             \* signals queued for the manager
  m_callstatus, m_audiomode, m_availableAudioModes,
  m_bt,                  \* m_bt_hsp or m_bt_hsp_a2dp is set
  waiting,               \* the worker waits for a signal nobody sends
  mProximityEnabled,     \* PowerDAudioModeMediator
  bluetooth, wired,      \* what is plugged in
  events,                \* used up of MaxEvents
  failed                 \* a PulseAudio operation failed

engine == <<m_callstatus, m_audiomode, m_availableAudioModes, m_bt, waiting>>
manager == <<mChannels, mActiveAudioOutput, mAudioOutputs, timers>>
devices == <<bluetooth, wired>>
routeVars == <<call, manager, toWorker, toManager, engine, mProximityEnabled, devices, events, failed>>
bounds == <<events, failed>>

Modes == {"earpiece", "wired", "speaker", "bluetooth"}
Statuses == {"ringing", "active", "ended"}
States == {"none", "initialised", "accepted", "active", "ended"}

Request(status, modes) == [what |-> "setCallMode", status |-> status, modes |-> modes]
CardEvent(evt) == [what |-> evt, status |-> "ended", modes |-> {}]
Signal(what, modes) == [signal |-> what, modes |-> modes]

RouteInit ==
  /\ call = [c \in Calls |-> "none"]
  /\ mChannels = {}
  /\ mActiveAudioOutput = ""
  /\ mAudioOutputs = {}
  /\ timers = 0
  /\ toWorker = <<>>
  /\ toManager = <<>>
  /\ m_callstatus = "ended"
  /\ m_audiomode = {"speaker"}
  /\ m_availableAudioModes = {}
  /\ m_bt = FALSE
  /\ waiting = FALSE
  /\ mProximityEnabled = FALSE
  /\ bluetooth \in BOOLEAN
  /\ wired \in BOOLEAN
  /\ events = 0
  /\ failed = FALSE

-----------------------------------------------------------------------------
(* AudioRouteManager.                                                       *)

Ask(status, modes) ==
  /\ toWorker' = Append(toWorker, Request(status, modes))
  /\ UNCHANGED timers

\* Seeded bug: the timer of enable_normal() is made and not started.
enable_normal_NotStarted == UNCHANGED <<timers, toWorker>>

enable_earpiece == Ask("active", {"bluetooth", "wired", "earpiece"})
enable_ringtone == Ask("ringing", {"bluetooth", "wired", "speaker"})
enable_normal == timers' = timers + 1 /\ UNCHANGED toWorker

(* updateAudioRoute(): with one call left its state decides, with several   *)
(* nothing changes, and without one the sensor is switched off.             *)
UpdateAudioRoute(newCall) ==
  LET only == CHOOSE c \in mChannels' : mChannels' = {c}
  IN CASE Cardinality(mChannels') > 1 -> UNCHANGED <<timers, toWorker, mProximityEnabled>>
       [] mChannels' = {} -> enable_normal /\ mProximityEnabled' = FALSE
       [] OTHER ->
            /\ UNCHANGED mProximityEnabled
            /\ IF newCall /\ only \in Incoming THEN enable_ringtone
               ELSE IF call'[only] = "ended" THEN enable_normal
               ELSE IF newCall \/ (call'[only] = "accepted" /\ only \in Incoming) THEN enable_earpiece
               ELSE UNCHANGED <<timers, toWorker>>

(* The observer reports the channel when it is ready; the call may have     *)
(* gone on, or be over, by then.                                            *)
CallChannelAvailable(c) ==
  /\ call[c] = "none"
  /\ \E s \in {"initialised", "active", "ended"} : call' = [call EXCEPT ![c] = s]
  /\ mChannels' = mChannels \cup {c}
  /\ UpdateAudioRoute(TRUE)
  /\ UNCHANGED <<mActiveAudioOutput, mAudioOutputs, toManager, engine, devices, bounds>>

NextStates(s) ==
  CASE s = "initialised" -> {"accepted", "active", "ended"}
    [] s = "accepted" -> {"active", "ended"}
    [] s = "active" -> {"ended"}
    [] OTHER -> {}

CallStateChanged(c) ==
  /\ \E s \in NextStates(call[c]) : call' = [call EXCEPT ![c] = s]
  /\ mChannels' = IF call'[c] = "ended" THEN mChannels \ {c} ELSE mChannels
  /\ UpdateAudioRoute(FALSE)
  /\ UNCHANGED <<mActiveAudioOutput, mAudioOutputs, toManager, engine, devices, bounds>>

(* 2.2 seconds later, whatever happened in between.                         *)
NormalTimeout ==
  /\ timers > 0
  /\ timers' = timers - 1
  /\ toWorker' = Append(toWorker, Request("ended", {"wired", "speaker"}))
  /\ UNCHANGED <<call, mChannels, mActiveAudioOutput, mAudioOutputs, toManager, engine,
                 mProximityEnabled, devices, bounds>>

(* The user chooses an output on the screen of a call, which stays for a    *)
(* moment after its end.                                                    *)
SetActiveAudioOutput(id) ==
  /\ events < MaxEvents
  /\ mChannels # {} \/ timers > 0
  /\ events' = events + 1
  /\ Ask("active", CASE id = "bluetooth" -> {"bluetooth"}
                     [] id = "speaker" -> {"speaker"}
                     [] OTHER -> {"wired", "earpiece"})
  /\ UNCHANGED <<call, mChannels, mActiveAudioOutput, mAudioOutputs, toManager, engine,
                 mProximityEnabled, devices, failed>>

OutputOf(modes) ==
  CASE modes = {"earpiece"} -> "earpiece"
    [] modes = {"wired"} -> "wired_headset"
    [] modes = {"speaker"} -> "speaker"
    [] modes = {"bluetooth"} -> "bluetooth"
    [] OTHER -> mActiveAudioOutput

(* onAudioModeChanged(), and the mediator it tells.                         *)
AudioModeChanged ==
  /\ toManager # <<>> /\ Head(toManager).signal = "mode"
  /\ mActiveAudioOutput' = OutputOf(Head(toManager).modes)
  /\ mProximityEnabled' = (mActiveAudioOutput' \notin {"speaker", "bluetooth", "wired_headset"})
  /\ toManager' = Tail(toManager)
  /\ UNCHANGED <<call, mChannels, mAudioOutputs, timers, toWorker, engine, devices, bounds>>

OutputsOf(modes) ==
  {IF m \in {"earpiece", "wired"} THEN "default" ELSE m : m \in modes}

AvailableAudioModesChanged ==
  /\ toManager # <<>> /\ Head(toManager).signal = "available"
  /\ mAudioOutputs' = OutputsOf(Head(toManager).modes)
  /\ toManager' = Tail(toManager)
  /\ UNCHANGED <<call, mChannels, mActiveAudioOutput, timers, toWorker, engine,
                 mProximityEnabled, devices, bounds>>

-----------------------------------------------------------------------------
(* QPulseAudioEngineWorker.                                                 *)

(* sinkInfoCallback(): what this phone offers now.                          *)
Available == {"earpiece", "speaker"} \cup {m \in {"wired"} : wired}
                                     \cup {m \in {"bluetooth"} : m_bt'}

(* A single output that is not there is left as it was asked for.           *)
Impossible(modes) == modes \in {{"wired"}, {"bluetooth"}} /\ modes \cap Available = {}

Preferred(modes) ==
  LET possible == modes \cap Available
  IN CASE "bluetooth" \in possible -> {"bluetooth"}
       [] "bluetooth" \notin possible /\ "wired" \in possible -> {"wired"}
       [] possible \cap {"bluetooth", "wired"} = {} /\ "speaker" \in possible -> {"speaker"}
       [] OTHER -> {"earpiece"}

(* The signals at the end of setCallMode().                                 *)
ModeChanges(modes) == m_audiomode' # m_audiomode

Report(modes) ==
  toManager' = toManager
    \o (IF m_availableAudioModes' # m_availableAudioModes
          THEN <<Signal("available", m_availableAudioModes')>> ELSE <<>>)
    \o (IF ModeChanges(modes) THEN <<Signal("mode", m_audiomode')>> ELSE <<>>)

(* The answer to the question for the sinks: an output that is there is     *)
(* preferred, and the list of outputs is brought up to date.                *)
SinksListed(modes) ==
  IF Impossible(modes)
    THEN m_audiomode' = modes /\ UNCHANGED m_availableAudioModes
    ELSE m_audiomode' = Preferred(modes) /\ m_availableAudioModes' = Available

(* cardInfoCallback(): a Bluetooth card counts while it has its HSP profile. *)
HasHsp == bluetooth

(* setupVoiceCall(): what was known of the cards is dropped and asked for.  *)
setupVoiceCall(looks) == m_bt' = IF looks THEN HasHsp ELSE m_bt

(* handleOperation(): PulseAudio may go away between any two operations.    *)
OperationFails ==
  /\ events < MaxEvents
  /\ events' = events + 1
  /\ failed' = TRUE

(* setCallMode(): the cards are looked at again when a call starts, or when *)
(* the caller does (scan). When an operation fails, what was done till then *)
(* stays, and nothing is reported.                                          *)
SetCallMode(status, modes, scan) ==
  LET looks == scan \/ (status # "ended" /\ m_callstatus = "ended")
  IN
  \/ /\ setupVoiceCall(looks)
     /\ m_callstatus' = status
     /\ SinksListed(modes)
     /\ Report(modes)
     /\ UNCHANGED <<waiting, bounds>>
  \/ /\ OperationFails
     /\ \/ /\ m_bt' \in IF looks THEN {m_bt, FALSE, HasHsp} ELSE {m_bt}
           /\ UNCHANGED <<m_callstatus, m_audiomode, m_availableAudioModes>>
        \/ /\ setupVoiceCall(looks)
           /\ m_callstatus' = status
           /\ \/ m_audiomode' = modes /\ UNCHANGED m_availableAudioModes
              \/ SinksListed(modes)
     /\ UNCHANGED <<waiting, toManager>>

Serve(what) ==
  /\ ~waiting
  /\ toWorker # <<>> /\ Head(toWorker).what = what
  /\ toWorker' = Tail(toWorker)

Ignore == UNCHANGED <<engine, toManager, bounds>>

WorkerSetsCallMode ==
  /\ Serve("setCallMode")
  /\ SetCallMode(Head(toWorker).status, Head(toWorker).modes, FALSE)
  /\ UNCHANGED <<call, manager, mProximityEnabled, devices>>

(* A card was added: a Bluetooth headset takes over the call.               *)
CardAdded ==
  /\ Serve("NEW")
  /\ IF m_callstatus # "ended" /\ bluetooth
       THEN SetCallMode(m_callstatus, {"bluetooth"}, TRUE) ELSE Ignore
  /\ UNCHANGED <<call, manager, mProximityEnabled, devices>>

(* A plug was put into or drawn out of the voice call card.                 *)
CardChanged ==
  /\ Serve("CHANGE")
  /\ LET old == m_audiomode IN
     CASE m_callstatus = "active" /\ old = {"wired"} ->
            SetCallMode("active", {"bluetooth", "wired", "earpiece"}, FALSE)
       [] m_callstatus = "active" /\ old \in {{"earpiece"}, {"speaker"}} /\ wired ->
            SetCallMode("active", {"wired", "earpiece"}, FALSE)
       [] m_callstatus = "active" /\ old = {"bluetooth"} ->
            SetCallMode("active", {"bluetooth"}, FALSE)
       [] OTHER -> Ignore
  /\ UNCHANGED <<call, manager, mProximityEnabled, devices>>

\* Seeded bug: a card that goes is handled without a call.
UnplugMatters_Always == TRUE

(* unplugCardCallback().                                                    *)
UnplugMatters == m_callstatus # "ended"

(* A card was removed. The worker asks for its Bluetooth card: the callback *)
(* also runs at the end of every answer, and never signals the thread that  *)
(* waits for it.                                                            *)
CardRemoved ==
  /\ Serve("REMOVE")
  /\ \/ ~m_bt /\ Ignore
     \/ m_bt /\ waiting' = TRUE
        /\ UNCHANGED <<m_callstatus, m_audiomode, m_availableAudioModes, m_bt, toManager, bounds>>
     \/ m_bt /\ IF UnplugMatters
                  THEN SetCallMode(m_callstatus, {"wired", "earpiece"}, TRUE) ELSE Ignore
  /\ UNCHANGED <<call, manager, mProximityEnabled, devices>>

(* The user plugs something in or out: PulseAudio tells the worker.         *)
Plug ==
  /\ events < MaxEvents
  /\ events' = events + 1
  /\ \/ /\ bluetooth' = ~bluetooth
        /\ toWorker' = Append(toWorker, CardEvent(IF bluetooth THEN "REMOVE" ELSE "NEW"))
        /\ UNCHANGED wired
     \/ /\ wired' = ~wired
        /\ toWorker' = Append(toWorker, CardEvent("CHANGE"))
        /\ UNCHANGED bluetooth
  /\ UNCHANGED <<call, manager, toManager, engine, mProximityEnabled, failed>>

-----------------------------------------------------------------------------
WorkerStep == WorkerSetsCallMode \/ CardAdded \/ CardChanged \/ CardRemoved
ManagerStep == AudioModeChanged \/ AvailableAudioModesChanged

RouteNext ==
  \/ \E c \in Calls : CallChannelAvailable(c) \/ CallStateChanged(c)
  \/ \E id \in {"bluetooth", "speaker", "default"} : SetActiveAudioOutput(id)
  \/ NormalTimeout
  \/ WorkerStep
  \/ ManagerStep
  \/ Plug

(* Both threads serve their queues, and a timer that was started ends.      *)
RouteFairness == WF_routeVars(WorkerStep) /\ WF_routeVars(ManagerStep) /\ WF_routeVars(NormalTimeout)

RouteSpec == RouteInit /\ [][RouteNext]_routeVars /\ RouteFairness

-----------------------------------------------------------------------------
(* Every variable has its type.                                             *)
RouteTypeOK ==
  /\ call \in [Calls -> States]
  /\ mChannels \subseteq Calls
  /\ mActiveAudioOutput \in {"", "earpiece", "wired_headset", "speaker", "bluetooth"}
  /\ mAudioOutputs \subseteq {"default", "speaker", "bluetooth"}
  /\ timers \in 0 .. 2 * Cardinality(Calls)
  /\ toWorker \in Seq([what : {"setCallMode", "NEW", "CHANGE", "REMOVE"},
                       status : Statuses, modes : SUBSET Modes])
  /\ toManager \in Seq([signal : {"mode", "available"}, modes : SUBSET Modes])
  /\ m_callstatus \in Statuses
  /\ m_audiomode \in SUBSET Modes \ {{}}
  /\ m_availableAudioModes \subseteq Modes
  /\ {m_bt, waiting, mProximityEnabled, bluetooth, wired, failed} \subseteq BOOLEAN
  /\ events \in 0 .. MaxEvents

Quiet == toWorker = <<>> /\ toManager = <<>> /\ timers = 0

(* After the calls nothing is left behind: with no call, no timer and both  *)
(* queues served, the worker is back to CallEnded and the proximity sensor  *)
(* is off, although signals of the worker arrive after lastChannelClosed()  *)
(* switched it off.                                                         *)
SensorOffAtRest ==
  mChannels = {} /\ Quiet /\ ~failed =>
    m_callstatus = "ended" /\ ~mProximityEnabled

(* The normal output is restored after the last call, unless the worker     *)
(* hangs, PulseAudio fails, or another call comes.                          *)
RestoredAfterCalls ==
  m_callstatus # "ended" /\ mChannels = {}
    ~> m_callstatus = "ended" \/ mChannels # {} \/ waiting \/ failed

(* The sensor is on while a call is active and the earpiece is in use, once *)
(* everything that was asked for was done (powerdaudiomodemediator.h).      *)
EarpieceHasProximity ==
  /\ \E c \in mChannels : call[c] = "active"
  /\ toWorker = <<>> /\ toManager = <<>>
  /\ m_audiomode = {"earpiece"}
  => mProximityEnabled
=============================================================================
