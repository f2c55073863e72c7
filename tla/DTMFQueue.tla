------------------------------ MODULE DTMFQueue ------------------------------
(***************************************************************************)
(* The DTMF keys of one call (CallHandler::sendDTMF, playNextDTMFTone and  *)
(* triggerNextDTMFTone in src/handler/callhandler.cpp). The pending keys   *)
(* are a string property of the channel. Its first key is being played by  *)
(* a "pump": a chain of callbacks for one media content that stops the     *)
(* previous tone, waits until it is over, starts the tone of the key it    *)
(* captured, and 250 ms later drops the first key and starts a chain for   *)
(* the key that comes next, on every content.                              *)
(*                                                                         *)
(* Keys are numbered in the order in which they are sent.                  *)
(***************************************************************************)
EXTENDS Naturals, Sequences, FiniteSets

CONSTANTS
  Contents,  \* the contents of the call that support DTMF
  Invalid,   \* the keys that are no DTMF event (toDTMFEvent() returns -1)
  MaxKeys,   \* bound: keys sent during the call
  MaxPumps   \* bound: pumps under way at the same time

ASSUME DTMFAssumption ==
  /\ IsFiniteSet(Contents)
  /\ MaxKeys \in Nat
  /\ Invalid \subseteq 1..MaxKeys
  /\ MaxPumps \in Nat

\* What a pump waits for: the reply to stopDTMFTone(), the reply to the request
\* for CurrentlySendingTones, that its answer is looked at, StoppedTones, or
\* the 250 ms timer.
Stage == {"stopping", "asking", "answered", "waiting", "pausing"}

\* key 0: the pump runs on an empty queue and has no event to start.
Pump == [content : Contents, key : 0..MaxKeys, stage : Stage, n : 1..MaxPumps]

VARIABLES
  sent,         \* number of keys sent
  pendingDTMF,  \* the keys in the property of that name
  pumps,        \* pumps under way
  sending,      \* contents on which the CM is sending a tone
  started       \* for each content, the keys whose tone was started, in order

dtmfVars == <<sent, pendingDTMF, pumps, sending, started>>

DTMFTypeOK ==
  /\ sent \in 0..MaxKeys
  /\ pendingDTMF \in Seq(1..MaxKeys)
  /\ pumps \in SUBSET Pump
  /\ sending \in SUBSET Contents
  /\ started \in [Contents -> Seq(1..MaxKeys)]

DTMFInit ==
  /\ sent = 0 /\ pendingDTMF = <<>> /\ pumps = {} /\ sending = {}
  /\ started = [x \in Contents |-> <<>>]

\* Numbers that tell pumps under way apart.
Free(P) == {n \in 1..MaxPumps : \A p \in P : p.n # n}

\* playNextDTMFTone() on the queue q while the pumps P are under way: one new
\* pump for every content that supports DTMF.
PlayNext(q, P) ==
  LET key == IF q = <<>> THEN 0 ELSE Head(q)
      number == CHOOSE f \in [Contents -> Free(P)] :
                  \A x, y \in Contents : f[x] = f[y] => x = y
  IN P \cup {[content |-> x, key |-> key, stage |-> "stopping", n |-> number[x]] :
              x \in Contents}

RoomFor(P) == Cardinality(Contents) <= Cardinality(Free(P))

\* Seeded bug: a key is also played when others wait before it.
Queue_Always(key) ==
  /\ pendingDTMF' = Append(pendingDTMF, key)
  /\ RoomFor(pumps) /\ pumps' = PlayNext(<<key>>, pumps)

\* The key joins the queue, and is played when it is alone in it.
Queue(key) ==
  /\ pendingDTMF' = Append(pendingDTMF, key)
  /\ IF Len(pendingDTMF') = 1
     THEN RoomFor(pumps) /\ pumps' = PlayNext(pendingDTMF', pumps)
     ELSE UNCHANGED pumps

\* sendDTMF() with a key of one character.
SendDTMF ==
  /\ sent < MaxKeys
  /\ sent' = sent + 1
  /\ Queue(sent')
  /\ UNCHANGED <<sending, started>>

Move(p, stage) == pumps' = (pumps \ {p}) \cup {[p EXCEPT !.stage = stage]}

\* The key the pump captured is a DTMF event ("event >= 0").
HasEvent(p) == p.key # 0 /\ p.key \notin Invalid

\* startDTMFTone() if there is an event, then triggerNextDTMFTone().
Start(p) ==
  /\ IF HasEvent(p)
     THEN /\ started' = [started EXCEPT ![p.content] = Append(@, p.key)]
          /\ sending' = sending \cup {p.content}
     ELSE UNCHANGED <<started, sending>>
  /\ Move(p, "pausing")
  /\ UNCHANGED <<sent, pendingDTMF>>

\* stopDTMFTone() succeeds (the tone may take a while to stop), or fails: the
\* service stops tones by itself.
StopFinished(p) ==
  /\ p.stage = "stopping"
  /\ \/ Move(p, "asking") /\ UNCHANGED <<sent, pendingDTMF, sending, started>>
     \/ Start(p)

\* The reply to requestPropertyCurrentlySendingTones(). A tone still sent is
\* noticed when the operation says it is finished, an iteration of the event
\* loop later.
AskFinished(p) ==
  /\ p.stage = "asking"
  /\ \/ p.content \notin sending /\ Start(p)
     \/ /\ p.content \in sending
        /\ Move(p, "answered")
        /\ UNCHANGED <<sent, pendingDTMF, sending, started>>

\* StoppedTones is connected.
Connect(p) ==
  /\ p.stage = "answered"
  /\ Move(p, "waiting")
  /\ UNCHANGED <<sent, pendingDTMF, sending, started>>

\* A tone is over and StoppedTones emitted, which starts the tones of all the
\* pumps that wait for it, one after the other.
StoppedTones(x) ==
  /\ x \in sending
  /\ LET W == {p \in pumps : p.content = x /\ p.stage = "waiting"}
         Tones == {p \in W : HasEvent(p)}
     IN /\ pumps' = (pumps \ W) \cup {[p EXCEPT !.stage = "pausing"] : p \in W}
        /\ \E order \in [1..Cardinality(Tones) -> Tones] :
             /\ \A p \in Tones : \E i \in DOMAIN order : order[i] = p
             /\ started' = [started EXCEPT ![x] = @ \o [i \in DOMAIN order |-> order[i].key]]
        /\ sending' = IF Tones = {} THEN sending \ {x} ELSE sending
  /\ UNCHANGED <<sent, pendingDTMF>>

\* Seeded bug: mid(1, 1) instead of remove(0, 1) forgets the keys further back.
Next250_Mid(p) ==
  /\ pendingDTMF # <<>>
  /\ pendingDTMF' = SubSeq(Tail(pendingDTMF), 1, IF Len(pendingDTMF) > 1 THEN 1 ELSE 0)
  /\ RoomFor(pumps \ {p})
  /\ pumps' = PlayNext(pendingDTMF', pumps \ {p})

\* The first key was played and gives way to the next.
Next250(p) ==
  /\ pendingDTMF # <<>>
  /\ pendingDTMF' = Tail(pendingDTMF)
  /\ RoomFor(pumps \ {p})
  /\ pumps' = PlayNext(pendingDTMF', pumps \ {p})

\* The timer of triggerNextDTMFTone(). Nothing is left to play when the queue
\* was emptied by another pump.
Timeout(p) ==
  /\ p.stage = "pausing"
  /\ \/ pendingDTMF = <<>> /\ pumps' = pumps \ {p} /\ UNCHANGED pendingDTMF
     \/ Next250(p)
  /\ UNCHANGED <<sent, sending, started>>

DTMFNext ==
  \/ SendDTMF
  \/ \E p \in pumps : StopFinished(p) \/ AskFinished(p) \/ Connect(p) \/ Timeout(p)
  \/ \E x \in Contents : StoppedTones(x)

DTMFSpec == DTMFInit /\ [][DTMFNext]_dtmfVars
-----------------------------------------------------------------------------
(* Properties *)

Queued == {pendingDTMF[i] : i \in DOMAIN pendingDTMF}
Waiting(x) == {p.key : p \in {q \in pumps : q.content = x /\ q.stage # "pausing"}}
Started(x) == {started[x][i] : i \in DOMAIN started[x]}

\* No key is lost: a valid key that left the queue has been sent on every
\* content, or a pump still carries it, however many pumps were started by keys
\* that arrived while the queue ran empty (callhandler.cpp:429-503).
NoKeyLost ==
  \A k \in (1..sent) \ (Queued \cup Invalid) : \A x \in Contents :
     k \in Started(x) \cup Waiting(x)

\* No key is sent twice on a content, though the timer of every pump plays
\* whatever key then heads the queue.
NoKeyTwice ==
  \A x \in Contents : \A i, j \in DOMAIN started[x] :
     started[x][i] = started[x][j] => i = j

\* Each valid key is sent once (callhandler.cpp:429-503): both of the above.
EachKeyOnce == NoKeyLost /\ NoKeyTwice

\* Keys that wait have a pump that will come for them: sendDTMF() starts none
\* when the queue is not empty.
QueueHasPump == pendingDTMF # <<>> /\ Contents # {} => pumps # {}
=============================================================================
