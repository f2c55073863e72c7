------------------------- MODULE PromptsProofs -------------------------
(***************************************************************************)
(* Theorems about what asks the user something: the approver (Approver) and *)
(* the dialogs of the indicator (Dialogs), which share no state.           *)
(***************************************************************************)
EXTENDS Approver, Dialogs, TLAPS, FiniteSetTheorems, FunctionTheorems, SequenceTheorems

-----------------------------------------------------------------------------
(* Theorems about Approver, for any number of calls, texts and accounts. *)

\* Each kind of step preserves the type invariant.
LEMMA InitType == Init => TypeOK
<1> SUFFICES ASSUME Init PROVE TypeOK
  OBVIOUS
<1>1. callState \in [Calls -> CallState]
  BY DEF Init, CallState
<1>2. deferredKeys \in Nat /\ queuedKeys \in Nat /\ deferredKeys + queuedKeys <= MaxKeys
  BY ApproverAssumption DEF ApproverAssumption, Init
<1>3. claims \in [Ops -> 0..MaxClaims]
  BY ApproverAssumption DEF ApproverAssumption, Init
<1>4. arrived \in Seq(Ops)
  BY DEF Init
<1>5. owner \in [Ops -> {"dispatcher", "handler", "approver"}]
  BY DEF Init
<1>6. answered \in [Ops -> {"no", "finished", "error"}]
  BY DEF Init
<1> QED
  BY <1>1, <1>2, <1>3, <1>4, <1>5, <1>6 DEF Init, TypeOK

LEMMA AddType ==
  ASSUME TypeOK, NEW o \in Ops, AddDispatchOperation(o) PROVE TypeOK'
<1> DEFINE op == [kind |-> "ready", chan |-> o, n |-> 0]
<1>1. o \in Calls => op \in PendingOp
  BY DEF PendingOp
<1>2. o \in Calls => \A error \in BOOLEAN : [op |-> op, error |-> error] \in Reply
  BY <1>1 DEF Reply
<1>3. arrived' \in Seq(Ops)
  <2>1. arrived' \in {arrived, Append(arrived, o)}
    BY DEF AddDispatchOperation
  <2>2. arrived \in Seq(Ops)
    BY DEF TypeOK
  <2> QED
    BY <2>1, <2>2
<1>4. owner' \in [Ops -> {"dispatcher", "handler", "approver"}]
  BY DEF AddDispatchOperation, TypeOK, HandleWith
<1>5. listed' \in SUBSET Ops
  BY DEF AddDispatchOperation, TypeOK
<1>6. channels' \in SUBSET PendingOp /\ replies' \in SUBSET Reply
  <2>1. \/ UNCHANGED <<channels, replies>>
        \/ /\ o \in Calls
           /\ channels' = channels \cup {op}
           /\ \E error \in BOOLEAN : replies' = replies \cup {[op |-> op, error |-> error]}
    BY DEF AddDispatchOperation
  <2> HIDE DEF op
  <2> QED
    BY <1>1, <1>2, <2>1 DEF TypeOK
<1>7. answered' \in [Ops -> {"no", "finished", "error"}]
  BY DEF AddDispatchOperation, TypeOK
<1> QED
  BY <1>3, <1>4, <1>5, <1>6, <1>7 DEF AddDispatchOperation, TypeOK, ui, keys

\* The notification handle, the screen and the sounds keep their types.
LEMMA ShowType ==
  ASSUME TypeOK, NEW c \in Calls, NEW o \in Ops, ShowSnap(c, o)
  PROVE  /\ snap' \in Prompt \cup {None}
         /\ notifs' \in SUBSET Prompt
         /\ sounds' \in SUBSET {"ringtone", "waitingTone", "vibration"}
<1>1. CASE UNCHANGED ui
  BY <1>1 DEF ui, TypeOK
<1>2. CASE snap' = None /\ sounds' = {} /\ UNCHANGED notifs
  BY <1>2 DEF TypeOK
<1>3. CASE /\ snap' = [call |-> c, op |-> o]
           /\ notifs' = notifs \cup {snap'}
           /\ \E vibrate \in BOOLEAN :
                sounds' = sounds \cup
                  (IF HasCalls THEN {"waitingTone"}
                   ELSE {"ringtone"} \cup (IF vibrate THEN {"vibration"} ELSE {}))
  <2>1. snap' \in Prompt
    BY <1>3 DEF Prompt
  <2>2. notifs' \in SUBSET Prompt
    BY <1>3, <2>1 DEF TypeOK
  <2>3. sounds' \in SUBSET {"ringtone", "waitingTone", "vibration"}
    BY <1>3 DEF TypeOK
  <2> QED
    BY <2>1, <2>2, <2>3
<1> QED
  BY <1>1, <1>2, <1>3 DEF ShowSnap

LEMMA CloseType ==
  ASSUME TypeOK, NEW pressed, CloseSnap(pressed)
  PROVE  /\ snap' \in Prompt \cup {None}
         /\ notifs' \in SUBSET Prompt
         /\ sounds' \in SUBSET {"ringtone", "waitingTone", "vibration"}
BY DEF TypeOK, CloseSnap

LEMMA ApproveType ==
  ASSUME TypeOK, NEW o \in Ops, NEW pressed, NEW states, Approve(o, pressed, states)
  PROVE  /\ snap' \in Prompt \cup {None}
         /\ notifs' \in SUBSET Prompt
         /\ sounds' \in SUBSET {"ringtone", "waitingTone", "vibration"}
         /\ accepted' \in SUBSET Calls
         /\ owner' \in [Ops -> {"dispatcher", "handler", "approver"}]
         /\ listed' \in SUBSET Ops
BY CloseType DEF Approve, Accept, HandleWith, TypeOK

LEMMA RejectType ==
  ASSUME TypeOK, NEW o \in Ops, NEW pressed, Reject(o, pressed)
  PROVE  /\ snap' \in Prompt \cup {None}
         /\ notifs' \in SUBSET Prompt
         /\ sounds' \in SUBSET {"ringtone", "waitingTone", "vibration"}
         /\ claims' \in [Ops -> 0..MaxClaims]
         /\ channels' \in SUBSET PendingOp
         /\ replies' \in SUBSET Reply
         /\ owner' \in [Ops -> {"dispatcher", "handler", "approver"}]
<1> DEFINE op == [kind |-> "claim", chan |-> o, n |-> claims[o] + 1]
<1>1. claims[o] + 1 \in 1..MaxClaims
  BY ApproverAssumption DEF ApproverAssumption, Reject, TypeOK
<1>2. op \in PendingOp
  BY <1>1 DEF PendingOp
<1>3. \A error \in BOOLEAN : [op |-> op, error |-> error] \in Reply
  BY <1>2 DEF Reply
<1>4. claims' \in [Ops -> 0..MaxClaims]
  BY <1>1 DEF Reject, TypeOK
<1>5. channels' \in SUBSET PendingOp
  BY <1>2 DEF Reject, TypeOK
<1>6. replies' \in SUBSET Reply /\ owner' \in [Ops -> {"dispatcher", "handler", "approver"}]
  BY <1>3 DEF Reject, TypeOK
<1>7. CloseSnap(pressed)
  BY DEF Reject
<1> QED
  BY <1>4, <1>5, <1>6, <1>7, CloseType

LEMMA RingType ==
  ASSUME TypeOK, NEW c \in Calls, NEW o \in Ops, NEW op, RingFor(c, o, op)
  PROVE  /\ snap' \in Prompt \cup {None}
         /\ notifs' \in SUBSET Prompt
         /\ sounds' \in SUBSET {"ringtone", "waitingTone", "vibration"}
         /\ watched' \in SUBSET Calls
         /\ channels' \in SUBSET PendingOp
         /\ fetches' \in SUBSET Prompt
         /\ UNCHANGED <<owner, accepted, listed>>
<1>1. [call |-> c, op |-> o] \in Prompt
  BY DEF Prompt
<1>2. fetches' \in SUBSET Prompt
  BY <1>1 DEF RingFor, TypeOK
<1>3. watched' \in SUBSET Calls /\ channels' \in SUBSET PendingOp
  BY DEF RingFor, TypeOK
<1>4. CASE ShowSnap(c, o)
  BY <1>2, <1>3, <1>4, ShowType DEF RingFor
<1>5. CASE UNCHANGED ui
  BY <1>2, <1>3, <1>5 DEF RingFor, TypeOK, ui
<1> QED
  BY <1>4, <1>5 DEF RingFor

LEMMA ReadyType ==
  ASSUME TypeOK, NEW r \in replies, ChannelReady(r) PROVE TypeOK'
<1> DEFINE c == r.op.chan
<1>1. c \in Calls
  BY DEF ChannelReady, TypeOK, Reply, PendingOp
<1>0. ready' \in SUBSET Calls
  BY <1>1 DEF ChannelReady, TypeOK
<1>2. CASE UNCHANGED <<owner, accepted, ui, listed, channels, watched, fetches>>
  BY <1>0, <1>2 DEF ChannelReady, TypeOK, ui, keys
<1>3. CASE \E o \in SameAccount(c) :
             IF Waits(r)
             THEN RingFor(c, o, r.op)
             ELSE Approve(o, {}, callState) /\ UNCHANGED <<channels, watched, fetches>>
  <2>1. PICK o \in Ops :
             IF Waits(r)
             THEN RingFor(c, o, r.op)
             ELSE Approve(o, {}, callState) /\ UNCHANGED <<channels, watched, fetches>>
    BY <1>3 DEF SameAccount, TypeOK
  <2>2. CASE RingFor(c, o, r.op)
    BY <1>0, <1>1, <2>2, RingType DEF ChannelReady, TypeOK, keys
  <2>3. CASE Approve(o, {}, callState) /\ UNCHANGED <<channels, watched, fetches>>
    BY <1>0, <2>3, ApproveType DEF ChannelReady, TypeOK, keys
  <2> QED
    BY <2>1, <2>2, <2>3
<1> QED
  BY <1>2, <1>3 DEF ChannelReady

LEMMA FetchedType ==
  ASSUME TypeOK, NEW f \in fetches, ContactFetched(f) PROVE TypeOK'
<1>1. f.call \in Calls /\ f.op \in Ops
  BY DEF TypeOK, Prompt
<1>2. ShowSnap(f.call, f.op)
  BY DEF ContactFetched
<1> QED
  BY <1>1, <1>2, ShowType DEF ContactFetched, TypeOK, env, keys

LEMMA ClaimFinishedType ==
  ASSUME TypeOK, NEW r \in replies, ClaimFinished(r) PROVE TypeOK'
<1> DEFINE hop == [r.op EXCEPT !.kind = "hangup"]
<1>1. r.op \in PendingOp /\ r.op.kind = "claim"
  BY DEF TypeOK, Reply, ClaimFinished
<1>2. r.op.chan \in Calls => hop \in PendingOp
  BY <1>1 DEF PendingOp
<1>3. \A error \in BOOLEAN : r.op.chan \in Calls => [op |-> hop, error |-> error] \in Reply
  BY <1>2 DEF Reply
<1>4. \/ UNCHANGED <<hungUp, channels>> /\ replies' = replies \ {r}
      \/ /\ r.op.chan \in Calls
         /\ hungUp' = hungUp \cup {r.op.chan}
         /\ channels' = channels \cup {hop}
         /\ \E error \in BOOLEAN :
              replies' = (replies \ {r}) \cup {[op |-> hop, error |-> error]}
  BY DEF ClaimFinished
<1> HIDE DEF hop
<1>5. hungUp' \in SUBSET Calls /\ channels' \in SUBSET PendingOp /\ replies' \in SUBSET Reply
  BY <1>2, <1>3, <1>4 DEF TypeOK
<1> QED
  BY <1>5 DEF ClaimFinished, TypeOK, ui, keys

LEMMA HangupFinishedType ==
  ASSUME TypeOK, NEW r \in replies, HangupFinished(r) PROVE TypeOK'
BY DEF HangupFinished, TypeOK, env, ui, keys

LEMMA StateChangedType ==
  ASSUME TypeOK, NEW c \in Calls, NEW s \in CallState, CallStateChanged(c, s) PROVE TypeOK'
<1>1. callState' \in [Calls -> CallState]
  BY DEF CallStateChanged, TypeOK
<1>2. c \in Ops
  BY DEF Ops
<1>3. CASE ForgetEnded(c)
  <2>1. CloseSnap({})
    BY <1>3 DEF ForgetEnded
  <2> QED
    BY <1>1, <1>3, <2>1, CloseType DEF ForgetEnded, CallStateChanged, TypeOK, keys
<1>4. CASE Approve(c, {}, callState') /\ UNCHANGED channels
  BY <1>1, <1>2, <1>4, ApproveType DEF CallStateChanged, TypeOK, keys
<1>5. CASE UNCHANGED <<owner, accepted, ui, listed, channels>>
  BY <1>1, <1>5 DEF CallStateChanged, TypeOK, keys, ui
<1> QED
  BY <1>3, <1>4, <1>5 DEF CallStateChanged

LEMMA PressAcceptType ==
  ASSUME TypeOK, NEW n \in notifs, PressAccept(n) PROVE TypeOK'
<1>1. n.op \in Ops
  BY DEF TypeOK, Prompt
<1>2. Approve(n.op, {n}, callState)
  BY DEF PressAccept
<1> QED
  BY <1>1, <1>2, ApproveType DEF PressAccept, TypeOK, keys

LEMMA PressRejectType ==
  ASSUME TypeOK, NEW n \in notifs, PressReject(n) PROVE TypeOK'
<1>1. n.op \in Ops
  BY DEF TypeOK, Prompt
<1>2. Reject(n.op, {n})
  BY DEF PressReject
<1>3. busySent' \in SUBSET Ops
  BY <1>1 DEF PressReject, TypeOK
<1> QED
  BY <1>1, <1>2, <1>3, RejectType DEF PressReject, TypeOK, keys

\* AcceptCallRequested() leaves the type of everything but the keys intact.
LEMMA AcceptCallType ==
  ASSUME TypeOK, AcceptCallRequested,
         settling' \in BOOLEAN, deferredKeys' \in Nat, queuedKeys' \in Nat,
         deferredKeys' + queuedKeys' <= MaxKeys, UNCHANGED crashed
  PROVE  TypeOK'
<1>1. CASE UNCHANGED <<env, replies, ui, books>>
  BY <1>1 DEF TypeOK, env, ui, books
<1>2. ASSUME NEW o \in listed, Approve(o, {}, callState),
             UNCHANGED <<callState, hungUp, endAsked, busySent, answered, claims, replies,
                         arrived, channels, ready, watched, fetches>>
      PROVE  TypeOK'
  <2>1. o \in Ops
    BY DEF TypeOK
  <2> QED
    BY <1>2, <2>1, ApproveType DEF TypeOK
<1> QED
  BY <1>1, <1>2 DEF AcceptCallRequested

LEMMA RejectCallType == ASSUME TypeOK, RejectCall PROVE TypeOK'
<1>1. PICK o \in Ops : Reject(o, {})
  BY DEF RejectCall, TypeOK
<1> QED
  BY <1>1, RejectType DEF RejectCall, TypeOK, keys

LEMMA KeyType ==
  ASSUME TypeOK, HandleMediaKey \/ SettleTimeout \/ ProcessMediaKey
         \/ PowerKey \/ UpdateFails
  PROVE  TypeOK'
<1>0. MaxKeys \in Nat
  BY ApproverAssumption DEF ApproverAssumption
<1>1. CASE HandleMediaKey
  BY <1>0, <1>1 DEF HandleMediaKey, TypeOK, env, ui, books
<1>2. CASE SettleTimeout
  <2>1. /\ settling' = FALSE /\ deferredKeys' = 0
        /\ queuedKeys' = queuedKeys + deferredKeys
    BY <1>2 DEF SettleTimeout
  <2>2. /\ deferredKeys \in Nat /\ queuedKeys \in Nat
        /\ deferredKeys + queuedKeys <= MaxKeys
    BY DEF TypeOK
  <2>3. /\ deferredKeys' \in Nat /\ queuedKeys' \in Nat
        /\ deferredKeys' + queuedKeys' <= MaxKeys
    BY <1>0, <2>1, <2>2
  <2>4. settling' \in BOOLEAN
    BY <2>1
  <2> QED
    BY <1>2, <2>3, <2>4 DEF SettleTimeout, TypeOK, env, ui, books
<1>3. CASE ProcessMediaKey
  <2>1. /\ settling' \in BOOLEAN /\ deferredKeys' \in Nat /\ queuedKeys' \in Nat
        /\ deferredKeys' + queuedKeys' <= MaxKeys /\ UNCHANGED crashed
    <3>1. /\ queuedKeys \in Nat /\ deferredKeys \in Nat /\ settling \in BOOLEAN
          /\ deferredKeys + queuedKeys <= MaxKeys
      BY DEF TypeOK
    <3>2. /\ queuedKeys > 0 /\ queuedKeys' = queuedKeys - 1
          /\ UNCHANGED <<settling, deferredKeys, crashed>>
      BY <1>3 DEF ProcessMediaKey
    <3> QED
      BY <1>0, <3>1, <3>2
  <2>2. CASE AcceptCallRequested
    BY <2>1, <2>2, AcceptCallType
  <2>3. CASE /\ endAsked' \in SUBSET Calls
             /\ UNCHANGED <<callState, owner, accepted, hungUp, busySent, answered, claims,
                            replies, ui, books>>
    BY <2>1, <2>3 DEF TypeOK, ui, books
  <2>4. endAsked \in SUBSET Calls
    BY DEF TypeOK
  <2> QED
    BY <1>3, <2>2, <2>3, <2>4 DEF ProcessMediaKey
<1>4. CASE PowerKey
  BY <1>4 DEF PowerKey, TypeOK, env, keys, books
<1>5. CASE UpdateFails
  <2>1. CloseSnap({})
    BY <1>5 DEF UpdateFails
  <2> QED
    BY <1>5, <2>1, CloseType DEF UpdateFails, TypeOK, env, keys, books
<1> QED
  BY <1>1, <1>2, <1>3, <1>4, <1>5

LEMMA NextType == TypeOK /\ [Next]_vars => TypeOK'
<1> SUFFICES ASSUME TypeOK, [Next]_vars PROVE TypeOK'
  OBVIOUS
<1>1. CASE UNCHANGED vars
  BY <1>1 DEF TypeOK, vars, env, ui, keys, books
<1>2. ASSUME NEW o \in Ops, AddDispatchOperation(o) PROVE TypeOK'
  BY <1>2, AddType
<1>3. ASSUME NEW r \in replies, ChannelReady(r) \/ ClaimFinished(r) \/ HangupFinished(r)
      PROVE  TypeOK'
  BY <1>3, ReadyType, ClaimFinishedType, HangupFinishedType
<1>4. ASSUME NEW f \in fetches, ContactFetched(f) PROVE TypeOK'
  BY <1>4, FetchedType
<1>5. ASSUME NEW c \in Calls, NEW s \in CallState, CallStateChanged(c, s) PROVE TypeOK'
  BY <1>5, StateChangedType
<1>6. ASSUME NEW n \in notifs, PressAccept(n) \/ PressReject(n) PROVE TypeOK'
  BY <1>6, PressAcceptType, PressRejectType
<1>7. CASE AcceptCall
  <2>1. /\ AcceptCallRequested /\ UNCHANGED crashed
        /\ settling' \in BOOLEAN /\ deferredKeys' \in Nat /\ queuedKeys' \in Nat
        /\ deferredKeys' + queuedKeys' <= MaxKeys
    BY <1>7 DEF AcceptCall, TypeOK, keys
  <2> QED
    BY <2>1, AcceptCallType
<1>8. CASE RejectCall
  BY <1>8, RejectCallType
<1>9. CASE PowerKey \/ UpdateFails \/ HandleMediaKey \/ SettleTimeout \/ ProcessMediaKey
  BY <1>9, KeyType
<1> QED
  BY <1>1, <1>2, <1>3, <1>4, <1>5, <1>6, <1>7, <1>8, <1>9 DEF Next

\* Every reachable state of the approver is well typed.
THEOREM TypeCorrect == Spec => []TypeOK
<1> QED
  BY InitType, NextType, PTL DEF Spec

-----------------------------------------------------------------------------
\* The buttons of c's notification may be bound to o.
Announces(c, o) == o \in SameAccount(c) \/ [call |-> c, op |-> o] \in fetches

\* What a step may do to the notification and the sounds.
LEMMA UiStep ==
  ASSUME TypeOK, [Next]_vars
  PROVE  \/ UNCHANGED ui
         \/ \E pressed \in SUBSET notifs : CloseSnap(pressed)
         \/ \E c \in Calls, o \in Ops : ShowSnap(c, o) /\ Announces(c, o)
         \/ sounds' \subseteq sounds /\ UNCHANGED <<snap, notifs>>
<1> DEFINE Goal == \/ UNCHANGED ui
                   \/ \E pressed \in SUBSET notifs : CloseSnap(pressed)
                   \/ \E c \in Calls, o \in Ops : ShowSnap(c, o) /\ Announces(c, o)
                   \/ sounds' \subseteq sounds /\ UNCHANGED <<snap, notifs>>
<1>0. {} \in SUBSET notifs
  OBVIOUS
<1>1. CASE UNCHANGED vars
  BY <1>1 DEF vars
<1>2. ASSUME NEW o \in Ops, AddDispatchOperation(o) PROVE UNCHANGED ui
  BY <1>2 DEF AddDispatchOperation
<1>3. ASSUME NEW r \in replies, ChannelReady(r) PROVE Goal
  <2>1. r.op.chan \in Calls
    BY <1>3 DEF ChannelReady, TypeOK, Reply, PendingOp
  <2>2. SameAccount(r.op.chan) \subseteq Ops
    BY DEF SameAccount, TypeOK
  <2>3. CASE UNCHANGED ui
    BY <2>3
  <2>4. ASSUME NEW o \in SameAccount(r.op.chan), RingFor(r.op.chan, o, r.op) PROVE Goal
    BY <2>1, <2>2, <2>4 DEF RingFor, Announces
  <2>5. ASSUME NEW o \in SameAccount(r.op.chan), Approve(o, {}, callState) PROVE Goal
    BY <1>0, <2>5 DEF Approve
  <2> HIDE DEF Goal
  <2> QED
    BY <1>3, <2>3, <2>4, <2>5 DEF ChannelReady, ui
<1>4. ASSUME NEW r \in replies, ClaimFinished(r) \/ HangupFinished(r) PROVE UNCHANGED ui
  BY <1>4 DEF ClaimFinished, HangupFinished
<1>5. ASSUME NEW f \in fetches, ContactFetched(f) PROVE Goal
  <2>1. f.call \in Calls /\ f.op \in Ops /\ f = [call |-> f.call, op |-> f.op]
    BY DEF TypeOK, Prompt
  <2> QED
    BY <1>5, <2>1 DEF ContactFetched, Announces
<1>6. ASSUME NEW c \in Calls, NEW s \in CallState, CallStateChanged(c, s) PROVE Goal
  <2>1. CASE ForgetEnded(c)
    BY <1>0, <2>1 DEF ForgetEnded
  <2>2. CASE Approve(c, {}, callState')
    BY <1>0, <2>2 DEF Approve
  <2>3. CASE UNCHANGED ui
    BY <2>3
  <2> HIDE DEF Goal
  <2> QED
    BY <1>6, <2>1, <2>2, <2>3 DEF CallStateChanged, ui
<1>7. ASSUME NEW n \in notifs, PressAccept(n) \/ PressReject(n) PROVE Goal
  <2>1. {n} \in SUBSET notifs
    OBVIOUS
  <2>2. CloseSnap({n})
    BY <1>7 DEF PressAccept, PressReject, Approve, Reject
  <2> QED
    BY <2>1, <2>2
<1>8. ASSUME AcceptCallRequested PROVE Goal
  BY <1>0, <1>8 DEF AcceptCallRequested, Approve
<1>9. CASE RejectCall
  BY <1>0, <1>9 DEF RejectCall, Reject
<1>10. CASE PowerKey
  BY <1>10 DEF PowerKey
<1>11. CASE UpdateFails
  BY <1>0, <1>11 DEF UpdateFails
<1>12. CASE HandleMediaKey \/ SettleTimeout
  BY <1>12 DEF HandleMediaKey, SettleTimeout
<1>13. CASE ProcessMediaKey
  <2>1. AcceptCallRequested \/ UNCHANGED ui
    BY <1>13 DEF ProcessMediaKey
  <2> QED
    BY <2>1, <1>8
<1> HIDE DEF Goal
<1>14. CASE UNCHANGED ui
  BY <1>14 DEF Goal
<1>15. Goal
  BY <1>1, <1>2, <1>3, <1>4, <1>5, <1>6, <1>7, <1>8, <1>9, <1>10, <1>11, <1>12, <1>13, <1>14
     DEF Next, AcceptCall, Goal
<1> QED
  BY <1>15 DEF Goal

\* The pending notification is on the screen while anything sounds. The set of
\* sounds alone is not inductive: the handle must be known to be on the screen.
SnapOnScreen == snap # None => snap \in notifs

LEMMA SoundAndScreen == Spec => [](SoundHasSnap /\ SnapOnScreen)
<1> DEFINE Inv == SoundHasSnap /\ SnapOnScreen
<1>1. Init => Inv
  BY DEF Init, SoundHasSnap, SnapOnScreen
<1>2. TypeOK /\ Inv /\ [Next]_vars => Inv'
  <2> SUFFICES ASSUME TypeOK, Inv, [Next]_vars PROVE Inv'
    OBVIOUS
  <2>1. CASE UNCHANGED ui \/ (sounds' \subseteq sounds /\ UNCHANGED <<snap, notifs>>)
    BY <2>1 DEF SoundHasSnap, SnapOnScreen, ui
  <2>2. ASSUME NEW pressed, CloseSnap(pressed) PROVE Inv'
    BY <2>2 DEF SoundHasSnap, SnapOnScreen, CloseSnap
  <2>3. ASSUME NEW c \in Calls, NEW o \in Ops, ShowSnap(c, o) PROVE Inv'
    <3>1. [call |-> c, op |-> o] # None
      BY ApproverAssumption DEF ApproverAssumption
    <3> QED
      BY <2>3, <3>1 DEF SoundHasSnap, SnapOnScreen, ShowSnap, ui
  <2> QED
    BY UiStep, <2>1, <2>2, <2>3
<1> QED
  BY <1>1, <1>2, TypeCorrect, PTL DEF Spec

\* Nothing rings without a prompt whose buttons stop it.
THEOREM SoundStopsWithSnap == Spec => []SoundHasSnap
BY SoundAndScreen, PTL

LEMMA SnapStaysOnScreen == Spec => []SnapOnScreen
BY SoundAndScreen, PTL

-----------------------------------------------------------------------------
\* A fetch request starts only for a call and the operation looked up for it.
LEMMA FetchStep ==
  ASSUME TypeOK, [Next]_vars, NEW f \in fetches', f \notin fetches
  PROVE  /\ f.call \in Calls
         /\ f.op \in SameAccount(f.call)
<1>1. PICK r \in replies : ChannelReady(r)
  BY DEF Next, Alive, vars, books, AddDispatchOperation, ClaimFinished, HangupFinished, ContactFetched,
         CallStateChanged, PressAccept, PressReject, AcceptCall, AcceptCallRequested, RejectCall,
         PowerKey, UpdateFails, HandleMediaKey, SettleTimeout, ProcessMediaKey
<1>2. PICK o \in SameAccount(r.op.chan) : RingFor(r.op.chan, o, r.op)
  BY <1>1 DEF ChannelReady
<1>3. f = [call |-> r.op.chan, op |-> o]
  BY <1>2 DEF RingFor
<1>4. r.op.chan \in Calls
  BY <1>1 DEF ChannelReady, TypeOK, Reply, PendingOp
<1> QED
  BY <1>2, <1>3, <1>4

-----------------------------------------------------------------------------
(* A claimed channel is hung up. The claim's reply and its entry in mChannels *)
(* are touched by three actions only: the claim itself, its end, and the end  *)
(* of the call.                                                               *)

Claiming(c, r) == /\ r.op.kind = "claim" /\ r.op.chan = c /\ ~r.error
                  /\ r.op \in channels

\* Only Reject gives a channel to the approver, and then a claim is under way.
LEMMA OwnerStep ==
  ASSUME TypeOK, [Next]_vars, NEW c \in Calls, owner[c] # "approver", owner'[c] = "approver"
  PROVE  \E r \in replies' : Claiming(c, r)'
<1>1. c \in Ops
  BY DEF Ops
<1>2. ASSUME NEW S, HandleWith(S) PROVE FALSE
  BY <1>1, <1>2 DEF HandleWith, TypeOK
<1>3. ASSUME owner' = owner PROVE FALSE
  BY <1>3
<1>4. ASSUME NEW o \in Ops, NEW pressed, Reject(o, pressed)
      PROVE  \E r \in replies' : Claiming(c, r)'
  <2> DEFINE op == [kind |-> "claim", chan |-> o, n |-> claims[o] + 1]
  <2>1. PICK error \in BOOLEAN :
          /\ replies' = replies \cup {[op |-> op, error |-> error]}
          /\ owner' = [owner EXCEPT ![o] = IF error THEN @ ELSE "approver"]
    BY <1>4 DEF Reject
  <2>2. o = c /\ ~error
    BY <1>1, <2>1 DEF TypeOK
  <2>3. channels' = channels \cup {op}
    BY <1>4 DEF Reject
  <2> DEFINE reply == [op |-> op, error |-> error]
  <2>4. /\ reply.op.kind = "claim" /\ reply.op.chan = c /\ ~reply.error
        /\ reply.op \in channels'
    BY <2>2, <2>3
  <2>5. reply \in replies'
    BY <2>1
  <2> HIDE DEF reply
  <2> QED
    BY <2>4, <2>5 DEF Claiming
<1>5. ASSUME NEW o \in Ops, AddDispatchOperation(o) PROVE FALSE
  BY <1>2, <1>3, <1>5 DEF AddDispatchOperation
<1>6. ASSUME NEW o, NEW pressed, NEW states, Approve(o, pressed, states) PROVE FALSE
  BY <1>2, <1>6 DEF Approve
<1>7. ASSUME NEW r \in replies, ChannelReady(r) PROVE FALSE
  BY <1>3, <1>6, <1>7 DEF ChannelReady, RingFor
<1>8. ASSUME NEW d \in Calls, NEW s \in CallState, CallStateChanged(d, s) PROVE FALSE
  BY <1>3, <1>6, <1>8 DEF CallStateChanged, ForgetEnded
<1>9. ASSUME NEW n \in notifs, PressAccept(n) PROVE FALSE
  BY <1>6, <1>9 DEF PressAccept
<1>10. ASSUME NEW n \in notifs, PressReject(n) PROVE \E r \in replies' : Claiming(c, r)'
  BY <1>4, <1>10 DEF PressReject, TypeOK, Prompt
<1>11. CASE RejectCall
  <2>1. PICK o \in Ops : Reject(o, {})
    BY <1>11 DEF RejectCall, TypeOK
  <2> QED
    BY <1>4, <2>1
<1>12. ASSUME AcceptCallRequested PROVE FALSE
  BY <1>3, <1>6, <1>12 DEF AcceptCallRequested, env
<1>13. CASE ProcessMediaKey
  BY <1>3, <1>12, <1>13 DEF ProcessMediaKey
<1> QED
  BY <1>3, <1>5, <1>7, <1>8, <1>9, <1>10, <1>11, <1>12, <1>13
     DEF Next, Alive, vars, env, ClaimFinished, HangupFinished, ContactFetched, AcceptCall,
         PowerKey, UpdateFails, HandleMediaKey, SettleTimeout

\* A claim under way stays so until it finishes, when the channel is hung up,
\* or until the call ends.
LEMMA ClaimStep ==
  ASSUME TypeOK, [Next]_vars, NEW c \in Calls, NEW r \in replies, Claiming(c, r)
  PROVE  \/ c \in hungUp'
         \/ callState'[c] = "ended"
         \/ r \in replies' /\ r.op \in channels'
<1>1. r.op.kind = "claim" /\ r.op.chan = c /\ ~r.error /\ r.op \in channels
  BY DEF Claiming
<1>2. ASSUME replies \subseteq replies', channels \subseteq channels'
      PROVE  r \in replies' /\ r.op \in channels'
  BY <1>1, <1>2
<1>3. ASSUME NEW o \in Ops, AddDispatchOperation(o)
      PROVE  replies \subseteq replies' /\ channels \subseteq channels'
  BY <1>3 DEF AddDispatchOperation
<1>4. ASSUME NEW q \in replies, ChannelReady(q) PROVE r \in replies' /\ r.op \in channels'
  BY <1>1, <1>4 DEF ChannelReady, RingFor
<1>5. ASSUME NEW q \in replies, ClaimFinished(q)
      PROVE  c \in hungUp' \/ (r \in replies' /\ r.op \in channels')
  BY <1>1, <1>5 DEF ClaimFinished
<1>6. ASSUME NEW q \in replies, HangupFinished(q) PROVE r \in replies' /\ r.op \in channels'
  BY <1>1, <1>6 DEF HangupFinished
<1>7. ASSUME NEW d \in Calls, NEW s \in CallState, CallStateChanged(d, s)
      PROVE  callState'[c] = "ended" \/ (r \in replies' /\ r.op \in channels')
  <2>1. replies' = replies
    BY <1>7 DEF CallStateChanged
  <2>2. CASE ForgetEnded(d) /\ s = "ended"
    BY <1>1, <1>7, <2>1, <2>2 DEF CallStateChanged, ForgetEnded, TypeOK
  <2>3. CASE UNCHANGED channels
    BY <1>1, <2>1, <2>3
  <2> QED
    BY <1>7, <2>2, <2>3 DEF CallStateChanged
<1>8. ASSUME NEW n \in notifs, PressReject(n)
      PROVE  replies \subseteq replies' /\ channels \subseteq channels'
  BY <1>8 DEF PressReject, Reject
<1>9. CASE RejectCall
  BY <1>2, <1>9 DEF RejectCall, Reject
<1>10. ASSUME UNCHANGED <<replies, channels>> PROVE r \in replies' /\ r.op \in channels'
  BY <1>1, <1>10
<1>11. AcceptCallRequested => UNCHANGED <<replies, channels>>
  BY DEF AcceptCallRequested, books
<1>12. CASE ProcessMediaKey
  BY <1>10, <1>11, <1>12 DEF ProcessMediaKey, books
<1> QED
  BY <1>2, <1>3, <1>4, <1>5, <1>6, <1>7, <1>8, <1>9, <1>10, <1>11, <1>12
     DEF Next, Alive, vars, books, ContactFetched, PressAccept, AcceptCall,
         PowerKey, UpdateFails, HandleMediaKey, SettleTimeout

\* hangup() and the end of a call are not taken back.
LEMMA DoneStep ==
  ASSUME TypeOK, [Next]_vars, NEW c \in Calls
  PROVE  /\ c \in hungUp => c \in hungUp'
         /\ callState[c] = "ended" => callState'[c] = "ended"
<1>1. ASSUME NEW d \in Calls, NEW s \in CallState, CallStateChanged(d, s)
      PROVE  hungUp' = hungUp /\ (callState[c] = "ended" => callState'[c] = "ended")
  BY <1>1 DEF CallStateChanged, TypeOK
<1>2. ASSUME NEW r \in replies, ClaimFinished(r)
      PROVE  hungUp \subseteq hungUp' /\ callState' = callState
  BY <1>2 DEF ClaimFinished
<1>3. AcceptCallRequested => UNCHANGED <<hungUp, callState>>
  BY DEF AcceptCallRequested, env
<1>4. ProcessMediaKey => UNCHANGED <<hungUp, callState>>
  BY <1>3 DEF ProcessMediaKey
<1> QED
  BY <1>1, <1>2, <1>3, <1>4
     DEF Next, Alive, vars, env, AddDispatchOperation, ChannelReady, HangupFinished, ContactFetched,
         PressAccept, PressReject, AcceptCall, RejectCall, PowerKey, UpdateFails,
         HandleMediaKey, SettleTimeout

\* A channel the approver claimed is hung up or on its way to be.
THEOREM ClaimsAreHungUp == Spec => []ClaimedIsHungUp
<1>1. Init => ClaimedIsHungUp
  BY DEF Init, ClaimedIsHungUp, Ops
<1>2. TypeOK /\ ClaimedIsHungUp /\ [Next]_vars => ClaimedIsHungUp'
  <2> SUFFICES ASSUME TypeOK, ClaimedIsHungUp, [Next]_vars,
                      NEW c \in Calls, owner'[c] = "approver"
               PROVE  \/ c \in hungUp'
                      \/ callState'[c] = "ended"
                      \/ \E r \in replies' : Claiming(c, r)'
    BY DEF ClaimedIsHungUp, Claiming
  <2>1. CASE owner[c] # "approver"
    BY <2>1, OwnerStep
  <2>2. CASE owner[c] = "approver"
    <3>1. \/ c \in hungUp
          \/ callState[c] = "ended"
          \/ \E r \in replies : Claiming(c, r)
      BY <2>2 DEF ClaimedIsHungUp, Claiming
    <3>2. ASSUME NEW r \in replies, Claiming(c, r)
          PROVE  \/ c \in hungUp'
                 \/ callState'[c] = "ended"
                 \/ Claiming(c, r)' /\ r \in replies'
      BY <3>2, ClaimStep DEF Claiming
    <3> QED
      BY <3>1, <3>2, DoneStep
  <2> QED
    BY <2>1, <2>2
<1> QED
  BY <1>1, <1>2, TypeCorrect, PTL DEF Spec

-----------------------------------------------------------------------------
(* What the approver keeps of the operations it was offered.                  *)

Offered == {o \in Ops : answered[o] = "finished"}

\* An operation is offered once, and nothing is done of it before.
OfferedOnce ==
  /\ listed \subseteq Offered
  /\ \A o \in Ops \ Offered : owner[o] = "dispatcher"
  /\ \A n \in notifs \cup fetches : n.op \in Offered

\* The approver owns, and hangs up, what it claimed.
ClaimsCounted ==
  /\ \A o \in Ops : owner[o] = "approver" => claims[o] > 0
  /\ \A r \in replies : r.op.kind # "ready" => claims[r.op.chan] > 0

\* Whoever is asked about has callStateChanged() connected.
CallsWatched == \A n \in notifs \cup fetches : n.call \in watched

\* The greeter's session asks for no contacts.
GreeterFetchesNone == greeterMode => fetches = {}

Books == /\ OfferedOnce /\ ClaimsCounted /\ CallsWatched
         /\ GreeterFetchesNone /\ HandedOverLeavesList

\* A step that neither gives a channel away nor adds to the lists.
LEMMA BooksSettle ==
  ASSUME Books, UNCHANGED <<answered, owner, claims, greeterMode>>, listed' \subseteq listed,
         watched \subseteq watched', notifs' \subseteq notifs, fetches' \subseteq fetches,
         \A r \in replies' : r \in replies \/ r.op.kind = "ready" \/ claims[r.op.chan] > 0
  PROVE  Books'
BY DEF Books, OfferedOnce, ClaimsCounted, CallsWatched, GreeterFetchesNone,
       HandedOverLeavesList, Offered

LEMMA BooksApprove ==
  ASSUME TypeOK, Books, NEW o \in Offered, NEW pressed, NEW states, Approve(o, pressed, states),
         UNCHANGED <<answered, claims, greeterMode, watched, fetches>>, replies' \subseteq replies
  PROVE  Books'
<1>1. /\ listed' = listed \ {o} /\ notifs' \subseteq notifs
      /\ owner' = [x \in Ops |-> IF x \in {o} /\ owner[x] = "dispatcher" THEN "handler" ELSE owner[x]]
  BY DEF Approve, CloseSnap, HandleWith
<1>2. /\ o \in Ops /\ listed \subseteq Ops
      /\ \A x \in Ops : x # o => owner'[x] = owner[x]
      /\ owner'[o] = "approver" => owner[o] = "approver"
  BY <1>1 DEF TypeOK, Offered
<1>3. OfferedOnce'
  BY <1>1, <1>2 DEF Books, OfferedOnce, Offered
<1>4. ClaimsCounted'
  BY <1>2 DEF Books, ClaimsCounted
<1>5. HandedOverLeavesList'
  BY <1>1, <1>2 DEF Books, HandedOverLeavesList
<1> QED
  BY <1>1, <1>3, <1>4, <1>5 DEF Books, CallsWatched, GreeterFetchesNone

LEMMA BooksReject ==
  ASSUME TypeOK, Books, NEW o \in Offered, NEW pressed, Reject(o, pressed),
         UNCHANGED <<answered, listed, greeterMode, watched, fetches>>
  PROVE  Books'
<1> DEFINE op == [kind |-> "claim", chan |-> o, n |-> claims[o] + 1]
<1>1. PICK error \in BOOLEAN :
         /\ replies' = replies \cup {[op |-> op, error |-> error]}
         /\ owner' = [owner EXCEPT ![o] = IF error THEN @ ELSE "approver"]
  BY DEF Reject
<1>2. claims' = [claims EXCEPT ![o] = @ + 1] /\ notifs' \subseteq notifs
  BY DEF Reject, CloseSnap
<1>3. o \in Ops /\ \A x \in Ops : claims[x] \in Nat /\ claims'[x] \in Nat
  BY <1>2, ApproverAssumption DEF TypeOK, Offered, ApproverAssumption
<1>4. claims'[o] > 0 /\ \A x \in Ops : x # o => claims'[x] = claims[x]
  BY <1>2, <1>3 DEF TypeOK
<1>5. /\ \A x \in Ops : x # o => owner'[x] = owner[x]
      /\ owner'[o] \in {owner[o], "approver"}
  BY <1>1, <1>3 DEF TypeOK
<1>6. \A r \in replies : r.op.chan \in Ops
  BY DEF TypeOK, Reply, PendingOp, Ops
<1>7. \A r \in replies' : r \in replies \/ r.op.chan = o
  BY <1>1
<1>8. ClaimsCounted'
  BY <1>3, <1>4, <1>5, <1>6, <1>7 DEF Books, ClaimsCounted
<1>9. OfferedOnce'
  BY <1>2, <1>5 DEF Books, OfferedOnce, Offered
<1>10. HandedOverLeavesList'
  BY <1>5 DEF Books, HandedOverLeavesList, TypeOK
<1> QED
  BY <1>2, <1>8, <1>9, <1>10 DEF Books, CallsWatched, GreeterFetchesNone

LEMMA BooksAdd ==
  ASSUME TypeOK, Books, NEW o \in Ops, AddDispatchOperation(o), UNCHANGED greeterMode
  PROVE  Books'
<1>1. /\ Offered \subseteq Offered' /\ Offered' \subseteq Offered \cup {o}
      /\ o \notin Offered /\ owner[o] = "dispatcher" /\ o \notin listed
  BY DEF AddDispatchOperation, TypeOK, Books, OfferedOnce, Offered
<1>2. UNCHANGED <<claims, notifs, fetches, watched>>
  BY DEF AddDispatchOperation, ui
<1>3. \A r \in replies' : r \in replies \/ r.op.kind = "ready"
  BY DEF AddDispatchOperation
<1>4. CASE UNCHANGED <<owner, listed>>
  BY <1>1, <1>2, <1>3, <1>4
     DEF Books, OfferedOnce, ClaimsCounted, CallsWatched, GreeterFetchesNone, HandedOverLeavesList
<1>5. CASE /\ answered' = [answered EXCEPT ![o] = "finished"]
           /\ listed' = (listed \cup {o}) \ Handleable
           /\ HandleWith((listed \cup {o}) \cap Handleable)
  <2>1. \A x \in Ops : owner'[x] = IF x \in (listed \cup {o}) \cap Handleable /\ owner[x] = "dispatcher"
                                   THEN "handler" ELSE owner[x]
    BY <1>5 DEF HandleWith
  <2>0. Offered' = Offered \cup {o}
    BY <1>1, <1>5 DEF Offered, TypeOK
  <2>2. OfferedOnce'
    BY <1>1, <1>2, <1>5, <2>0, <2>1 DEF Books, OfferedOnce
  <2>3. ClaimsCounted'
    BY <1>2, <1>3, <2>1 DEF Books, ClaimsCounted
  <2>4. HandedOverLeavesList'
    BY <1>1, <1>5, <2>1 DEF Books, HandedOverLeavesList, TypeOK
  <2> QED
    BY <1>2, <2>2, <2>3, <2>4 DEF Books, CallsWatched, GreeterFetchesNone
<1> QED
  BY <1>4, <1>5 DEF AddDispatchOperation

\* The prompt that showSnapDecision() puts on the screen, if it does.
LEMMA ShowStep ==
  ASSUME NEW c \in Calls, NEW o \in Ops, ShowSnap(c, o)
  PROVE  /\ notifs' \subseteq notifs \cup {[call |-> c, op |-> o]}
         /\ \/ snap' = snap \/ snap' = None
            \/ snap' = [call |-> c, op |-> o]
BY DEF ShowSnap, ui

LEMMA BooksRing ==
  ASSUME TypeOK, Books, NEW c \in Calls, NEW o \in SameAccount(c), NEW op, RingFor(c, o, op),
         UNCHANGED <<answered, claims, greeterMode>>, replies' \subseteq replies
  PROVE  Books'
<1> DEFINE new == [call |-> c, op |-> o]
<1>1. o \in listed /\ o \in Ops
  BY DEF SameAccount, TypeOK
<1>2. /\ notifs' \cup fetches' \subseteq notifs \cup fetches \cup {new}
      /\ greeterMode => fetches' = fetches
  BY <1>1, ShowStep DEF RingFor, ui
<1>3. watched' = watched \cup {c} /\ UNCHANGED <<owner, listed>>
  BY DEF RingFor
<1>4. OfferedOnce'
  BY <1>1, <1>2, <1>3 DEF Books, OfferedOnce, Offered
<1>5. CallsWatched'
  BY <1>2, <1>3 DEF Books, CallsWatched
<1> QED
  BY <1>2, <1>3, <1>4, <1>5 DEF Books, ClaimsCounted, GreeterFetchesNone, HandedOverLeavesList

LEMMA BooksReady ==
  ASSUME TypeOK, Books, NEW r \in replies, ChannelReady(r), UNCHANGED greeterMode
  PROVE  Books'
<1> DEFINE c == r.op.chan
<1>1. c \in Calls /\ replies' \subseteq replies /\ UNCHANGED <<answered, claims>>
  BY DEF ChannelReady, TypeOK, Reply, PendingOp
<1>2. CASE UNCHANGED <<owner, ui, listed, watched, fetches>>
  BY <1>1, <1>2, BooksSettle DEF ui
<1>3. ASSUME NEW o \in SameAccount(c), RingFor(c, o, r.op) PROVE Books'
  BY <1>1, <1>3, BooksRing
<1>4. ASSUME NEW o \in SameAccount(c), Approve(o, {}, callState), UNCHANGED <<watched, fetches>>
      PROVE  Books'
  BY <1>1, <1>4, BooksApprove DEF SameAccount, Books, OfferedOnce
<1> QED
  BY <1>2, <1>3, <1>4 DEF ChannelReady

LEMMA BooksFetched ==
  ASSUME TypeOK, Books, NEW f \in fetches, ContactFetched(f), UNCHANGED greeterMode
  PROVE  Books'
<1>1. f \in Prompt /\ f = [call |-> f.call, op |-> f.op] /\ f.call \in Calls /\ f.op \in Ops
  BY DEF TypeOK, Prompt
<1>2. ShowSnap(f.call, f.op) /\ fetches' = fetches \ {f}
  BY DEF ContactFetched
<1>3. notifs' \cup fetches' \subseteq notifs \cup fetches
  BY <1>1, <1>2, ShowStep
<1>4. UNCHANGED <<answered, owner, claims, listed, watched, replies>>
  BY DEF ContactFetched, env
<1> QED
  BY <1>2, <1>3, <1>4 DEF Books, OfferedOnce, ClaimsCounted, CallsWatched, GreeterFetchesNone,
     HandedOverLeavesList, Offered

LEMMA BooksNext ==
  ASSUME TypeOK, Books, [Next]_vars
  PROVE  Books'
<1>1. CASE UNCHANGED vars
  BY <1>1, BooksSettle DEF vars, env, ui, books
<1> SUFFICES ASSUME Next PROVE Books'
  BY <1>1
<1>0. UNCHANGED greeterMode
  BY DEF Next, Alive
<1>2. ASSUME NEW o \in Ops, AddDispatchOperation(o) PROVE Books'
  BY <1>0, <1>2, BooksAdd
<1>3. ASSUME NEW r \in replies, ChannelReady(r) PROVE Books'
  BY <1>0, <1>3, BooksReady
<1>4. ASSUME NEW r \in replies, ClaimFinished(r) PROVE Books'
  <2> DEFINE hop == [r.op EXCEPT !.kind = "hangup"]
  <2>0. r.op \in PendingOp
    BY DEF TypeOK, Reply
  <2>a. hop.chan = r.op.chan
    BY <2>0 DEF PendingOp
  <2>b. \A q \in replies' : q \in replies \/ q.op = hop
    BY <1>4 DEF ClaimFinished
  <2>1. \A q \in replies' : q \in replies \/ q.op.chan = r.op.chan
    BY <2>a, <2>b
  <2>2. claims[r.op.chan] > 0
    BY <1>4 DEF ClaimFinished, Books, ClaimsCounted
  <2>3. UNCHANGED <<answered, owner, claims, listed, watched, notifs, fetches>>
    BY <1>4 DEF ClaimFinished, ui
  <2> QED
    BY <1>0, <2>1, <2>2, <2>3, BooksSettle
<1>5. ASSUME NEW r \in replies, HangupFinished(r) PROVE Books'
  <2>1. /\ replies' \subseteq replies /\ listed' \subseteq listed
        /\ UNCHANGED <<answered, owner, claims, watched, notifs, fetches>>
    BY <1>5 DEF HangupFinished, env, ui
  <2> QED
    BY <1>0, <2>1, BooksSettle
<1>6. ASSUME NEW f \in fetches, ContactFetched(f) PROVE Books'
  BY <1>0, <1>6, BooksFetched
<1>7. ASSUME NEW c \in Calls, NEW s \in CallState, CallStateChanged(c, s) PROVE Books'
  <2>1. UNCHANGED <<answered, claims, replies, watched, fetches>>
    BY <1>7 DEF CallStateChanged
  <2>2. CASE c \in listed /\ Approve(c, {}, callState')
    BY <1>0, <2>1, <2>2, BooksApprove DEF Books, OfferedOnce
  <2>3. CASE ForgetEnded(c)
    <3>1. listed' \subseteq listed /\ notifs' \subseteq notifs /\ UNCHANGED owner
      BY <2>3 DEF ForgetEnded, CloseSnap
    <3> QED
      BY <1>0, <2>1, <3>1, BooksSettle
  <2>4. CASE UNCHANGED <<owner, ui, listed>>
    BY <1>0, <2>1, <2>4, BooksSettle DEF ui
  <2> QED
    BY <1>7, <2>2, <2>3, <2>4 DEF CallStateChanged
<1>8. ASSUME NEW n \in notifs, PressAccept(n) PROVE Books'
  BY <1>0, <1>8, BooksApprove DEF PressAccept, Books, OfferedOnce
<1>9. ASSUME NEW n \in notifs, PressReject(n) PROVE Books'
  BY <1>0, <1>9, BooksReject DEF PressReject, Books, OfferedOnce
<1>10. CASE AcceptCallRequested
  <2>1. ASSUME NEW o \in listed, Approve(o, {}, callState),
               UNCHANGED <<answered, claims, replies, watched, fetches>>
        PROVE  Books'
    BY <1>0, <2>1, BooksApprove DEF Books, OfferedOnce
  <2>2. CASE UNCHANGED <<env, replies, ui, books>>
    BY <1>0, <2>2, BooksSettle DEF env, ui, books
  <2> QED
    BY <1>10, <2>1, <2>2 DEF AcceptCallRequested
<1>11. CASE RejectCall
  BY <1>0, <1>11, BooksReject DEF RejectCall, Books, OfferedOnce
<1>12. CASE PowerKey \/ UpdateFails \/ HandleMediaKey \/ SettleTimeout
  <2>1. UNCHANGED <<answered, owner, claims, replies, listed, watched, fetches>> /\ notifs' \subseteq notifs
    BY <1>12 DEF PowerKey, UpdateFails, HandleMediaKey, SettleTimeout, CloseSnap, env, ui, books
  <2> QED
    BY <1>0, <2>1, BooksSettle
<1>13. CASE ProcessMediaKey
  <2>1. CASE UNCHANGED <<owner, answered, claims, replies, ui, books>>
    BY <1>0, <2>1, BooksSettle DEF ui, books
  <2> QED
    BY <1>10, <1>13, <2>1 DEF ProcessMediaKey
<1> QED
  BY <1>2, <1>3, <1>4, <1>5, <1>6, <1>7, <1>8, <1>9, <1>10, <1>11, <1>12, <1>13 DEF Next, AcceptCall

LEMMA BooksHold == Spec => []Books
<1>1. Init => Books
  BY DEF Init, Books, OfferedOnce, ClaimsCounted, CallsWatched, GreeterFetchesNone,
         HandedOverLeavesList, Offered
<1>2. TypeOK /\ Books /\ [Next]_vars => Books'
  BY BooksNext
<1> QED
  BY <1>1, <1>2, TypeCorrect, PTL DEF Spec

\* What was handed to the handler is never picked from mDispatchOps again, for
\* any operations and accounts (approver.cpp:225-263).
THEOREM HandedOverIsNotListed == Spec => []HandedOverLeavesList
<1>1. Books => HandedOverLeavesList
  BY DEF Books
<1> QED
  BY <1>1, BooksHold, PTL

-----------------------------------------------------------------------------
\* The buttons of a notification act on its call, or on an operation of the same
\* account that was offered: for any operations, however many share an account
\* (approver.cpp:138-148).
THEOREM ButtonsActOnTheirCall == Spec => []ButtonsMatch
<1> DEFINE Same(n) == Account[n.op] = Account[n.call]
           Inv == \A n \in notifs \cup fetches : Same(n)
<1>1. ASSUME NEW c \in Calls, NEW o \in SameAccount(c) PROVE Account[o] = Account[c]
  BY DEF SameAccount
<1>2. Init => Inv
  BY DEF Init
<1>3. TypeOK /\ Inv /\ [Next]_vars => Inv'
  <2> SUFFICES ASSUME TypeOK, Inv, [Next]_vars PROVE Inv'
    OBVIOUS
  <2>1. \A f \in fetches' : Same(f)
    BY FetchStep, <1>1
  <2>2. ASSUME notifs' \subseteq notifs PROVE Inv'
    BY <2>1, <2>2
  <2>3. ASSUME NEW c \in Calls, NEW o \in Ops, ShowSnap(c, o), Announces(c, o) PROVE Inv'
    <3>1. Account[o] = Account[c]
      BY <2>3, <1>1 DEF Announces
    <3>2. notifs' \subseteq notifs \cup {[call |-> c, op |-> o]}
      BY <2>3 DEF ShowSnap, ui
    <3> QED
      BY <2>1, <3>1, <3>2
  <2>4. ASSUME NEW pressed, CloseSnap(pressed) PROVE notifs' \subseteq notifs
    BY <2>4 DEF CloseSnap
  <2>5. UNCHANGED ui => notifs' \subseteq notifs
    BY DEF ui
  <2> HIDE DEF Inv
  <2> QED
    BY UiStep, <2>2, <2>3, <2>4, <2>5
<1>4. Inv /\ Books => ButtonsMatch
  BY DEF ButtonsMatch, Books, OfferedOnce, Offered
<1> QED
  BY <1>2, <1>3, <1>4, TypeCorrect, BooksHold, PTL DEF Spec

-----------------------------------------------------------------------------
(* With an account of its own for each operation, dispatchOperation() finds   *)
(* the operation it was asked for.                                            *)

LEMMA OwnOperation ==
  ASSUME DistinctAccounts, TypeOK, NEW c \in Ops, NEW o \in SameAccount(c)
  PROVE  o = c
BY DEF DistinctAccounts, SameAccount, TypeOK

LEMMA WaitingStep ==
  ASSUME DistinctAccounts, TypeOK, Books, ButtonsMatch, SnapOnScreen, SnapIsWaiting, [Next]_vars
  PROVE  SnapIsWaiting'
<1> USE DEF SnapIsWaiting
<1>1. CASE UNCHANGED vars
  BY <1>1 DEF vars, env, ui, books
<1> SUFFICES ASSUME Next, greeterMode', snap' # None, claims'[snap'.op] = 0
             PROVE  /\ snap'.call \in listed'
                    /\ callState'[snap'.call] \in {"initialised", "accepted"}
                    /\ owner'[snap'.call] = "dispatcher"
  BY <1>1
<1> DEFINE Goal == /\ snap'.call \in listed'
                   /\ callState'[snap'.call] \in {"initialised", "accepted"}
                   /\ owner'[snap'.call] = "dispatcher"
<1>a. greeterMode /\ fetches = {}
  BY DEF Next, Alive, Books, GreeterFetchesNone
<1>b. snap # None => /\ snap \in Prompt /\ snap.call \in Calls /\ snap.op = snap.call
                     /\ snap.call \in watched
  BY DEF TypeOK, Prompt, SnapOnScreen, ButtonsMatch, DistinctAccounts, Ops, Books, CallsWatched
<1>c. ASSUME NEW pressed, CloseSnap(pressed) PROVE FALSE
  BY <1>c DEF CloseSnap
<1>d. ASSUME UNCHANGED <<snap, claims, listed, callState, owner>> PROVE Goal
  BY <1>a, <1>d
<1>2. ASSUME NEW o \in Ops, AddDispatchOperation(o) PROVE Goal
  <2>1. UNCHANGED <<snap, claims, callState>>
    BY <1>2 DEF AddDispatchOperation, ui
  <2>2. snap.call \in listed /\ owner[snap.call] = "dispatcher" /\ snap.call \notin Handleable
        /\ snap.call \in Ops
    BY <1>a, <1>b, <2>1, ApproverAssumption DEF ApproverAssumption, Ops
  <2>3. snap.call \in listed' /\ owner'[snap.call] = "dispatcher"
    BY <1>2, <2>2 DEF AddDispatchOperation, HandleWith
  <2> QED
    BY <1>a, <2>1, <2>3
<1>3. ASSUME NEW r \in replies, ChannelReady(r) PROVE Goal
  <2> DEFINE c == r.op.chan
  <2>1. UNCHANGED <<claims, callState>> /\ c \in Calls /\ c \in Ops
    BY <1>3 DEF ChannelReady, TypeOK, Reply, PendingOp, Ops
  <2>2. CASE UNCHANGED <<owner, ui, listed>>
    BY <1>d, <2>1, <2>2 DEF ui
  <2>3. ASSUME NEW o \in SameAccount(c), RingFor(c, o, r.op), callState[c] = "initialised"
        PROVE  Goal
    <3>1. UNCHANGED <<owner, listed>> /\ ShowSnap(c, o)
      BY <1>a, <2>3 DEF RingFor
    <3>2. CASE snap' = snap
      BY <1>d, <2>1, <3>1, <3>2
    <3>3. CASE snap' = [call |-> c, op |-> o]
      <4>1. snap'.call = c /\ snap'.op = c /\ c \in listed
        BY <2>1, <2>3, <3>3, OwnOperation DEF SameAccount
      <4>2. owner[c] = "dispatcher"
        BY <2>1, <4>1 DEF Books, ClaimsCounted, HandedOverLeavesList, TypeOK
      <4> QED
        BY <2>1, <2>3, <3>1, <4>1, <4>2
    <3> QED
      BY <2>1, <2>3, <3>1, <3>2, <3>3, ShowStep DEF SameAccount, TypeOK
  <2>4. ASSUME NEW o, Approve(o, {}, callState) PROVE Goal
    BY <1>c, <2>4 DEF Approve
  <2> HIDE DEF Goal
  <2> QED
    BY <1>3, <2>2, <2>3, <2>4 DEF ChannelReady, Waits
<1>4. ASSUME NEW r \in replies, ClaimFinished(r) PROVE Goal
  BY <1>d, <1>4 DEF ClaimFinished, ui
<1>5. ASSUME NEW r \in replies, HangupFinished(r) PROVE Goal
  <2>1. UNCHANGED <<snap, claims, callState, owner>> /\ r.op.kind = "hangup"
    BY <1>5 DEF HangupFinished, env, ui
  <2>2. r.op.chan \in Ops /\ claims[r.op.chan] > 0
    BY <2>1 DEF Books, ClaimsCounted, TypeOK, Reply, PendingOp, Ops
  <2>3. snap.call # r.op.chan
    BY <1>b, <2>1, <2>2
  <2>4. \A o \in listed : IsFirst(o, SameAccount(r.op.chan)) => o = r.op.chan
    BY <2>2, OwnOperation DEF IsFirst
  <2>5. \/ listed' = listed
        \/ listed' = listed \ {o \in listed : IsFirst(o, SameAccount(r.op.chan))}
    BY <1>5 DEF HangupFinished
  <2> QED
    BY <1>a, <2>1, <2>3, <2>4, <2>5
<1>6. ASSUME NEW f \in fetches, ContactFetched(f) PROVE Goal
  BY <1>a
<1>7. ASSUME NEW c \in Calls, NEW s \in CallState, CallStateChanged(c, s) PROVE Goal
  <2>1. UNCHANGED claims /\ callState' = [callState EXCEPT ![c] = s]
    BY <1>7 DEF CallStateChanged
  <2>2. CASE ForgetEnded(c) \/ Approve(c, {}, callState')
    BY <1>c, <2>2 DEF ForgetEnded, Approve
  <2>3. CASE /\ s \in {"initialised", "accepted"} \/ c \notin watched \cap listed
             /\ UNCHANGED <<owner, ui, listed>>
    <3>1. /\ snap' = snap /\ snap.call \in listed \cap watched /\ snap.call \in Calls
          /\ callState[snap.call] \in {"initialised", "accepted"}
          /\ owner[snap.call] = "dispatcher"
      BY <1>a, <1>b, <2>1, <2>3 DEF ui
    <3>2. callState'[snap.call] \in {"initialised", "accepted"}
      BY <2>1, <2>3, <3>1 DEF TypeOK
    <3> QED
      BY <2>3, <3>1, <3>2
  <2> HIDE DEF Goal
  <2> QED
    BY <1>7, <2>2, <2>3 DEF CallStateChanged
<1>8. ASSUME NEW n \in notifs, PressAccept(n) \/ PressReject(n) PROVE Goal
  BY <1>c, <1>8 DEF PressAccept, PressReject, Approve, Reject
<1>9. CASE AcceptCallRequested
  BY <1>c, <1>d, <1>9 DEF AcceptCallRequested, Approve, env, ui, books
<1>10. CASE RejectCall
  BY <1>c, <1>10 DEF RejectCall, Reject
<1>11. CASE PowerKey \/ HandleMediaKey \/ SettleTimeout
  BY <1>d, <1>11 DEF PowerKey, HandleMediaKey, SettleTimeout, env, ui, books
<1>12. CASE UpdateFails
  BY <1>c, <1>12 DEF UpdateFails
<1>13. CASE ProcessMediaKey
  BY <1>9, <1>d, <1>13 DEF ProcessMediaKey, ui, books
<1> QED
  BY <1>2, <1>3, <1>4, <1>5, <1>6, <1>7, <1>8, <1>9, <1>10, <1>11, <1>12, <1>13 DEF Next, AcceptCall

\* In the greeter's session the call the user is asked about waits for him.
THEOREM PromptedCallWaits == Spec => []SnapIsWaiting
<1>1. Init => SnapIsWaiting
  BY DEF Init, SnapIsWaiting
<1>2. ASSUME TypeOK, Books, ButtonsMatch, SnapOnScreen, SnapIsWaiting, [Next]_vars
      PROVE  SnapIsWaiting'
  <2>1. DistinctAccounts => SnapIsWaiting'
    BY <1>2, WaitingStep
  <2> QED
    BY <2>1 DEF SnapIsWaiting, DistinctAccounts
<1> QED
  BY <1>1, <1>2, TypeCorrect, BooksHold, ButtonsActOnTheirCall, SnapStaysOnScreen, PTL DEF Spec

\* A call is becoming ready, with its entry in mChannels, or watched and not ended.
Tracked(c) ==
  \/ \E r \in replies : r.op.kind = "ready" /\ r.op.chan = c /\ r.op \in channels
  \/ c \in watched /\ callState[c] # "ended"

LEMMA TrackedStep ==
  ASSUME DistinctAccounts, TypeOK, Books, ListedIsTracked, [Next]_vars,
         NEW c \in Calls, c \in listed'
  PROVE  Tracked(c)'
<1> DEFINE readying == [kind |-> "ready", chan |-> c, n |-> 0]
<1>0. c \in Ops
  BY DEF Ops
<1>a. \A r \in replies : r.op.kind = "ready" /\ r.op.chan = c => r.op = readying
  BY DEF TypeOK, Reply, PendingOp
<1>b. c \in listed => \/ \E r \in replies : r.op = readying /\ readying \in channels
                      \/ c \in watched /\ callState[c] # "ended"
  BY <1>a DEF ListedIsTracked
<1>e. readying.kind = "ready" /\ readying.chan = c
  OBVIOUS
<1> HIDE DEF readying
<1>c. (\E r \in replies' : r.op = readying) /\ readying \in channels' => Tracked(c)'
  BY <1>e DEF Tracked
\* The entry stays, and so does the reply, or the call is watched.
<1>d. ASSUME listed' \subseteq listed, watched \subseteq watched', callState'[c] = callState[c],
             \A r \in replies : r.op = readying => r \in replies',
             readying \in channels => readying \in channels'
      PROVE  Tracked(c)'
  <2>1. c \in listed
    BY <1>d
  <2>2. CASE \E r \in replies : r.op = readying /\ readying \in channels
    BY <1>c, <1>d, <2>2
  <2>3. CASE c \in watched /\ callState[c] # "ended"
    BY <1>d, <2>3 DEF Tracked
  <2> QED
    BY <1>b, <2>1, <2>2, <2>3
<1>1. CASE UNCHANGED vars
  BY <1>1, <1>d DEF vars, env, books
<1>2. ASSUME NEW o \in Ops, AddDispatchOperation(o) PROVE Tracked(c)'
  <2>1. UNCHANGED <<callState, watched>>
    BY <1>2 DEF AddDispatchOperation
  <2>2. CASE UNCHANGED <<replies, listed, channels>>
    BY <1>d, <2>1, <2>2
  <2>3. CASE /\ listed' = (listed \cup {o}) \ Handleable
             /\ LET op == [kind |-> "ready", chan |-> o, n |-> 0] IN
                IF o \in Calls
                THEN /\ channels' = channels \cup {op}
                     /\ \E error \in BOOLEAN : replies' = replies \cup {[op |-> op, error |-> error]}
                ELSE UNCHANGED <<channels, replies>>
    <3>1. replies \subseteq replies' /\ channels \subseteq channels'
      BY <2>3
    <3>2. CASE c \in listed
      <4>1. CASE \E r \in replies : r.op = readying /\ readying \in channels
        BY <1>c, <3>1, <4>1
      <4>2. CASE c \in watched /\ callState[c] # "ended"
        BY <2>1, <4>2 DEF Tracked
      <4> QED
        BY <1>b, <3>2, <4>1, <4>2
    <3>3. CASE c \notin listed
      <4>1. o = c
        BY <2>3, <3>3
      <4>2. /\ readying \in channels'
            /\ \E error \in BOOLEAN : replies' = replies \cup {[op |-> readying, error |-> error]}
        BY <2>3, <4>1 DEF readying
      <4>3. \A error \in BOOLEAN : [op |-> readying, error |-> error].op = readying
        OBVIOUS
      <4> QED
        BY <1>c, <4>2, <4>3
    <3> QED
      BY <3>2, <3>3
  <2> QED
    BY <1>2, <2>2, <2>3 DEF AddDispatchOperation
<1>3. ASSUME NEW r \in replies, ChannelReady(r) PROVE Tracked(c)'
  <2> DEFINE d == r.op.chan
  <2>1. UNCHANGED callState /\ d \in Ops /\ replies' = replies \ {r} /\ r.op.kind = "ready"
    BY <1>3 DEF ChannelReady, TypeOK, Reply, PendingOp, Ops
  <2>2. d # c => \A q \in replies : q.op = readying => q \in replies'
    BY <1>e, <2>1
  <2>3. d = c => r.op = readying
    BY <1>a, <2>1
  <2>4. CASE r.op \notin channels /\ UNCHANGED <<listed, channels, watched>>
    <3>1. CASE d # c
      BY <1>d, <2>1, <2>2, <2>4, <3>1
    <3>2. CASE d = c
      BY <1>b, <2>1, <2>3, <2>4, <3>2 DEF Tracked
    <3> QED
      BY <3>1, <3>2
  <2>5. CASE SameAccount(d) = {} /\ UNCHANGED <<listed, channels, watched>>
    <3>1. d # c
      BY <2>5 DEF SameAccount
    <3> QED
      BY <1>d, <2>1, <2>2, <2>5, <3>1
  <2>6. ASSUME NEW o \in SameAccount(d), RingFor(d, o, r.op), callState[d] = "initialised"
        PROVE  Tracked(c)'
    <3>1. watched' = watched \cup {d} /\ channels' = channels \ {r.op} /\ listed' = listed
      BY <2>6 DEF RingFor
    <3>2. CASE d = c
      BY <2>1, <2>6, <3>1, <3>2 DEF Tracked
    <3>3. CASE d # c
      <4>1. readying # r.op
        BY <1>e, <3>3
      <4> QED
        BY <1>d, <2>1, <2>2, <3>1, <3>3, <4>1
    <3> QED
      BY <3>2, <3>3
  <2>7. ASSUME NEW o \in SameAccount(d), Approve(o, {}, callState),
               UNCHANGED <<channels, watched>>
        PROVE  Tracked(c)'
    <3>1. o = d /\ listed' = listed \ {o}
      BY <2>1, <2>7, OwnOperation DEF Approve
    <3>2. d # c
      BY <3>1
    <3> QED
      BY <1>d, <2>1, <2>2, <2>7, <3>1, <3>2
  <2> QED
    BY <1>3, <2>4, <2>5, <2>6, <2>7 DEF ChannelReady, Waits
<1>4. ASSUME NEW r \in replies, ClaimFinished(r) PROVE Tracked(c)'
  <2>1. r.op # readying /\ UNCHANGED <<listed, watched, callState>>
    BY <1>4, <1>e DEF ClaimFinished
  <2>2. replies \ {r} \subseteq replies' /\ channels \subseteq channels'
    BY <1>4 DEF ClaimFinished
  <2> QED
    BY <1>d, <2>1, <2>2
<1>5. ASSUME NEW r \in replies, HangupFinished(r) PROVE Tracked(c)'
  <2>1. r.op # readying /\ UNCHANGED <<watched, callState>> /\ listed' \subseteq listed
    BY <1>5, <1>e DEF HangupFinished, env
  <2>2. replies' = replies \ {r} /\ channels \ {r.op} \subseteq channels'
    BY <1>5 DEF HangupFinished
  <2> QED
    BY <1>d, <2>1, <2>2
<1>6. ASSUME NEW f \in fetches, ContactFetched(f) PROVE Tracked(c)'
  BY <1>6, <1>d DEF ContactFetched, env
<1>7. ASSUME NEW d \in Calls, NEW s \in CallState, CallStateChanged(d, s) PROVE Tracked(c)'
  <2>1. /\ UNCHANGED <<replies, watched>>
        /\ callState' = [callState EXCEPT ![d] = s] /\ callState \in [Calls -> CallState]
    BY <1>7 DEF CallStateChanged, TypeOK
  <2>2. CASE ForgetEnded(d)
    <3>1. listed' = listed \ {d} /\ \A p \in channels \ channels' : p.chan = d
      BY <2>2 DEF ForgetEnded
    <3>2. d # c
      BY <3>1
    <3> QED
      BY <1>d, <1>e, <2>1, <3>1, <3>2
  <2>3. CASE Approve(d, {}, callState') /\ UNCHANGED channels
    <3>1. listed' = listed \ {d}
      BY <2>3 DEF Approve
    <3>2. d # c
      BY <3>1
    <3> QED
      BY <1>d, <2>1, <2>3, <3>1, <3>2
  <2>4. CASE /\ s # "ended" \/ d \notin watched \cap listed
             /\ UNCHANGED <<listed, channels>>
    <3>1. CASE d # c
      BY <1>d, <2>1, <2>4, <3>1
    <3>2. CASE d = c /\ s # "ended"
      BY <1>b, <1>c, <2>1, <2>4, <3>2 DEF Tracked
    <3>3. CASE d = c /\ c \notin watched
      BY <1>b, <1>c, <2>1, <2>4, <3>3
    <3> QED
      BY <2>4, <3>1, <3>2, <3>3
  <2> QED
    BY <1>7, <2>2, <2>3, <2>4 DEF CallStateChanged
<1>8. ASSUME UNCHANGED <<replies, channels, watched, callState>>, listed' \subseteq listed PROVE Tracked(c)'
  BY <1>8, <1>d
<1>9. ASSUME NEW n \in notifs, PressAccept(n) PROVE Tracked(c)'
  BY <1>8, <1>9 DEF PressAccept, Approve
<1>10. ASSUME NEW n \in notifs, PressReject(n) PROVE Tracked(c)'
  BY <1>d, <1>10 DEF PressReject, Reject
<1>11. CASE AcceptCallRequested
  BY <1>8, <1>11 DEF AcceptCallRequested, Approve, env, books
<1>12. CASE RejectCall
  BY <1>d, <1>12 DEF RejectCall, Reject
<1>13. CASE PowerKey \/ UpdateFails \/ HandleMediaKey \/ SettleTimeout
  BY <1>8, <1>13 DEF PowerKey, UpdateFails, HandleMediaKey, SettleTimeout, env, books
<1>14. CASE ProcessMediaKey
  BY <1>8, <1>11, <1>14 DEF ProcessMediaKey, books
<1> QED
  BY <1>1, <1>2, <1>3, <1>4, <1>5, <1>6, <1>7, <1>9, <1>10, <1>11, <1>12, <1>13, <1>14
     DEF Next, AcceptCall

\* Every call in mDispatchOps is becoming readying or watched and not ended.
THEOREM ListedCallsAreTracked == Spec => []ListedIsTracked
<1>1. Init => ListedIsTracked
  BY DEF Init, ListedIsTracked
<1>2. TypeOK /\ Books /\ ListedIsTracked /\ [Next]_vars => ListedIsTracked'
  <2> SUFFICES ASSUME TypeOK, Books, ListedIsTracked, [Next]_vars PROVE ListedIsTracked'
    OBVIOUS
  <2>1. DistinctAccounts => ListedIsTracked'
    BY TrackedStep DEF ListedIsTracked, Tracked
  <2> QED
    BY <2>1 DEF ListedIsTracked, DistinctAccounts
<1> QED
  BY <1>1, <1>2, TypeCorrect, BooksHold, PTL DEF Spec

-----------------------------------------------------------------------------
\* The state and the initiator of a call are known before it is watched.
WatchedAreReady == watched \subseteq ready

LEMMA WatchedReadily == Spec => []WatchedAreReady
<1>1. Init => WatchedAreReady
  BY DEF Init, WatchedAreReady
<1>2. ASSUME WatchedAreReady, [Next]_vars PROVE WatchedAreReady'
  <2>1. ASSUME NEW r \in replies, ChannelReady(r) PROVE WatchedAreReady'
    BY <1>2, <2>1 DEF ChannelReady, RingFor, Waits, WatchedAreReady
  <2>2. CASE UNCHANGED <<ready, watched>>
    BY <1>2, <2>2 DEF WatchedAreReady
  <2> QED
    BY <1>2, <2>1, <2>2
       DEF Next, Alive, vars, books, AddDispatchOperation, ClaimFinished, HangupFinished,
           ContactFetched, CallStateChanged, PressAccept, PressReject, AcceptCall,
           AcceptCallRequested, RejectCall, PowerKey, UpdateFails, HandleMediaKey,
           SettleTimeout, ProcessMediaKey
<1> QED
  BY <1>1, <1>2, PTL DEF Spec

\* accept() is called of a call that is not answered only while a prompt is on the
\* screen, or for a channel of the account that does not wait for an answer.
Excused(c) == \E r \in replies \ replies' :
                 r.op.kind = "ready" /\ ~Waits(r) /\ Account[r.op.chan] = Account[c]

LEMMA AcceptStep ==
  ASSUME TypeOK, WatchedAreReady, SnapOnScreen, [Next]_vars, NEW c \in accepted' \ accepted,
         callState[c] \in {"initialising", "initialised"}
  PROVE  notifs # {} \/ Excused(c)
<1>1. ASSUME NEW o \in Ops, NEW pressed, NEW states, Approve(o, pressed, states)
      PROVE  o = c /\ c \in Calls \ Outgoing /\ (c \in ready => states[c] # "active")
  BY <1>1 DEF Approve, Accept
<1>2. ASSUME UNCHANGED accepted PROVE FALSE
  BY <1>2
<1>3. ASSUME NEW r \in replies, ChannelReady(r) PROVE Excused(c)
  <2>1. r.op.kind = "ready" /\ r \notin replies'
    BY <1>3 DEF ChannelReady
  <2>2. PICK o \in SameAccount(r.op.chan) : Approve(o, {}, callState) /\ ~Waits(r)
    BY <1>2, <1>3 DEF ChannelReady, RingFor
  <2>3. o \in Ops /\ Account[o] = Account[r.op.chan]
    BY <2>2 DEF SameAccount, TypeOK
  <2>4. o = c
    BY <1>1, <2>2, <2>3
  <2> QED
    BY <2>1, <2>2, <2>3, <2>4 DEF Excused
<1>4. ASSUME NEW d \in Calls, NEW s \in CallState, CallStateChanged(d, s) PROVE FALSE
  <2>1. Approve(d, {}, callState') /\ s = "active" /\ d \in watched
    BY <1>2, <1>4 DEF CallStateChanged, ForgetEnded
  <2>2. callState'[d] = "active" /\ d \in ready
    BY <1>4, <2>1 DEF CallStateChanged, TypeOK, WatchedAreReady
  <2> QED
    BY <1>1, <2>1, <2>2 DEF Ops
<1>5. AcceptCallRequested => notifs # {}
  BY <1>2 DEF AcceptCallRequested, SnapOnScreen, env
<1>6. ProcessMediaKey => notifs # {}
  BY <1>2, <1>5 DEF ProcessMediaKey
<1>7. \A n \in notifs : notifs # {}
  OBVIOUS
<1> QED
  BY <1>2, <1>3, <1>4, <1>5, <1>6, <1>7
     DEF Next, Alive, vars, env, AddDispatchOperation, ClaimFinished, HangupFinished,
         ContactFetched, PressReject, AcceptCall, RejectCall, PowerKey, UpdateFails,
         HandleMediaKey, SettleTimeout

\* The phone answers by itself only for the account of a channel that turned out
\* not to wait for an answer, for any operations and accounts. (That this may be
\* another call than the one that waits is the run approver_carkit.)
THEOREM NoAnswerWithoutPrompt == Spec => AcceptNeedsPrompt
<1>1. TypeOK /\ WatchedAreReady /\ SnapOnScreen /\ [Next]_vars =>
        [\A c \in accepted' \ accepted :
           callState[c] \in {"initialising", "initialised"} =>
             \/ notifs # {}
             \/ \E r \in replies \ replies' :
                   r.op.kind = "ready" /\ ~Waits(r) /\ Account[r.op.chan] = Account[c]]_vars
  BY AcceptStep DEF Excused
<1> QED
  BY <1>1, TypeCorrect, WatchedReadily, SnapStaysOnScreen, PTL DEF Spec, AcceptNeedsPrompt

-----------------------------------------------------------------------------
(* Theorems about Dialogs, for any number of cards, accounts and dialogs. *)

DialogRecord == [kind : {"request", "notification", "login"}, of : Cards \cup Logins, open : BOOLEAN]
Answer == [id : Ids, key : Keys \cup {"closed"}]

\* The daemon is asked to close dialogs it knows, and what it has told that the
\* indicator has not heard is of dialogs that are closed.
ClosingKnown == closing \subseteq DOMAIN dialog
AnswersEnded ==
  \A i \in DOMAIN answers : answers[i].id \in DOMAIN dialog /\ ~dialog[answers[i].id].open

DialogsInv == DialogsTypeOK /\ ClosingKnown /\ AnswersEnded /\ DialogsWork
-----------------------------------------------------------------------------
(* The daemon *)

LEMMA DialogIds ==
  ASSUME DialogsTypeOK
  PROVE  /\ DOMAIN dialog = 1..Len(dialog) /\ Len(dialog) \in Nat /\ MaxDialogs \in Nat
         /\ DOMAIN dialog \subseteq Ids
         /\ \A id \in DOMAIN dialog : dialog[id] \in DialogRecord
<1>1. dialog \in Seq(DialogRecord) /\ Len(dialog) <= MaxDialogs /\ MaxDialogs \in Nat
  BY DialogsAssumption DEF DialogsTypeOK, DialogRecord
<1> HIDE DEF DialogRecord
<1> QED
  BY <1>1 DEF Ids

LEMMA SetToSeqType ==
  ASSUME NEW S, IsFiniteSet(S)
  PROVE  SetToSeq(S) \in Seq(S)
<1> DEFINE n == Cardinality(S)
<1>1. n \in Nat /\ \E b : b \in Bijection(1..n, S)
  BY FS_CardinalityType DEF ExistsBijection
<1>2. PICK b : b \in Bijection(1..n, S)
  BY <1>1
<1>3. b \in [1..n -> S] /\ IsInjective(b)
  BY <1>2 DEF Bijection, Injection, IsInjective
<1> HIDE DEF n
<1>4. SetToSeq(S) \in [1..n -> S]
  BY <1>3 DEF SetToSeq, n
<1> QED
  BY <1>1, <1>4

LEMMA ShutFacts ==
  ASSUME DialogsTypeOK, NEW C
  PROVE  /\ Shut(C) \in Seq(DialogRecord) /\ Len(Shut(C)) = Len(dialog)
         /\ DOMAIN Shut(C) = DOMAIN dialog
         /\ \A id \in DOMAIN dialog :
              /\ Shut(C)[id].kind = dialog[id].kind /\ Shut(C)[id].of = dialog[id].of
              /\ Shut(C)[id].open = (dialog[id].open /\ id \notin C)
<1> DEFINE shut(id) == [dialog[id] EXCEPT !.open = @ /\ id \notin C]
<1>1. \A id \in DOMAIN dialog :
         /\ shut(id) \in DialogRecord
         /\ shut(id).kind = dialog[id].kind /\ shut(id).of = dialog[id].of
         /\ shut(id).open = (dialog[id].open /\ id \notin C)
  BY DialogIds DEF DialogRecord
<1>2. Shut(C) = [id \in DOMAIN dialog |-> shut(id)]
  BY DEF Shut
<1> HIDE DEF shut, DialogRecord
<1>3. Shut(C) \in [1..Len(dialog) -> DialogRecord]
  BY <1>1, <1>2, DialogIds
<1>4. Shut(C) \in Seq(DialogRecord) /\ Len(Shut(C)) = Len(dialog)
  BY <1>3, DialogIds
<1> QED
  BY <1>1, <1>2, <1>4

LEMMA ToldFacts ==
  ASSUME DialogsTypeOK, AnswersEnded, NEW C \in SUBSET DOMAIN dialog
  PROVE  /\ Told(C) \in Seq(Answer)
         /\ \A i \in DOMAIN Told(C) : /\ Told(C)[i].id \in DOMAIN dialog
                                      /\ dialog[Told(C)[i].id].open => Told(C)[i].id \in C
<1> DEFINE closed(i) == [id |-> i, key |-> "closed"]
           Open == {c \in C : dialog[c].open}
           S == {closed(i) : i \in Open}
<1>1. IsFiniteSet(Open)
  <2>1. IsFiniteSet(1..Len(dialog)) /\ Open \subseteq 1..Len(dialog)
    BY DialogIds, FS_Interval
  <2> QED
    BY <2>1, FS_Subset
<1>2. IsFiniteSet(S)
  <2> DEFINE F == [i \in Open |-> closed(i)]
  <2>1. F \in Surjection(Open, S)
    BY DEF Surjection
  <2> QED
    BY <1>1, <2>1, FS_Surjection
<1>3. SetToSeq(S) \in Seq(S)
  BY <1>2, SetToSeqType
<1>4. \A a \in S : a \in Answer /\ a.id \in C
  BY DialogIds DEF Answer
<1>5. answers \in Seq(Answer)
  BY DEF DialogsTypeOK, Answer
<1> DEFINE new == SetToSeq(S)
<1>6. Told(C) = answers \o new
  BY DEF Told
<1> HIDE DEF S, new, Answer
<1>7. new \in Seq(Answer) /\ \A i \in 1..Len(new) : new[i] \in S
  BY <1>3, <1>4 DEF new
<1>8. Told(C) \in Seq(Answer)
  BY <1>5, <1>6, <1>7
<1>9. \A i \in 1..(Len(answers) + Len(new)) :
        Told(C)[i] = IF i <= Len(answers) THEN answers[i] ELSE new[i - Len(answers)]
  BY <1>5, <1>6, <1>7, ConcatProperties
<1>10. DOMAIN Told(C) = 1..(Len(answers) + Len(new))
  BY <1>5, <1>6, <1>7, <1>8, ConcatProperties
<1>11. ASSUME NEW i \in DOMAIN Told(C)
       PROVE  /\ Told(C)[i].id \in DOMAIN dialog
              /\ dialog[Told(C)[i].id].open => Told(C)[i].id \in C
  <2>0. Len(answers) \in Nat /\ Len(new) \in Nat /\ DOMAIN answers = 1..Len(answers)
    BY <1>5, <1>7
  <2>1. CASE i <= Len(answers)
    <3>1. i \in DOMAIN answers /\ Told(C)[i] = answers[i]
      BY <1>9, <1>10, <2>0, <2>1
    <3> QED
      BY <3>1 DEF AnswersEnded
  <2>2. CASE ~(i <= Len(answers))
    <3>1. i - Len(answers) \in 1..Len(new) /\ Told(C)[i] = new[i - Len(answers)]
      BY <1>9, <1>10, <2>0, <2>2
    <3> QED
      BY <1>4, <1>7, <3>1
  <2> QED
    BY <2>1, <2>2
<1> QED
  BY <1>8, <1>11
-----------------------------------------------------------------------------
(* The lists of requests, by dialog *)

LEMMA PutFacts ==
  ASSUME NEW f, NEW id, NEW x, NEW D, NEW S, DOMAIN f \subseteq D, Range(f) \subseteq S,
         id \in D, x \in S
  PROVE  /\ DOMAIN Put(f, id, x) = DOMAIN f \cup {id} /\ DOMAIN Put(f, id, x) \subseteq D
         /\ Put(f, id, x)[id] = x /\ \A i \in DOMAIN f : i # id => Put(f, id, x)[i] = f[i]
         /\ Range(Put(f, id, x)) \subseteq S
BY DEF Put, Range

LEMMA WithoutFacts ==
  ASSUME NEW f, NEW id
  PROVE  /\ DOMAIN Without(f, id) = DOMAIN f \ {id}
         /\ \A i \in DOMAIN f : i # id => Without(f, id)[i] = f[i]
         /\ Range(Without(f, id)) \subseteq Range(f)
BY DEF Without, Restrict, Range
-----------------------------------------------------------------------------
(* One lemma per kind of step *)

\* The indicator opens a dialog. Those it had asked to close are closed by then.
LEMMA NotifyStep ==
  ASSUME DialogsInv, NEW kind \in {"request", "notification", "login"},
         NEW a \in Cards \cup Logins, NEW served \in BOOLEAN, Notify(kind, a, served)
  PROVE  /\ dialog' \in Seq(DialogRecord) /\ Len(dialog') = Len(dialog) + 1
         /\ Len(dialog') <= MaxDialogs /\ closing' = {} /\ answers' \in Seq(Answer)
         /\ DOMAIN dialog' = DOMAIN dialog \cup {Len(dialog) + 1}
         /\ Len(dialog) + 1 \notin DOMAIN dialog
         /\ dialog'[Len(dialog) + 1] = [kind |-> kind, of |-> a, open |-> served]
         /\ \A id \in DOMAIN dialog :
              /\ dialog'[id].kind = dialog[id].kind /\ dialog'[id].of = dialog[id].of
              /\ dialog'[id].open = (dialog[id].open /\ id \notin closing)
         /\ AnswersEnded' /\ ClosingKnown'
<1> DEFINE new == [kind |-> kind, of |-> a, open |-> served]
           shut == Shut(closing)
           n == Len(dialog)
<1>1. /\ dialog' = Append(shut, new) /\ answers' = Told(closing) /\ closing' = {}
      /\ n < MaxDialogs
  BY DEF Notify
<1>2. /\ DialogsTypeOK /\ AnswersEnded /\ closing \in SUBSET DOMAIN dialog
      /\ new \in DialogRecord
  BY DEF DialogsInv, ClosingKnown, DialogRecord
<1>3. /\ shut \in Seq(DialogRecord) /\ Len(shut) = n /\ DOMAIN shut = DOMAIN dialog
      /\ \A id \in DOMAIN dialog :
           /\ shut[id].kind = dialog[id].kind /\ shut[id].of = dialog[id].of
           /\ shut[id].open = (dialog[id].open /\ id \notin closing)
  BY <1>2, ShutFacts
<1>4. DOMAIN dialog = 1..n /\ n \in Nat /\ MaxDialogs \in Nat
  BY <1>2, DialogIds
<1>5. /\ answers' \in Seq(Answer)
      /\ \A i \in DOMAIN answers' : /\ answers'[i].id \in DOMAIN dialog
                                    /\ dialog[answers'[i].id].open => answers'[i].id \in closing
  BY <1>1, <1>2, ToldFacts
<1> HIDE DEF new, shut, n, DialogRecord, Answer
<1>6. /\ dialog' \in Seq(DialogRecord) /\ Len(dialog') = n + 1
      /\ \A id \in 1..n : dialog'[id] = shut[id]
      /\ dialog'[n + 1] = new
  BY <1>1, <1>2, <1>3, AppendProperties
<1>7. DOMAIN dialog' = DOMAIN dialog \cup {n + 1} /\ n + 1 \notin DOMAIN dialog
  BY <1>4, <1>6
<1>8. \A id \in DOMAIN dialog :
              /\ dialog'[id].kind = dialog[id].kind /\ dialog'[id].of = dialog[id].of
              /\ dialog'[id].open = (dialog[id].open /\ id \notin closing)
  BY <1>3, <1>4, <1>6
<1>9. AnswersEnded'
  BY <1>5, <1>7, <1>8 DEF AnswersEnded
<1>10. ClosingKnown'
  BY <1>1 DEF ClosingKnown
<1> QED
  BY <1>1, <1>4, <1>5, <1>6, <1>7, <1>8, <1>9, <1>10 DEF n, new

\* A step after which the same dialogs are known and no more of them are open or
\* left alone, and which keeps what the indicator knows of those.
LEMMA KeepStep ==
  ASSUME DialogsInv, DialogsTypeOK', ClosingKnown', AnswersEnded',
         DOMAIN dialog' = DOMAIN dialog,
         \A id \in DOMAIN dialog :
           /\ dialog'[id].kind = dialog[id].kind /\ dialog'[id].of = dialog[id].of
           /\ dialog'[id].open /\ id \notin closing' =>
                /\ dialog[id].open /\ id \notin closing
                /\ dialog[id].kind = "login" /\ id \in DOMAIN mAuthFailureRequests =>
                     /\ id \in DOMAIN mAuthFailureRequests'
                     /\ mAuthFailureRequests'[id] = mAuthFailureRequests[id]
                /\ dialog[id].kind # "login" /\ id = m_notificationId /\ id \in DOMAIN mUSSDRequests =>
                     /\ m_notificationId' = id /\ id \in DOMAIN mUSSDRequests'
                     /\ mUSSDRequests'[id] = mUSSDRequests[id]
  PROVE  DialogsInv'
<1>1. \A id \in DOMAIN dialog : Newest(id)' => Newest(id)
  BY DEF Newest
<1> QED
  BY <1>1 DEF DialogsInv, DialogsWork

LEMMA ShowUSSDStep ==
  ASSUME DialogsInv, NEW s \in Cards, NEW signal \in Opening, NEW served \in BOOLEAN,
         showUSSDNotification(s, signal, served)
  PROVE  DialogsInv'
<1> DEFINE kind == IF replyRequired(s, signal) THEN "request" ELSE "notification"
           n == Len(dialog)
<1>1. /\ Notify(kind, s, served) /\ m_notificationId' = NotifyId(served)
      /\ mUSSDRequests' = Put(mUSSDRequests, NotifyId(served), s)
      /\ UNCHANGED <<mState, m_response, auth>>
  BY DEF showUSSDNotification
<1>2. kind \in {"request", "notification", "login"} /\ kind # "login" /\ s \in Cards \cup Logins
  OBVIOUS
<1> HIDE DEF kind
<1>3. /\ dialog' \in Seq(DialogRecord) /\ Len(dialog') = n + 1
      /\ Len(dialog') <= MaxDialogs /\ closing' = {} /\ answers' \in Seq(Answer)
      /\ DOMAIN dialog' = DOMAIN dialog \cup {n + 1} /\ n + 1 \notin DOMAIN dialog
      /\ dialog'[n + 1] = [kind |-> kind, of |-> s, open |-> served]
      /\ \A id \in DOMAIN dialog :
              /\ dialog'[id].kind = dialog[id].kind /\ dialog'[id].of = dialog[id].of
              /\ dialog'[id].open = (dialog[id].open /\ id \notin closing)
      /\ AnswersEnded' /\ ClosingKnown'
  BY <1>1, <1>2, NotifyStep
<1>4. DialogsTypeOK /\ n \in Nat /\ MaxDialogs \in Nat /\ DOMAIN dialog = 1..n
  BY DialogIds DEF DialogsInv
<1>5. NotifyId(served) = IF served THEN n + 1 ELSE 0
  BY DEF NotifyId
<1>6. NotifyId(served) \in Ids \cup {0}
  BY <1>3, <1>4, <1>5 DEF Ids
<1>7. /\ DOMAIN mUSSDRequests' \subseteq Ids \cup {0} /\ Range(mUSSDRequests') \subseteq Cards
      /\ NotifyId(served) \in DOMAIN mUSSDRequests'
      /\ mUSSDRequests'[NotifyId(served)] = s
  <2> DEFINE D == Ids \cup {0}
             k == NotifyId(served)
  <2>1. DOMAIN mUSSDRequests \subseteq D /\ Range(mUSSDRequests) \subseteq Cards /\ k \in D
    BY <1>4, <1>6 DEF DialogsTypeOK
  <2> HIDE DEF D, k
  <2>2. /\ DOMAIN Put(mUSSDRequests, k, s) \subseteq D /\ Range(Put(mUSSDRequests, k, s)) \subseteq Cards
        /\ DOMAIN Put(mUSSDRequests, k, s) = DOMAIN mUSSDRequests \cup {k} /\ Put(mUSSDRequests, k, s)[k] = s
        /\ \A i \in DOMAIN mUSSDRequests : i # k => Put(mUSSDRequests, k, s)[i] = mUSSDRequests[i]
    BY <2>1, PutFacts
  <2>3. mUSSDRequests' = Put(mUSSDRequests, k, s)
    BY <1>1 DEF k
  <2>4. /\ DOMAIN mUSSDRequests' \subseteq D /\ Range(mUSSDRequests') \subseteq Cards
        /\ DOMAIN mUSSDRequests' = DOMAIN mUSSDRequests \cup {k} /\ mUSSDRequests'[k] = s
        /\ \A i \in DOMAIN mUSSDRequests : i # k => mUSSDRequests'[i] = mUSSDRequests[i]
    BY <2>2, <2>3
  <2> QED
    BY <2>4 DEF k, D
<1>8. DialogsTypeOK'
  BY <1>1, <1>3, <1>4, <1>6, <1>7 DEF DialogsTypeOK, DialogRecord, Answer, auth
<1>9. ASSUME NEW id \in DOMAIN dialog', dialog'[id].open, dialog'[id].kind = "login"
      PROVE  id \in DOMAIN mAuthFailureRequests' /\ mAuthFailureRequests'[id] = dialog'[id].of
  <2>0. id # n + 1
    BY <1>2, <1>3, <1>9
  <2>1. id \in DOMAIN dialog /\ dialog[id].open /\ id \notin closing /\ dialog[id].kind = "login"
    BY <1>3, <1>9, <2>0
  <2>2. id \in DOMAIN mAuthFailureRequests /\ mAuthFailureRequests[id] = dialog[id].of
    BY <2>1 DEF DialogsInv, DialogsWork
  <2> QED
    BY <1>1, <1>3, <2>1, <2>2 DEF auth
<1>10. ASSUME NEW id \in DOMAIN dialog', dialog'[id].open, Newest(id)'
       PROVE  /\ m_notificationId' = id
              /\ id \in DOMAIN mUSSDRequests' /\ mUSSDRequests'[id] = dialog'[id].of
  <2>1. id = n + 1
    <3> SUFFICES ASSUME id # n + 1 PROVE FALSE
      OBVIOUS
    <3>1. n + 1 > id
      BY <1>3, <1>4
    <3>2. dialog'[n + 1].kind = "login"
      BY <1>3, <1>10, <3>1 DEF Newest
    <3> QED
      BY <1>2, <1>3, <3>2
  <2>2. served
    BY <1>3, <1>10, <2>1
  <2> QED
    BY <1>1, <1>3, <1>5, <1>7, <2>1, <2>2
<1>11. DialogsWork'
  BY <1>9, <1>10 DEF DialogsWork
<1> QED
  BY <1>3, <1>8, <1>11 DEF DialogsInv

LEMMA AuthFailedStep ==
  ASSUME DialogsInv, NEW a \in Logins, AuthenticationFailed(a)
  PROVE  DialogsInv'
<1> DEFINE n == Len(dialog)
<1>1. PICK served \in BOOLEAN :
        /\ Notify("login", a, served)
        /\ mAuthFailureRequests' = Put(mAuthFailureRequests, NotifyId(served), a)
  BY DEF AuthenticationFailed
<1>2. UNCHANGED <<mState, ussd, mIgnoredAccounts>> /\ a \in Cards \cup Logins
  BY DEF AuthenticationFailed
<1>3. /\ dialog' \in Seq(DialogRecord) /\ Len(dialog') = n + 1
      /\ Len(dialog') <= MaxDialogs /\ closing' = {} /\ answers' \in Seq(Answer)
      /\ DOMAIN dialog' = DOMAIN dialog \cup {n + 1} /\ n + 1 \notin DOMAIN dialog
      /\ dialog'[n + 1] = [kind |-> "login", of |-> a, open |-> served]
      /\ \A id \in DOMAIN dialog :
              /\ dialog'[id].kind = dialog[id].kind /\ dialog'[id].of = dialog[id].of
              /\ dialog'[id].open = (dialog[id].open /\ id \notin closing)
      /\ AnswersEnded' /\ ClosingKnown'
  BY <1>1, <1>2, NotifyStep
<1>4. DialogsTypeOK /\ n \in Nat /\ MaxDialogs \in Nat /\ DOMAIN dialog = 1..n
  BY DialogIds DEF DialogsInv
<1>5. NotifyId(served) = IF served THEN n + 1 ELSE 0
  BY DEF NotifyId
<1>6. NotifyId(served) \in Ids \cup {0}
  BY <1>3, <1>4, <1>5 DEF Ids
<1>7. /\ DOMAIN mAuthFailureRequests' \subseteq Ids \cup {0} /\ Range(mAuthFailureRequests') \subseteq Logins
      /\ NotifyId(served) \in DOMAIN mAuthFailureRequests'
      /\ mAuthFailureRequests'[NotifyId(served)] = a
      /\ \A i \in DOMAIN mAuthFailureRequests : i # NotifyId(served) =>
            /\ i \in DOMAIN mAuthFailureRequests'
            /\ mAuthFailureRequests'[i] = mAuthFailureRequests[i]
  <2> DEFINE D == Ids \cup {0}
             k == NotifyId(served)
  <2>1. DOMAIN mAuthFailureRequests \subseteq D /\ Range(mAuthFailureRequests) \subseteq Logins /\ k \in D
    BY <1>4, <1>6 DEF DialogsTypeOK
  <2> HIDE DEF D, k
  <2>2. /\ DOMAIN Put(mAuthFailureRequests, k, a) \subseteq D /\ Range(Put(mAuthFailureRequests, k, a)) \subseteq Logins
        /\ DOMAIN Put(mAuthFailureRequests, k, a) = DOMAIN mAuthFailureRequests \cup {k} /\ Put(mAuthFailureRequests, k, a)[k] = a
        /\ \A i \in DOMAIN mAuthFailureRequests : i # k => Put(mAuthFailureRequests, k, a)[i] = mAuthFailureRequests[i]
    BY <2>1, PutFacts
  <2>3. mAuthFailureRequests' = Put(mAuthFailureRequests, k, a)
    BY <1>1 DEF k
  <2>4. /\ DOMAIN mAuthFailureRequests' \subseteq D /\ Range(mAuthFailureRequests') \subseteq Logins
        /\ DOMAIN mAuthFailureRequests' = DOMAIN mAuthFailureRequests \cup {k} /\ mAuthFailureRequests'[k] = a
        /\ \A i \in DOMAIN mAuthFailureRequests : i # k => mAuthFailureRequests'[i] = mAuthFailureRequests[i]
    BY <2>2, <2>3
  <2> QED
    BY <2>4 DEF k, D
<1>8. DialogsTypeOK'
  BY <1>2, <1>3, <1>4, <1>6, <1>7 DEF DialogsTypeOK, DialogRecord, Answer, ussd
<1>9. ASSUME NEW id \in DOMAIN dialog', dialog'[id].open, dialog'[id].kind = "login"
      PROVE  id \in DOMAIN mAuthFailureRequests' /\ mAuthFailureRequests'[id] = dialog'[id].of
  <2>1. CASE id = n + 1
    BY <1>3, <1>5, <1>7, <1>9, <2>1
  <2>2. CASE id # n + 1
    <3>1. id \in DOMAIN dialog /\ dialog[id].open /\ id \notin closing /\ dialog[id].kind = "login"
      BY <1>3, <1>9, <2>2
    <3>2. id \in DOMAIN mAuthFailureRequests /\ mAuthFailureRequests[id] = dialog[id].of
      BY <3>1 DEF DialogsInv, DialogsWork
    <3>3. id # NotifyId(served)
      BY <1>4, <1>5, <2>2, <3>1
    <3> QED
      BY <1>3, <1>7, <3>1, <3>2, <3>3
  <2> QED
    BY <2>1, <2>2
<1>10. ASSUME NEW id \in DOMAIN dialog', dialog'[id].open, dialog'[id].kind # "login", Newest(id)'
       PROVE  /\ m_notificationId' = id
              /\ id \in DOMAIN mUSSDRequests' /\ mUSSDRequests'[id] = dialog'[id].of
  <2>0. id # n + 1
    BY <1>3, <1>10
  <2>1. id \in DOMAIN dialog /\ dialog[id].open /\ id \notin closing /\ dialog[id].kind # "login"
    BY <1>3, <1>10, <2>0
  <2>2. Newest(id)
    BY <1>3, <1>10 DEF Newest
  <2>3. m_notificationId = id /\ id \in DOMAIN mUSSDRequests /\ mUSSDRequests[id] = dialog[id].of
    BY <2>1, <2>2 DEF DialogsInv, DialogsWork
  <2> QED
    BY <1>2, <1>3, <2>1, <2>3 DEF ussd
<1>11. DialogsWork'
  BY <1>9, <1>10 DEF DialogsWork
<1> QED
  BY <1>3, <1>8, <1>11 DEF DialogsInv

\* The daemon closes a dialog, asked to by the indicator or by the user.
LEMMA CloseStep ==
  ASSUME DialogsInv, NEW id \in Ids, CloseNotification(id)
  PROVE  DialogsInv'
<1>1. /\ id \in closing /\ closing' = closing \ {id} /\ dialog' = Shut({id}) /\ answers' = Told({id})
      /\ UNCHANGED <<mState, ussd, auth>>
  BY DEF CloseNotification
<1>2. DialogsTypeOK /\ AnswersEnded /\ closing \subseteq DOMAIN dialog /\ {id} \in SUBSET DOMAIN dialog
  BY <1>1 DEF DialogsInv, ClosingKnown
<1>3. /\ dialog' \in Seq(DialogRecord) /\ Len(dialog') = Len(dialog)
      /\ DOMAIN dialog' = DOMAIN dialog
      /\ \A i \in DOMAIN dialog :
           /\ dialog'[i].kind = dialog[i].kind /\ dialog'[i].of = dialog[i].of
           /\ dialog'[i].open = (dialog[i].open /\ i \notin {id})
  BY <1>1, <1>2, ShutFacts
<1>4. /\ answers' \in Seq(Answer)
      /\ \A i \in DOMAIN answers' : /\ answers'[i].id \in DOMAIN dialog
                                    /\ dialog[answers'[i].id].open => answers'[i].id \in {id}
  BY <1>1, <1>2, ToldFacts
<1>5. AnswersEnded' /\ ClosingKnown'
  BY <1>1, <1>2, <1>3, <1>4 DEF AnswersEnded, ClosingKnown
<1>6. DialogsTypeOK'
  BY <1>1, <1>2, <1>3, <1>4 DEF DialogsTypeOK, DialogRecord, Answer, ussd, auth
<1>7. \A i \in DOMAIN dialog : dialog'[i].open /\ i \notin closing' => dialog[i].open /\ i \notin closing
  BY <1>1, <1>3
<1> QED
  BY <1>1, <1>3, <1>5, <1>6, <1>7, KeepStep DEF ussd, auth

LEMMA AnsweredStep ==
  ASSUME DialogsInv, NEW id \in Ids, Answered(id)
  PROVE  DialogsInv'
<1>1. /\ id \in DOMAIN dialog /\ dialog' = [dialog EXCEPT ![id].open = FALSE]
      /\ UNCHANGED <<mState, ussd, auth, closing>> /\ DialogsTypeOK /\ AnswersEnded
      /\ dialog[id] \in DialogRecord
  BY DialogIds DEF Answered, DialogsInv
<1> DEFINE closed == [id |-> id, key |-> "closed"]
<1>2. PICK new : /\ answers' = answers \o new /\ new \in Seq(Answer)
                 /\ \A i \in 1..Len(new) : new[i].id = id
  <2>1. CASE answers' = Append(answers, closed)
    <3>1. closed \in Answer /\ closed.id = id
      BY DEF Answer
    <3>2. answers \in Seq(Answer)
      BY <1>1 DEF DialogsTypeOK, Answer
    <3> HIDE DEF closed, Answer
    <3>3. answers' = answers \o <<closed>>
      BY <2>1, <3>1, <3>2, AppendIsConcat
    <3>4. <<closed>> \in Seq(Answer) /\ \A i \in 1..Len(<<closed>>) : <<closed>>[i].id = id
      BY <3>1
    <3> QED
      BY <3>3, <3>4
  <2>2. ASSUME NEW key \in KeysOf(dialog[id].kind),
               answers' = answers \o <<[id |-> id, key |-> key], closed>>
        PROVE  \E s : /\ answers' = answers \o s /\ s \in Seq(Answer)
                      /\ \A i \in 1..Len(s) : s[i].id = id
    <3> DEFINE pressed == [id |-> id, key |-> key]
    <3>1. key \in Keys
      BY <1>1, <2>2 DEF KeysOf, DialogRecord, Keys
    <3>2. closed \in Answer /\ pressed \in Answer /\ closed.id = id /\ pressed.id = id
      BY <3>1 DEF Answer
    <3> HIDE DEF pressed, closed
    <3>3. <<pressed, closed>> \in Seq(Answer) /\ \A i \in 1..2 : <<pressed, closed>>[i].id = id
      BY <3>2
    <3>4. Len(<<pressed, closed>>) = 2 /\ answers' = answers \o <<pressed, closed>>
      BY <2>2 DEF pressed
    <3> QED
      BY <3>3, <3>4
  <2> QED
    BY <2>1, <2>2 DEF Answered
<1>3. answers \in Seq(Answer)
  BY <1>1 DEF DialogsTypeOK, Answer
<1>4. /\ dialog' \in Seq(DialogRecord) /\ Len(dialog') = Len(dialog) /\ DOMAIN dialog' = DOMAIN dialog
      /\ \A i \in DOMAIN dialog :
           /\ dialog'[i].kind = dialog[i].kind /\ dialog'[i].of = dialog[i].of
           /\ dialog'[i].open => dialog[i].open
      /\ ~dialog'[id].open
  <2> DEFINE shut == [dialog[id] EXCEPT !.open = FALSE]
  <2>1. shut \in DialogRecord /\ shut.kind = dialog[id].kind /\ shut.of = dialog[id].of /\ ~shut.open
    BY <1>1 DEF DialogRecord
  <2>2. dialog' = [dialog EXCEPT ![id] = shut]
    BY <1>1
  <2> HIDE DEF shut, DialogRecord
  <2>3. dialog \in [1..Len(dialog) -> DialogRecord]
    <3>1. dialog \in Seq(DialogRecord)
      BY <1>1 DEF DialogsTypeOK, DialogRecord
    <3> QED
      BY <3>1
  <2>4. /\ dialog' \in [1..Len(dialog) -> DialogRecord]
        /\ \A i \in DOMAIN dialog : dialog'[i] = IF i = id THEN shut ELSE dialog[i]
    BY <1>1, <2>1, <2>2, <2>3
  <2>5. dialog' \in Seq(DialogRecord) /\ Len(dialog') = Len(dialog)
    BY <1>1, <2>4, DialogIds
  <2> QED
    BY <1>1, <2>1, <2>3, <2>4, <2>5
<1> HIDE DEF Answer
<1>5. answers' \in Seq(Answer)
  BY <1>2, <1>3
<1>6. AnswersEnded'
  <2>1. Len(answers) \in Nat /\ Len(new) \in Nat /\ DOMAIN answers = 1..Len(answers)
    BY <1>2, <1>3
  <2>2. /\ DOMAIN answers' = 1..(Len(answers) + Len(new))
        /\ \A i \in 1..(Len(answers) + Len(new)) :
             answers'[i] = IF i <= Len(answers) THEN answers[i] ELSE new[i - Len(answers)]
    BY <1>2, <1>3, <1>5, ConcatProperties
  <2> SUFFICES ASSUME NEW i \in DOMAIN answers'
               PROVE  answers'[i].id \in DOMAIN dialog' /\ ~dialog'[answers'[i].id].open
    BY DEF AnswersEnded
  <2>3. CASE i <= Len(answers)
    <3>1. i \in DOMAIN answers /\ answers'[i] = answers[i]
      BY <2>1, <2>2, <2>3
    <3> QED
      BY <1>1, <1>4, <3>1 DEF AnswersEnded
  <2>4. CASE ~(i <= Len(answers))
    <3>1. i - Len(answers) \in 1..Len(new) /\ answers'[i] = new[i - Len(answers)]
      BY <2>1, <2>2, <2>4
    <3> QED
      BY <1>1, <1>2, <1>4, <3>1
  <2> QED
    BY <2>3, <2>4
<1>7. ClosingKnown'
  BY <1>1, <1>4 DEF DialogsInv, ClosingKnown
<1>8. DialogsTypeOK'
  BY <1>1, <1>4, <1>5 DEF DialogsTypeOK, DialogRecord, Answer, ussd, auth
<1> QED
  BY <1>1, <1>4, <1>6, <1>7, <1>8, KeepStep DEF ussd, auth

\* What the indicator hears is of a dialog that is closed, so that it may forget it.
LEMMA HeardStep ==
  ASSUME DialogsInv, Heard
  PROVE  DialogsInv'
<1> DEFINE id == Head(answers).id
           key == Head(answers).key
<1>1. /\ answers # <<>> /\ answers' = Tail(answers) /\ UNCHANGED <<mState, dialog>>
      /\ DialogsTypeOK /\ answers \in Seq(Answer)
  BY DEF Heard, DialogsInv, DialogsTypeOK, Answer
<1> HIDE DEF Answer
<1>2. /\ answers' \in Seq(Answer) /\ Len(answers') = Len(answers) - 1
      /\ \A i \in 1..Len(answers') : answers'[i] = answers[i + 1]
  BY <1>1, HeadTailProperties
<1>3. Len(answers) \in Nat \ {0} /\ Head(answers) = answers[1] /\ DOMAIN answers = 1..Len(answers)
  BY <1>1
<1>4. \A i \in DOMAIN answers' : i + 1 \in DOMAIN answers /\ answers'[i] = answers[i + 1]
  BY <1>2, <1>3
<1>5. AnswersEnded'
  BY <1>1, <1>4 DEF DialogsInv, AnswersEnded
<1>6. id \in DOMAIN dialog /\ ~dialog[id].open
  BY <1>3 DEF DialogsInv, AnswersEnded
<1>7. id \in Ids
  BY <1>1, <1>6, DialogIds
<1> HIDE DEF id
<1>8. CASE key = "closed"
  <2>1. notificationClosed(id) /\ AuthClosed(id)
    BY <1>8 DEF Heard, id
  <2>2. /\ m_notificationId' \in Ids \cup {0, NoDialog}
        /\ \A i \in DOMAIN dialog : i # id /\ m_notificationId = i => m_notificationId' = i
        /\ UNCHANGED <<mUSSDRequests, m_response, mIgnoredAccounts>>
    BY <1>1, <2>1 DEF notificationClosed, AuthClosed, DialogsTypeOK
  <2>3. /\ DOMAIN mAuthFailureRequests' = DOMAIN mAuthFailureRequests \ {id}
        /\ \A i \in DOMAIN mAuthFailureRequests : i # id =>
               mAuthFailureRequests'[i] = mAuthFailureRequests[i]
        /\ Range(mAuthFailureRequests') \subseteq Range(mAuthFailureRequests)
    BY <2>1, WithoutFacts DEF AuthClosed
  <2>4. closing \subseteq closing' /\ closing' \subseteq closing \cup {id}
    BY <2>1 DEF AuthClosed
  <2>5. ClosingKnown'
    BY <1>1, <1>6, <2>4 DEF DialogsInv, ClosingKnown
  <2>6. DialogsTypeOK'
    BY <1>1, <1>2, <1>7, <2>2, <2>3, <2>4 DEF DialogsTypeOK, Answer
  <2> QED
    BY <1>1, <1>5, <1>6, <2>2, <2>3, <2>4, <2>5, <2>6, KeepStep
<1>9. CASE key # "closed"
  <2>1. USSDAction(id) /\ AuthAction(id, key)
    BY <1>9 DEF Heard, id
  <2>2. UNCHANGED <<mAuthFailureRequests, closing>> /\ mIgnoredAccounts' \subseteq Logins
    <3>1. mIgnoredAccounts \subseteq Logins /\ Range(mAuthFailureRequests) \subseteq Logins
      BY <1>1 DEF DialogsTypeOK
    <3> QED
      BY <2>1, <3>1 DEF AuthAction, Range
  <2>3. /\ m_notificationId' \in {m_notificationId, NoDialog} /\ m_response' \in {m_response, 0}
        /\ DOMAIN mUSSDRequests' \subseteq DOMAIN mUSSDRequests
        /\ Range(mUSSDRequests') \subseteq Range(mUSSDRequests)
        /\ \A i \in DOMAIN mUSSDRequests : i # id =>
              i \in DOMAIN mUSSDRequests' /\ mUSSDRequests'[i] = mUSSDRequests[i]
        /\ m_notificationId # id => m_notificationId' = m_notificationId
    <3>1. CASE UNCHANGED ussd
      BY <3>1 DEF ussd
    <3>2. CASE /\ id = m_notificationId /\ m_notificationId' = NoDialog
               /\ mUSSDRequests' = Without(mUSSDRequests, id) /\ m_response' = 0
      BY <3>2, WithoutFacts
    <3> QED
      BY <2>1, <3>1, <3>2 DEF USSDAction
  <2>4. ClosingKnown'
    BY <1>1, <2>2 DEF DialogsInv, ClosingKnown
  <2>5. DialogsTypeOK'
    BY <1>1, <1>2, <2>2, <2>3 DEF DialogsTypeOK, Answer
  <2> QED
    BY <1>1, <1>5, <1>6, <2>2, <2>3, <2>4, <2>5, KeepStep
<1> QED
  BY <1>8, <1>9

LEMMA ClearStep ==
  ASSUME DialogsInv, clear
  PROVE  DialogsInv'
<1>1. /\ closing' = closing \cup (({m_notificationId} \cup DOMAIN mAuthFailureRequests) \cap DOMAIN dialog)
      /\ mUSSDRequests' = Without(mUSSDRequests, m_notificationId)
      /\ m_notificationId' = NoDialog /\ mAuthFailureRequests' = <<>>
      /\ UNCHANGED <<mState, m_response, mIgnoredAccounts, dialog, answers>>
      /\ DialogsTypeOK
  BY DEF clear, DialogsInv
<1>2. ClosingKnown' /\ AnswersEnded'
  BY <1>1 DEF DialogsInv, ClosingKnown, AnswersEnded
<1>3. DOMAIN mUSSDRequests' \subseteq DOMAIN mUSSDRequests /\ Range(mUSSDRequests') \subseteq Range(mUSSDRequests)
  BY <1>1, WithoutFacts
<1>4. DOMAIN mAuthFailureRequests' = {} /\ Range(mAuthFailureRequests') = {}
  BY <1>1 DEF Range
<1>5. closing' \subseteq Ids
  BY <1>1, DialogIds DEF DialogsTypeOK
<1>6. DialogsTypeOK'
  BY <1>1, <1>3, <1>4, <1>5 DEF DialogsTypeOK
<1>7. ASSUME NEW i \in DOMAIN dialog', dialog'[i].open, i \notin closing', dialog'[i].kind = "login"
      PROVE  FALSE
  BY <1>1, <1>7 DEF DialogsInv, DialogsWork
<1>8. ASSUME NEW i \in DOMAIN dialog', dialog'[i].open, i \notin closing', dialog'[i].kind # "login",
             Newest(i)'
      PROVE  FALSE
  BY <1>1, <1>8 DEF DialogsInv, DialogsWork, Newest
<1> QED
  BY <1>2, <1>6, <1>7, <1>8 DEF DialogsInv, DialogsWork

LEMMA DialogsInvNext ==
  ASSUME DialogsInv, [DialogsNext]_dialogsVars
  PROVE  DialogsInv'
<1>0. DialogsTypeOK
  BY DEF DialogsInv
<1>1. CASE Heard
  BY <1>1, HeardStep
<1>2. CASE clear
  BY <1>2, ClearStep
<1>3. ASSUME NEW s \in Cards, onConnectionChanged(s) PROVE DialogsInv'
  <2>1. UNCHANGED <<ussd, auth, daemon>> /\ mState' \in [Cards -> State]
    BY <1>0, <1>3 DEF onConnectionChanged, DialogsTypeOK
  <2>2. DialogsTypeOK' /\ ClosingKnown' /\ AnswersEnded'
    BY <2>1 DEF DialogsInv, DialogsTypeOK, ClosingKnown, AnswersEnded, ussd, auth, daemon
  <2> QED
    BY <2>1, <2>2, KeepStep DEF ussd, auth, daemon
<1>4. ASSUME NEW s \in Cards, NEW state \in State, onStateChanged(s, state) PROVE DialogsInv'
  <2>1. /\ UNCHANGED <<ussd, auth, dialog, answers>> /\ mState' \in [Cards -> State]
        /\ closing \subseteq closing' /\ closing' \subseteq closing \cup DOMAIN dialog
    BY <1>0, <1>4 DEF onStateChanged, DialogsTypeOK
  <2>2. DialogsTypeOK' /\ ClosingKnown' /\ AnswersEnded'
    BY <1>0, <2>1, DialogIds DEF DialogsInv, DialogsTypeOK, ClosingKnown, AnswersEnded, ussd, auth
  <2> QED
    BY <2>1, <2>2, KeepStep DEF ussd, auth
<1>5. ASSUME NEW s \in Cards, NEW signal \in Opening, NEW served \in BOOLEAN,
             showUSSDNotification(s, signal, served)
      PROVE  DialogsInv'
  BY <1>5, ShowUSSDStep
<1>6. ASSUME NEW a \in Logins, AuthenticationFailed(a) PROVE DialogsInv'
  BY <1>6, AuthFailedStep
<1>7. ASSUME NEW id \in Ids, CloseNotification(id) PROVE DialogsInv'
  BY <1>7, CloseStep
<1>8. ASSUME NEW id \in Ids, Answered(id) PROVE DialogsInv'
  BY <1>8, AnsweredStep
<1>9. ASSUME NEW id \in Ids, Typed(id) PROVE DialogsInv'
  <2>1. m_response' \in Ids /\ UNCHANGED <<mState, m_notificationId, mUSSDRequests, auth, daemon>>
    BY <1>9 DEF Typed
  <2>2. DialogsTypeOK' /\ ClosingKnown' /\ AnswersEnded'
    BY <2>1 DEF DialogsInv, DialogsTypeOK, ClosingKnown, AnswersEnded, auth, daemon
  <2> QED
    BY <2>1, <2>2, KeepStep DEF auth, daemon
<1>10. CASE UNCHANGED dialogsVars
  <2>1. UNCHANGED <<mState, ussd, auth, daemon>>
    BY <1>10 DEF dialogsVars
  <2>2. DialogsTypeOK' /\ ClosingKnown' /\ AnswersEnded'
    BY <2>1 DEF DialogsInv, DialogsTypeOK, ClosingKnown, AnswersEnded, ussd, auth, daemon
  <2> QED
    BY <2>1, <2>2, KeepStep DEF ussd, auth, daemon
<1> QED
  BY <1>1, <1>2, <1>3, <1>4, <1>5, <1>6, <1>7, <1>8, <1>9, <1>10 DEF DialogsNext
-----------------------------------------------------------------------------
LEMMA DialogsInvInit ==
  ASSUME DialogsInit
  PROVE  DialogsInv
<1>1. /\ dialog = <<>> /\ closing = {} /\ answers = <<>> /\ mUSSDRequests = <<>>
      /\ mAuthFailureRequests = <<>> /\ MaxDialogs \in Nat
  BY DialogsAssumption DEF DialogsInit
<1>2. DOMAIN dialog = {} /\ Len(dialog) <= MaxDialogs
  BY <1>1
<1>3. DialogsTypeOK
  BY <1>1, <1>2 DEF DialogsInit, DialogsTypeOK, State, NoDialog, Range
<1> QED
  BY <1>1, <1>2, <1>3 DEF DialogsInv, ClosingKnown, AnswersEnded, DialogsWork

\* The indicator's books of its dialogs, and what is on its way between it and
\* the daemon, agree (ussdindicator.cpp:138-187, authhandler.cpp:114-146).
THEOREM DialogsInvariant == DialogsSpec => []DialogsInv
BY DialogsInvInit, DialogsInvNext, PTL DEF DialogsSpec

\* A key that is pressed on a dialog has its effect for the card or the account
\* the dialog is of, for any number of them and whatever order the daemon's
\* answers, the calls that close dialogs and the sessions' signals come in.
THEOREM KeysOfDialogsWork == DialogsSpec => []DialogsWork
<1>1. DialogsInv => DialogsWork
  BY DEF DialogsInv
<1> QED
  BY <1>1, DialogsInvariant, PTL
=============================================================================
