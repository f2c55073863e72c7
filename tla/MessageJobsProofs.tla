-------------------------- MODULE MessageJobsProofs --------------------------
(* Theorems about MessageJobs, for any jobs, accounts, messages and parts. *)
EXTENDS MessageJobs, TLAPS

Statuses == {"none", "Running", "Finished", "Failed"}
Ended == {"Finished", "Failed"}
Clients == {"idle", "calling", "listening", "told", "sent", "failed"}

\* The types the proofs need. (The bounds are a matter of counting runs.)
Types ==
  /\ status \in [Jobs -> Statuses]
  /\ messageId \in [Jobs -> Nat]
  /\ runs \in [Jobs -> Nat]
  /\ deleted \in SUBSET Jobs /\ watching \in SUBSET Jobs /\ dying \in SUBSET Jobs
  /\ client \in [Jobs -> Clients]
  /\ \A r \in starting : r.job \in Jobs
  /\ \A s \in sending : s.job \in Jobs

Wires ==
  /\ wire = [j \in Jobs |-> wire[j]]
  /\ \A j \in Jobs : wire[j] = [p \in 1..MaxPieces(j) |-> wire[j][p]]

\* Nothing is under way for a job before it is started.
Begun ==
  \A j \in Jobs : status[j] = "none" =>
    /\ runs[j] = 0
    /\ j \notin dying \cup watching
    /\ \A r \in starting : r.job # j
    /\ \A s \in sending : s.job # j

\* A run is counted, and waits for its channel or for one send operation.
RunsOnce ==
  /\ \A r \in starting : r.run \in 1..runs[r.job]
  /\ \A s \in sending : s.run \in 1..runs[s.job]
  /\ \A r \in starting, s \in sending : r.job = s.job => r.run # s.run
  /\ \A r, q \in starting : r.job = q.job /\ r.run = q.run => r = q
  /\ \A s, t \in sending : s.job = t.job /\ s.run = t.run => s = t

\* A job that did not wait has one run, which is over when the job has ended.
OneRun ==
  \A j \in Jobs \ watching :
    /\ runs[j] <= 1
    /\ status[j] \in Ended => /\ \A r \in starting : r.job # j
                              /\ \A s \in sending : s.job # j

\* Only jobs that ended are to be deleted, or were.
DyingEnded ==
  /\ deleted \subseteq dying
  /\ \A j \in dying : status[j] \in Ended

\* What a job or its sender reports goes back to a piece the CM took.
FinishedIsNamed == \A j \in Jobs : status[j] = "Finished" => messageId[j] # 0
TakenIsOnWire == \A s \in sending : s.taken => s.run \in wire[s.job][1]

Runs == Types /\ RunsOnce /\ OneRun /\ Begun
Reports == DyingEnded /\ FinishedIsNamed /\ TakenIsOnWire /\ SentWasTaken
IInv == Runs /\ Wires /\ Reports

\* Every message has a first piece.
LEMMA FirstPiece ==
  ASSUME NEW j \in Jobs
  PROVE  1 \in 1..MaxPieces(j)
BY MessageJobsAssumption DEF MaxPieces
-----------------------------------------------------------------------------
(* What the steps that look for a channel and send have in common. *)

\* The jobs L, and no others, each have a new send operation, in the run given.
Sends(L, run) ==
  /\ sending \subseteq sending'
  /\ \A s \in sending' \ sending : s.job \in L /\ s.run = run[s.job]
  /\ \A s, t \in sending' \ sending : s.job = t.job => s = t
  /\ \A k \in L : \E s \in sending' : s.job = k /\ s.run = run[k]

\* What the CM took stays, and a new operation it served is of a piece it took.
WireGrows ==
  /\ \A j \in Jobs : wire[j][1] \subseteq wire'[j][1]
  /\ \A s \in sending' \ sending : s.taken => s.run \in wire'[s.job][1]

LEMMA SendStep ==
  ASSUME Wires, NEW S \in SUBSET Jobs, NEW a, NEW run, Send(S, a, run)
  PROVE  Wires' /\ WireGrows /\ \E L \in SUBSET S : Sends(L, run)
<1>1. PICK taken \in [S -> SUBSET UNION {DOMAIN wire[j] : j \in S}] :
        /\ wire' = [j \in Jobs |->
                      IF j \in S THEN [p \in DOMAIN wire[j] |->
                                         wire[j][p] \cup {n \in {run[j]} : p \in taken[j]}]
                                 ELSE wire[j]]
        /\ sending' = sending \cup
             {[job |-> j, run |-> run[j], taken |-> 1 \in taken[j]] :
                j \in {k \in S : Pieces(k, a) > 0}}
  BY DEF Send
<1>2. ASSUME NEW j \in Jobs
      PROVE  /\ wire'[j] = [p \in 1..MaxPieces(j) |-> wire'[j][p]]
             /\ wire[j][1] \subseteq wire'[j][1]
             /\ j \in S /\ 1 \in taken[j] => run[j] \in wire'[j][1]
  <2>1. wire[j] = [p \in 1..MaxPieces(j) |-> wire[j][p]] /\ 1 \in 1..MaxPieces(j)
    BY FirstPiece DEF Wires
  <2>2. CASE j \in S
    <3>1. wire'[j] = [p \in 1..MaxPieces(j) |->
                        wire[j][p] \cup {n \in {run[j]} : p \in taken[j]}]
      BY <1>1, <2>1, <2>2
    <3> QED
      BY <2>1, <3>1
  <2>3. CASE j \notin S
    BY <1>1, <2>1, <2>3
  <2> QED
    BY <2>2, <2>3
<1>3. Wires'
  <2>1. wire' = [j \in Jobs |-> wire'[j]]
    BY <1>1
  <2> QED
    BY <1>2, <2>1 DEF Wires
<1> DEFINE L == {k \in S : Pieces(k, a) > 0}
           op(j) == [job |-> j, run |-> run[j], taken |-> 1 \in taken[j]]
<1>4. \A j : op(j).job = j /\ op(j).run = run[j] /\ op(j).taken = (1 \in taken[j])
  OBVIOUS
<1>5. sending' = sending \cup {op(j) : j \in L} /\ L \in SUBSET S
  BY <1>1
<1> HIDE DEF L, op
<1>6. Sends(L, run)
  BY <1>4, <1>5 DEF Sends
<1>7. WireGrows
  <2>1. ASSUME NEW s \in sending' \ sending, s.taken
        PROVE  s.run \in wire'[s.job][1]
    <3>1. PICK j \in L : s = op(j)
      BY <1>5
    <3>2. s.job = j /\ s.run = run[j] /\ 1 \in taken[j] /\ j \in S /\ j \in Jobs
      BY <1>4, <1>5, <2>1, <3>1
    <3> QED
      BY <1>2, <3>2
  <2> QED
    BY <1>2, <2>1 DEF WireGrows
<1>8. \E M \in SUBSET S : Sends(M, run)
  <2> HIDE DEF Sends
  <2> QED
    BY <1>5, <1>6
<1> QED
  BY <1>3, <1>7, <1>8

\* Jobs S look for their channel, with statuses st and clients cl: the jobs
\* "failed" fail, for K a channel is requested, and L send.
Looked(S, st, cl, failed, K, L) ==
  /\ (failed \cup L) \cap K = {} /\ failed \cap L = {}
  /\ runs' = [j \in Jobs |-> runs[j] + IF j \in S THEN 1 ELSE 0]
  /\ status' = [j \in Jobs |-> IF j \in failed THEN "Failed" ELSE st[j]]
  /\ dying' = dying \cup failed
  /\ client' = Told(failed, cl)
  /\ starting' = starting \cup {[job |-> k, run |-> runs'[k]] : k \in K}
  /\ Sends(L, runs')

LEMMA FindStep ==
  ASSUME Wires, NEW S \in SUBSET Jobs, NEW a, NEW st, NEW cl, FindOrCreateChannel(S, a, st, cl)
  PROVE  /\ Wires' /\ WireGrows
         /\ \E failed, K, L \in SUBSET S : Looked(S, st, cl, failed, K, L)
<1> DEFINE failed == StartFails(S \ Found(S, a))
           K == {k \in S \ Found(S, a) : mMessage'[k].kind \in {"chat", "room"}}
<1>1. Found(S, a) \in SUBSET Jobs /\ Found(S, a) \subseteq S /\ failed \in SUBSET S /\ K \in SUBSET S
  BY DEF Found, StartFails
<1>2. Send(Found(S, a), a, runs')
  BY DEF FindOrCreateChannel
<1>3. PICK L \in SUBSET Found(S, a) : Sends(L, runs')
  BY <1>1, <1>2, SendStep
<1>4. (failed \cup L) \cap K = {} /\ failed \cap L = {}
  BY <1>3 DEF StartFails
<1>5. Looked(S, st, cl, failed, K, L)
  BY <1>3, <1>4 DEF FindOrCreateChannel, Looking, Looked
<1>6. Wires' /\ WireGrows
  BY <1>1, <1>2, SendStep
<1> HIDE DEF failed, K
<1> QED
  BY <1>1, <1>3, <1>5, <1>6

\* The runs of the jobs that look are new.
LEMMA LookedRuns ==
  ASSUME Types, RunsOnce, NEW S \in SUBSET Jobs, NEW st, NEW cl,
         NEW failed \in SUBSET S, NEW K \in SUBSET S, NEW L \in SUBSET S,
         Looked(S, st, cl, failed, K, L)
  PROVE  /\ RunsOnce' /\ runs' \in [Jobs -> Nat]
         /\ \A r \in starting' \ starting : r.job \in K /\ r.run = runs'[r.job]
         /\ \A k \in K : \E r \in starting' : r.job = k /\ r.run = runs'[k]
         /\ starting \subseteq starting'
<1>1. \A j \in Jobs : /\ runs[j] \in Nat /\ runs'[j] \in Nat /\ runs'[j] >= runs[j]
                      /\ j \in S => runs'[j] = runs[j] + 1
  BY DEF Looked, Types
<1> DEFINE req(k) == [job |-> k, run |-> runs'[k]]
<1>2. starting' = starting \cup {req(k) : k \in K}
  BY DEF Looked
<1>3. \A k : req(k).job = k /\ req(k).run = runs'[k]
  OBVIOUS
<1> HIDE DEF req
<1>4. /\ \A r \in starting' \ starting : r.job \in K /\ r.run = runs'[r.job]
      /\ \A r, q \in starting' \ starting : r.job = q.job => r = q
      /\ \A k \in K : \E r \in starting' : r.job = k /\ r.run = runs'[k]
      /\ starting \subseteq starting'
  BY <1>2, <1>3
<1>5. /\ \A s \in sending' \ sending : s.job \in L /\ s.run = runs'[s.job]
      /\ \A s, t \in sending' \ sending : s.job = t.job => s = t
      /\ K \cap L = {}
  BY DEF Looked, Sends
<1>6. /\ \A r \in starting : r.job \in Jobs /\ r.run \in 1..runs[r.job]
      /\ \A s \in sending : s.job \in Jobs /\ s.run \in 1..runs[s.job]
  BY DEF Types, RunsOnce
<1>7. /\ \A r \in starting' \ starting : r.job \in S /\ r.run = runs[r.job] + 1
      /\ \A s \in sending' \ sending : s.job \in S /\ s.run = runs[s.job] + 1
  BY <1>1, <1>4, <1>5
<1>8. \A j \in Jobs : \A n \in 1..runs[j] : n # runs[j] + 1 /\ n \in 1..runs'[j]
  BY <1>1
<1>9. \A j \in S : runs[j] + 1 \in 1..runs'[j]
  BY <1>1
<1>10. /\ \A r \in starting' : r.run \in 1..runs'[r.job]
       /\ \A s \in sending' : s.run \in 1..runs'[s.job]
  BY <1>6, <1>7, <1>8, <1>9
<1>11. \A r \in starting', s \in sending' : r.job = s.job => r.run # s.run
  <2>1. ASSUME NEW r \in starting' \ starting, NEW s \in sending' \ sending PROVE r.job # s.job
    BY <2>1, <1>4, <1>5
  <2> QED
    BY <2>1, <1>6, <1>7, <1>8 DEF RunsOnce
<1>12. \A r, q \in starting' : r.job = q.job /\ r.run = q.run => r = q
  BY <1>4, <1>6, <1>7, <1>8 DEF RunsOnce
<1>13. \A s, t \in sending' : s.job = t.job /\ s.run = t.run => s = t
  BY <1>5, <1>6, <1>7, <1>8 DEF RunsOnce
<1>14. runs' \in [Jobs -> Nat]
  <2>1. runs' = [j \in Jobs |-> runs'[j]]
    BY DEF Looked
  <2> QED
    BY <1>1, <2>1
<1> QED
  BY <1>4, <1>10, <1>11, <1>12, <1>13, <1>14 DEF RunsOnce

\* A list of clients stays one, and nobody learns more than that a job ended.
LEMMA ToldType ==
  ASSUME NEW cl \in [Jobs -> Clients], NEW S
  PROVE  /\ Told(S, cl) \in [Jobs -> Clients]
         /\ \A j \in Jobs : Told(S, cl)[j] = "sent" => cl[j] = "sent"
BY DEF Told, Clients

\* The wire grows: reports stay true.
LEMMA ReportsGrow ==
  ASSUME TakenIsOnWire, WireGrows, Types, sending \subseteq sending'
  PROVE  TakenIsOnWire'
BY DEF TakenIsOnWire, WireGrows, Types

\* Jobs S that have begun look for their channel, with the statuses and clients
\* they then have; those that did not wait look for the first time.
LEMMA LookingStep ==
  ASSUME IInv, NEW S \in SUBSET Jobs, NEW a, NEW st \in [Jobs -> Statuses],
         NEW cl \in [Jobs -> Clients], FindOrCreateChannel(S, a, st, cl),
         \A j \in S : st[j] # "none",
         \A j \in S \ watching : runs[j] = 0 /\ st[j] = "Running",
         \A j \in Jobs : st[j] = "Finished" => status[j] = "Finished",
         \A j \in Jobs \ S : st[j] = status[j],
         \A j \in dying : st[j] = status[j],
         \A j \in Jobs : cl[j] = "sent" => client[j] = "sent",
         UNCHANGED <<messageId, deleted, watching>>
  PROVE  IInv'
<1>0. Types /\ RunsOnce /\ OneRun /\ Begun /\ Wires /\ Reports
  BY DEF IInv, Runs
<1>1. PICK failed \in SUBSET S, K \in SUBSET S, L \in SUBSET S :
         Looked(S, st, cl, failed, K, L)
  BY <1>0, FindStep
<1>2. Wires' /\ WireGrows
  BY <1>0, FindStep
<1>3. /\ RunsOnce' /\ runs' \in [Jobs -> Nat]
      /\ \A r \in starting' \ starting : r.job \in K /\ r.run = runs'[r.job]
  BY <1>0, <1>1, LookedRuns
<1>4. /\ status' = [j \in Jobs |-> IF j \in failed THEN "Failed" ELSE st[j]]
      /\ dying' = dying \cup failed
      /\ client' = Told(failed, cl)
      /\ runs' = [j \in Jobs |-> runs[j] + IF j \in S THEN 1 ELSE 0]
      /\ sending \subseteq sending'
      /\ \A s \in sending' \ sending : s.job \in L
      /\ failed \cap (K \cup L) = {}
  BY <1>1 DEF Looked, Sends
<1>5. client' \in [Jobs -> Clients] /\ \A j \in Jobs : client'[j] = "sent" => client[j] = "sent"
  BY <1>4, ToldType
<1>6. Types'
  BY <1>0, <1>3, <1>4, <1>5 DEF Types, Statuses
<1>7. Begun'
  <2> SUFFICES ASSUME NEW j \in Jobs, status'[j] = "none"
               PROVE  /\ runs'[j] = 0 /\ j \notin dying' \cup watching'
                      /\ \A r \in starting' : r.job # j
                      /\ \A s \in sending' : s.job # j
    BY DEF Begun
  <2>1. j \notin S /\ status[j] = "none"
    BY <1>4
  <2> QED
    BY <1>0, <1>3, <1>4, <2>1 DEF Begun, Types
<1>8. OneRun'
  <2> SUFFICES ASSUME NEW j \in Jobs \ watching
               PROVE  /\ runs'[j] <= 1
                      /\ status'[j] \in Ended => /\ \A r \in starting' : r.job # j
                                                /\ \A s \in sending' : s.job # j
    BY DEF OneRun
  <2>1. CASE j \notin S
    BY <1>0, <1>3, <1>4, <2>1 DEF OneRun, Types
  <2>2. CASE j \in S
    <3>1. runs'[j] = 1 /\ runs[j] = 0 /\ st[j] = "Running"
      BY <1>4, <2>2
    <3>2. (\A r \in starting : r.job # j) /\ (\A s \in sending : s.job # j)
      BY <1>0, <3>1 DEF RunsOnce
    <3>3. status'[j] \in Ended => j \in failed
      BY <1>4, <3>1 DEF Ended
    <3> QED
      BY <1>3, <1>4, <3>1, <3>2, <3>3
  <2> QED
    BY <2>1, <2>2
<1>9. Reports'
  <2>1. DyingEnded'
    BY <1>0, <1>4 DEF Reports, DyingEnded, Types, Ended
  <2>2. FinishedIsNamed'
    BY <1>0, <1>4 DEF Reports, FinishedIsNamed, Types
  <2>3. TakenIsOnWire'
    BY <1>0, <1>2, <1>4, ReportsGrow DEF Reports
  <2>4. SentWasTaken'
    BY <1>0, <1>2, <1>5 DEF Reports, SentWasTaken, WireGrows
  <2> QED
    BY <2>1, <2>2, <2>3, <2>4 DEF Reports
<1> QED
  BY <1>2, <1>3, <1>6, <1>7, <1>8, <1>9 DEF IInv, Runs

\* A run of job j, the only one with its number, ends it with a result it may have.
LEMMA EndStep ==
  ASSUME IInv, NEW j \in Jobs, status[j] # "none", NEW n \in Nat, NEW result \in Ended,
         End(j, result), result = "Finished" => n \in wire[j][1] /\ n # 0,
         messageId' = IF result = "Finished" THEN [messageId EXCEPT ![j] = n] ELSE messageId,
         sending' \subseteq sending, starting' \subseteq starting,
         j \notin watching => /\ \A r \in starting' : r.job # j
                             /\ \A s \in sending' : s.job # j,
         UNCHANGED <<deleted, watching, wire, runs>>
  PROVE  IInv'
<1>0. Types /\ RunsOnce /\ OneRun /\ Begun /\ Wires /\ Reports
  BY DEF IInv, Runs
<1>1. client' \in [Jobs -> Clients] /\ \A k \in Jobs : client'[k] = "sent" => client[k] = "sent"
  BY <1>0, ToldType DEF End, Types
<1>2. status' = [status EXCEPT ![j] = result] /\ dying' = dying \cup {j}
  BY DEF End
<1>3. Types'
  BY <1>0, <1>1, <1>2 DEF Types, Statuses, Ended
<1>4. Wires' /\ TakenIsOnWire'
  BY <1>0 DEF Wires, TakenIsOnWire, Reports
<1>5. RunsOnce'
  BY <1>0 DEF RunsOnce
<1>6. Begun'
  BY <1>0, <1>2 DEF Begun, Types, Ended
<1>7. OneRun'
  BY <1>0, <1>2 DEF OneRun, Types
<1>8. DyingEnded' /\ FinishedIsNamed'
  BY <1>0, <1>2 DEF DyingEnded, FinishedIsNamed, Types, Reports, Ended
<1>9. SentWasTaken'
  BY <1>0, <1>1 DEF SentWasTaken, Types, Reports
<1> QED
  BY <1>3, <1>4, <1>5, <1>6, <1>7, <1>8, <1>9 DEF IInv, Runs, Reports

LEMMA InitHolds == Init => IInv
<1> SUFFICES ASSUME Init PROVE IInv
  OBVIOUS
<1>1. Wires
  BY DEF Init, Wires
<1> QED
  BY <1>1 DEF Init, IInv, Runs, Reports, Types, Statuses, Clients, Ended, Begun, RunsOnce, OneRun,
              DyingEnded, FinishedIsNamed, TakenIsOnWire, SentWasTaken

\* What the steps that leave the runs and reports alone keep.
LEMMA SameStep ==
  ASSUME IInv, UNCHANGED <<status, messageId, deleted, watching, runs, dying, wire>>,
         starting' \subseteq starting, sending' \subseteq sending,
         client' \in [Jobs -> Clients],
         \A j \in Jobs : client'[j] = "sent" => client[j] = "sent" \/ messageId[j] # 0
  PROVE  IInv'
BY DEF IInv, Runs, Reports, Types, Wires, Begun, RunsOnce, OneRun, DyingEnded, FinishedIsNamed,
       TakenIsOnWire, SentWasTaken

LEMMA SendMessageStep ==
  ASSUME IInv, NEW j \in Jobs, SendMessage(j)
  PROVE  IInv'
<1>0. Types /\ RunsOnce /\ OneRun /\ Begun /\ Wires /\ Reports
  BY DEF IInv, Runs
<1>1. PICK m \in Messages[j] : SendToNowhere(j, m) \/ SendLater(j, m) \/ SendNow(j, m)
  BY DEF SendMessage
<1>2. status[j] = "none" /\ UNCHANGED <<messageId, deleted>>
  BY DEF SendMessage
<1>3. /\ j \notin dying \cup watching /\ runs[j] = 0
      /\ \A r \in starting : r.job # j
      /\ \A s \in sending : s.job # j
  BY <1>0, <1>2 DEF Begun
<1>4. CASE SendNow(j, m)
  <2> DEFINE st == [status EXCEPT ![j] = "Running"]
             cl == [client EXCEPT ![j] = "calling"]
  <2>1. FindOrCreateChannel({j}, Chosen(m), st, cl) /\ watching' = watching
    BY <1>4 DEF SendNow
  <2>2. /\ st \in [Jobs -> Statuses] /\ cl \in [Jobs -> Clients]
        /\ st[j] = "Running" /\ \A k \in Jobs \ {j} : st[k] = status[k]
        /\ \A k \in Jobs : cl[k] = "sent" => client[k] = "sent"
    BY <1>0 DEF Types, Statuses, Clients
  <2>3. /\ \A k \in {j} : st[k] # "none"
        /\ \A k \in {j} \ watching : runs[k] = 0 /\ st[k] = "Running"
        /\ \A k \in Jobs : st[k] = "Finished" => status[k] = "Finished"
        /\ \A k \in dying : st[k] = status[k]
    BY <1>0, <1>3, <2>2 DEF Types
  <2> HIDE DEF st, cl
  <2>4. {j} \in SUBSET Jobs
    OBVIOUS
  <2> QED
    BY <1>2, <2>1, <2>2, <2>3, <2>4, LookingStep
<1>5. CASE SendToNowhere(j, m)
  <2>1. /\ status' = [status EXCEPT ![j] = "Failed"] /\ dying' = dying \cup {j}
        /\ client' = [client EXCEPT ![j] = "calling"]
        /\ UNCHANGED <<watching, runs, starting, sending, wire>>
    BY <1>5 DEF SendToNowhere
  <2>2. Types' /\ RunsOnce' /\ Begun' /\ OneRun'
    BY <1>0, <1>2, <1>3, <2>1 DEF Types, Statuses, Clients, RunsOnce, Begun, OneRun, Ended
  <2>3. Wires' /\ Reports'
    BY <1>0, <1>2, <2>1
       DEF Wires, Reports, Types, Ended, DyingEnded, FinishedIsNamed, TakenIsOnWire, SentWasTaken
  <2> QED
    BY <2>2, <2>3 DEF IInv, Runs
<1>6. CASE SendLater(j, m)
  <2>1. /\ status' = [status EXCEPT ![j] = "Running"] /\ watching' = watching \cup {j}
        /\ client' = [client EXCEPT ![j] = "calling"]
        /\ UNCHANGED <<runs, starting, sending, wire, dying>>
    BY <1>6 DEF SendLater
  <2>2. Types' /\ RunsOnce' /\ Begun' /\ OneRun'
    BY <1>0, <1>2, <1>3, <2>1 DEF Types, Statuses, Clients, RunsOnce, Begun, OneRun, Ended
  <2>3. Wires' /\ Reports'
    BY <1>0, <1>2, <1>3, <2>1
       DEF Wires, Reports, Types, Ended, DyingEnded, FinishedIsNamed, TakenIsOnWire, SentWasTaken
  <2> QED
    BY <2>2, <2>3 DEF IInv, Runs
<1> QED
  BY <1>1, <1>4, <1>5, <1>6

LEMMA ConnectedChangedStep ==
  ASSUME IInv, NEW a \in Accounts, ConnectedChanged(a)
  PROVE  IInv'
<1>0. Types /\ Begun
  BY DEF IInv, Runs
<1>1. CASE FindOrCreateChannel(Waiting(a), a, status, client)
           /\ UNCHANGED <<messageId, deleted, watching>>
  <2>1. Waiting(a) \in SUBSET Jobs /\ Waiting(a) \subseteq watching
        /\ \A j \in Waiting(a) : status[j] # "none"
    BY <1>0 DEF Waiting, Types, Begun
  <2>2. status \in [Jobs -> Statuses] /\ client \in [Jobs -> Clients]
    BY <1>0 DEF Types
  <2> QED
    BY <1>1, <2>1, <2>2, LookingStep
<1>2. CASE UNCHANGED <<jobVars, wire, client>>
  BY <1>0, <1>2, SameStep DEF jobVars, Types
<1> QED
  BY <1>1, <1>2 DEF ConnectedChanged

\* A run of a job that did not wait is the only thing under way for it.
LEMMA LastRun ==
  ASSUME Types, RunsOnce, OneRun, NEW j \in Jobs \ watching
  PROVE  /\ \A r, q \in starting : r.job = j /\ q.job = j => r = q
         /\ \A s, t \in sending : s.job = j /\ t.job = j => s = t
         /\ \A r \in starting, s \in sending : ~(r.job = j /\ s.job = j)
<1>1. runs[j] \in Nat /\ runs[j] <= 1
  BY DEF Types, OneRun
<1>2. \A n \in 1..runs[j] : n = 1
  BY <1>1
<1>3. /\ \A r \in starting : r.job = j => r.run = 1
      /\ \A s \in sending : s.job = j => s.run = 1
  BY <1>2 DEF RunsOnce
<1> QED
  BY <1>3 DEF RunsOnce

LEMMA ChatStartedStep ==
  ASSUME IInv, NEW r \in starting, ChatStarted(r)
  PROVE  IInv'
<1>0. Types /\ RunsOnce /\ OneRun /\ Begun /\ Wires /\ Reports
  BY DEF IInv, Runs
<1>1. /\ starting' = starting \ {r} /\ UNCHANGED <<messageId, deleted, watching, runs>>
      /\ r.job \in Jobs /\ status[r.job] # "none"
  BY <1>0 DEF ChatStarted, StillStarting, Types, Begun
<1>2. CASE UNCHANGED <<status, dying, client, sending, wire>>
  BY <1>0, <1>1, <1>2, SameStep DEF Types
<1>3. CASE ChatFailed(r.job) /\ UNCHANGED <<sending, wire>>
  <2>1. End(r.job, "Failed") /\ "Failed" \in Ended /\ 0 \in Nat
    BY <1>3 DEF ChatFailed, Ended
  <2>2. r.job \notin watching => /\ \A q \in starting' : q.job # r.job
                                /\ \A s \in sending' : s.job # r.job
    BY <1>0, <1>1, <1>3, LastRun
  <2> QED
    BY <1>1, <1>3, <2>1, <2>2, EndStep
<1>4. CASE /\ r.job \notin deleted
           /\ Send({r.job}, account[r.job], [runs EXCEPT ![r.job] = r.run])
           /\ UNCHANGED <<status, dying, client>>
  <2> DEFINE run == [runs EXCEPT ![r.job] = r.run]
  <2>1. {r.job} \in SUBSET Jobs
    BY <1>1
  <2>2. /\ Wires' /\ WireGrows
        /\ \E L \in SUBSET {r.job} : Sends(L, run)
    BY <1>0, <1>4, <2>1, SendStep
  <2>3. run[r.job] = r.run
    BY <1>0, <1>1 DEF Types
  <2>4. /\ sending \subseteq sending'
        /\ \A s \in sending' \ sending : s.job = r.job /\ s.run = r.run
        /\ \A s, t \in sending' \ sending : s = t
    BY <2>2, <2>3 DEF Sends
  <2>5. Types'
    BY <1>0, <1>1, <1>4, <2>4 DEF Types
  <2>6. Begun'
    BY <1>0, <1>1, <1>4, <2>4 DEF Begun
  <2>7. RunsOnce'
    BY <1>0, <1>1, <2>4 DEF RunsOnce
  <2>8. OneRun'
    BY <1>0, <1>1, <1>4, <2>4 DEF OneRun
  <2>9. DyingEnded' /\ FinishedIsNamed' /\ SentWasTaken'
    BY <1>0, <1>1, <1>4, <2>2
       DEF Reports, DyingEnded, FinishedIsNamed, SentWasTaken, WireGrows
  <2>10. TakenIsOnWire'
    BY <1>0, <2>2, <2>4, ReportsGrow DEF Reports
  <2> QED
    BY <2>2, <2>5, <2>6, <2>7, <2>8, <2>9, <2>10 DEF IInv, Runs, Reports
<1> QED
  BY <1>2, <1>3, <1>4 DEF ChatStarted

LEMMA SendFinishedStep ==
  ASSUME IInv, NEW s \in sending, SendFinished(s)
  PROVE  IInv'
<1>0. Types /\ RunsOnce /\ OneRun /\ Begun /\ Wires /\ Reports
  BY DEF IInv, Runs
<1>1. /\ sending' = sending \ {s} /\ UNCHANGED <<deleted, watching, runs, starting, wire>>
      /\ s.job \in Jobs /\ status[s.job] # "none"
  BY <1>0 DEF SendFinished, Types, Begun
<1>2. s.run \in Nat /\ s.run # 0 /\ (Succeeded(s) => s.run \in wire[s.job][1])
  BY <1>0, <1>1 DEF Succeeded, RunsOnce, Reports, TakenIsOnWire
<1>3. s.job \notin watching => /\ \A q \in starting' : q.job # s.job
                              /\ \A t \in sending' : t.job # s.job
  BY <1>0, <1>1, LastRun
<1>4. CASE UNCHANGED <<status, messageId, dying, client>>
  BY <1>0, <1>1, <1>4, SameStep DEF Types
<1>5. CASE End(s.job, "Failed") /\ UNCHANGED messageId
  <2>1. "Failed" \in Ended
    BY DEF Ended
  <2> QED
    BY <1>1, <1>2, <1>3, <1>5, <2>1, EndStep
<1>6. CASE /\ Succeeded(s) /\ End(s.job, "Finished")
           /\ messageId' = [messageId EXCEPT ![s.job] = s.run]
  <2>1. "Finished" \in Ended
    BY DEF Ended
  <2> QED
    BY <1>1, <1>2, <1>3, <1>6, <2>1, EndStep
<1> QED
  BY <1>4, <1>5, <1>6 DEF SendFinished

LEMMA OtherStep ==
  ASSUME IInv, NEW j \in Jobs, Delete(j) \/ Listen(j) \/ Report(j)
  PROVE  IInv'
<1>0. Types /\ Reports
  BY DEF IInv, Runs
<1>1. CASE Delete(j)
  BY <1>1 DEF Delete, Doomed, IInv, Runs, Reports, Types, Wires, Begun, RunsOnce, OneRun, DyingEnded,
              FinishedIsNamed, TakenIsOnWire, SentWasTaken
<1>2. CASE Listen(j)
  <2>1. /\ client' \in [Jobs -> Clients]
        /\ \A k \in Jobs : client'[k] = "sent" => client[k] = "sent"
    BY <1>0, <1>2 DEF Listen, Types, Clients
  <2> QED
    BY <1>2, <2>1, SameStep DEF Listen, jobVars
<1>3. CASE Report(j)
  <2>1. PICK result \in {"failed", "sent"} :
           /\ client' = [client EXCEPT ![j] = result]
           /\ result = "sent" => status[j] = "Finished"
    BY <1>3 DEF Report
  <2>2. /\ client' \in [Jobs -> Clients]
        /\ \A k \in Jobs : client'[k] = "sent" => client[k] = "sent" \/ messageId[k] # 0
    BY <1>0, <2>1 DEF Types, Clients, Reports, FinishedIsNamed
  <2> QED
    BY <1>3, <2>2, SameStep DEF Report, jobVars
<1> QED
  BY <1>1, <1>2, <1>3

LEMMA StepHolds == IInv /\ [Next]_vars => IInv'
<1> SUFFICES ASSUME IInv, [Next]_vars PROVE IInv'
  OBVIOUS
<1>0. client \in [Jobs -> Clients]
  BY DEF IInv, Runs, Types
<1>1. CASE UNCHANGED vars
  BY <1>0, <1>1, SameStep DEF vars, jobVars
<1>2. ASSUME NEW a \in Accounts, ChannelChanged(a) PROVE IInv'
  BY <1>0, <1>2, SameStep DEF ChannelChanged, jobVars
<1> QED
  BY <1>1, <1>2, SendMessageStep, ConnectedChangedStep, ChatStartedStep, SendFinishedStep, OtherStep
  DEF Next

LEMMA Invariant == Spec => []IInv
BY InitHolds, StepHolds, PTL DEF Spec

\* The id a job shows is that of a message of which the CM took the first piece in
\* that run, though a job runs again and operations end in any order; and what the
\* user is told was sent, was (messagesendingjob.cpp:161-198).
THEOREM SentMessagesWereTaken == Spec => []SentWasTaken
<1>1. IInv => SentWasTaken
  BY DEF IInv, Reports
<1> QED
  BY <1>1, Invariant, PTL
-----------------------------------------------------------------------------
(* What the D-Bus objects of the jobs show obeys JobContract. *)

\* The runs a job has under way, of the one kind and the other.
LEMMA PendingRuns ==
  ASSUME NEW j \in Jobs, NEW n
  PROVE  n \in Pending(j) <=> \/ \E r \in starting : r.job = j /\ r.run = n
                              \/ \E s \in sending : s.job = j /\ s.run = n
BY DEF Pending

LEMMA PendingRunsNext ==
  ASSUME NEW j \in Jobs, NEW n
  PROVE  n \in Pending(j)' <=> \/ \E r \in starting' : r.job = j /\ r.run = n
                               \/ \E s \in sending' : s.job = j /\ s.run = n
BY DEF Pending

LEMMA InitRefines == Init => Contract!Init
<1> SUFFICES ASSUME Init, NEW j \in Jobs PROVE ContractJob(j) = Contract!Unborn
  BY DEF Contract!Init
<1>1. Pending(j) = {}
  BY PendingRuns DEF Init
<1> QED
  BY <1>1 DEF Init, ContractJob, Contract!Unborn

\* The contract of a system whose jobs each obey it.
LEMMA MovesRefine ==
  ASSUME \A j \in Jobs : Contract!Move(ContractJob(j), ContractJob(j)')
  PROVE  Contract!Next
BY DEF Contract!Next

LEMMA StayRefines ==
  ASSUME NEW j \in Jobs, status'[j] = status[j], messageId'[j] = messageId[j], runs'[j] = runs[j],
         Pending(j)' = Pending(j), j \in watching' <=> j \in watching,
         j \in deleted' <=> j \in deleted
  PROVE  Contract!Move(ContractJob(j), ContractJob(j)')
BY DEF Contract!Move, ContractJob

\* A job that looks for its channel begins a run.
LEMMA LookedRefines ==
  ASSUME IInv, NEW S \in SUBSET Jobs, NEW a, NEW st, NEW cl, FindOrCreateChannel(S, a, st, cl),
         NEW j \in Jobs
  PROVE  /\ j \notin S => runs'[j] = runs[j] /\ status'[j] = st[j] /\ Pending(j)' = Pending(j)
         /\ j \in S => /\ runs'[j] = runs[j] + 1
                       /\ \/ status'[j] \in {st[j], "Failed"} /\ Pending(j)' = Pending(j)
                          \/ status'[j] = st[j] /\ Pending(j)' = Pending(j) \cup {runs[j] + 1}
<1>0. Types /\ RunsOnce /\ Wires
  BY DEF IInv, Runs
<1>1. PICK failed \in SUBSET S, K \in SUBSET S, L \in SUBSET S :
         Looked(S, st, cl, failed, K, L)
  BY <1>0, FindStep
<1>2. /\ \A r \in starting' \ starting : r.job \in K /\ r.run = runs'[r.job]
      /\ \A k \in K : \E r \in starting' : r.job = k /\ r.run = runs'[k]
      /\ starting \subseteq starting'
  BY <1>0, <1>1, LookedRuns
<1>3. /\ \A s \in sending' \ sending : s.job \in L /\ s.run = runs'[s.job]
      /\ \A k \in L : \E s \in sending' : s.job = k /\ s.run = runs'[k]
      /\ sending \subseteq sending'
  BY <1>1 DEF Looked, Sends
<1>4. /\ runs'[j] = runs[j] + IF j \in S THEN 1 ELSE 0
      /\ status'[j] = IF j \in failed THEN "Failed" ELSE st[j]
      /\ (failed \cup L) \cap K = {} /\ failed \cap L = {}
  BY <1>1 DEF Looked
<1>5. runs[j] \in Nat
  BY <1>0 DEF Types
<1>6. CASE j \notin K \cup L
  <2>1. Pending(j)' = Pending(j)
    <3>1. ASSUME NEW n PROVE n \in Pending(j)' <=> n \in Pending(j)
      BY <1>2, <1>3, <1>6, PendingRuns, PendingRunsNext
    <3> QED
      BY <3>1
  <2> QED
    BY <1>4, <1>5, <1>6, <2>1
<1>7. CASE j \in K \cup L
  <2>1. j \in S /\ runs'[j] = runs[j] + 1 /\ status'[j] = st[j]
    BY <1>4, <1>7
  <2>2. Pending(j)' = Pending(j) \cup {runs[j] + 1}
    <3>1. ASSUME NEW n PROVE n \in Pending(j)' <=> n \in Pending(j) \/ n = runs[j] + 1
      BY <1>2, <1>3, <1>7, <2>1, PendingRuns, PendingRunsNext
    <3> QED
      BY <3>1
  <2> QED
    BY <2>1, <2>2
<1> QED
  BY <1>6, <1>7

\* A run of job j, and nothing else of it, is over.
LEMMA OverStep ==
  ASSUME IInv, NEW j \in Jobs,
         \/ \E r \in starting : r.job = j /\ starting' = starting \ {r} /\ sending' = sending
         \/ \E s \in sending : s.job = j /\ sending' = sending \ {s} /\ starting' = starting
  PROVE  /\ \E n \in Pending(j) : Pending(j)' = Pending(j) \ {n}
         /\ \A k \in Jobs \ {j} : Pending(k)' = Pending(k)
<1>0. RunsOnce
  BY DEF IInv, Runs
<1>1. ASSUME NEW k \in Jobs \ {j} PROVE Pending(k)' = Pending(k)
  <2>1. ASSUME NEW n PROVE n \in Pending(k)' <=> n \in Pending(k)
    BY PendingRuns, PendingRunsNext
  <2> QED
    BY <2>1
<1>2. CASE \E r \in starting : r.job = j /\ starting' = starting \ {r} /\ sending' = sending
  <2>1. PICK r \in starting : r.job = j /\ starting' = starting \ {r} /\ sending' = sending
    BY <1>2
  <2>2. r.run \in Pending(j)
    BY <2>1, PendingRuns
  <2>3. ASSUME NEW n PROVE n \in Pending(j)' <=> n \in Pending(j) /\ n # r.run
    BY <1>0, <2>1, PendingRuns, PendingRunsNext DEF RunsOnce
  <2>4. Pending(j)' = Pending(j) \ {r.run}
    BY <2>3
  <2> QED
    BY <1>1, <2>2, <2>4
<1>3. CASE \E s \in sending : s.job = j /\ sending' = sending \ {s} /\ starting' = starting
  <2>1. PICK s \in sending : s.job = j /\ sending' = sending \ {s} /\ starting' = starting
    BY <1>3
  <2>2. s.run \in Pending(j)
    BY <2>1, PendingRuns
  <2>3. ASSUME NEW n PROVE n \in Pending(j)' <=> n \in Pending(j) /\ n # s.run
    BY <1>0, <2>1, PendingRuns, PendingRunsNext DEF RunsOnce
  <2>4. Pending(j)' = Pending(j) \ {s.run}
    BY <2>3
  <2> QED
    BY <1>1, <2>2, <2>4
<1> QED
  BY <1>2, <1>3

\* The moves of a job of the contract, spelled out.
Job(s, i, g, p, w) == [status |-> s, messageId |-> i, begun |-> g, pending |-> p, life |-> w]

LEMMA LoseMove ==
  ASSUME NEW s, NEW i, NEW g, NEW p, NEW w, NEW n \in p
  PROVE  Contract!Move(Job(s, i, g, p, w), Job(s, i, g, p \ {n}, w))
<1> DEFINE a == Job(s, i, g, p, w)
           b == Job(s, i, g, p \ {n}, w)
<1>1. a.pending = p /\ b = [a EXCEPT !.pending = p \ {n}]
  BY DEF Job
<1> HIDE DEF a, b
<1>2. Contract!Move(a, b)
  BY <1>1 DEF Contract!Move, Contract!Lose
<1> QED
  BY <1>2 DEF a, b

LEMMA EndMove ==
  ASSUME NEW s, NEW i, NEW g, NEW p, NEW w, NEW n \in p,
         w # "deleted", s \in Ended => w = "patient"
  PROVE  /\ Contract!Move(Job(s, i, g, p, w), Job("Failed", i, g, p \ {n}, w))
         /\ Contract!Move(Job(s, i, g, p, w), Job("Finished", n, g, p \ {n}, w))
<1> DEFINE a == Job(s, i, g, p, w)
           ended == Job(s, i, g, p \ {n}, w)
           named == Job(s, n, g, p \ {n}, w)
           b == Job("Failed", i, g, p \ {n}, w)
           c == Job("Finished", n, g, p \ {n}, w)
<1>1. /\ a.pending = p /\ a.status = s /\ a.life = w
      /\ ended = [a EXCEPT !.pending = p \ {n}] /\ named = [ended EXCEPT !.messageId = n]
      /\ b = [ended EXCEPT !.status = "Failed"] /\ c = [named EXCEPT !.status = "Finished"]
  BY DEF Job
<1> HIDE DEF a, b, c, ended, named
<1>2. Contract!End(a, b) /\ Contract!End(a, c)
  BY <1>1 DEF Contract!End, Contract!IsFinished, Ended
<1> QED
  BY <1>2 DEF a, b, c, Contract!Move

LEMMA RunMove ==
  ASSUME NEW s, NEW i, NEW g, NEW p, NEW w
  PROVE  /\ Contract!Run(Job(s, i, g, p, w), Job(s, i, g + 1, p, w))
         /\ Contract!Run(Job(s, i, g, p, w), Job("Failed", i, g + 1, p, w))
         /\ Contract!Run(Job(s, i, g, p, w), Job(s, i, g + 1, p \cup {g + 1}, w))
<1> DEFINE a == Job(s, i, g, p, w)
           b == Job(s, i, g + 1, p, w)
           c == Job("Failed", i, g + 1, p, w)
           d == Job(s, i, g + 1, p \cup {g + 1}, w)
<1>1. /\ a.pending = p /\ a.begun = g /\ b = [a EXCEPT !.begun = g + 1]
      /\ c = [b EXCEPT !.status = "Failed"] /\ d = [b EXCEPT !.pending = p \cup {g + 1}]
  BY DEF Job
<1> HIDE DEF a, b, c, d
<1>2. Contract!Run(a, b) /\ Contract!Run(a, c) /\ Contract!Run(a, d)
  BY <1>1 DEF Contract!Run
<1> QED
  BY <1>2 DEF a, b, c, d

LEMMA StartMove ==
  ASSUME NEW i, NEW g, NEW p, NEW w, NEW b,
         \/ b = Job("Failed", i, g, p, w)
         \/ b = Job("Running", i, g, p, "patient")
         \/ Contract!Run(Job("Running", i, g, p, w), b)
  PROVE  Contract!Move(Job("none", i, g, p, w), b)
<1> DEFINE a == Job("none", i, g, p, w)
           running == Job("Running", i, g, p, w)
           failed == Job("Failed", i, g, p, w)
           waiting == Job("Running", i, g, p, "patient")
<1>1. /\ a.status = "none" /\ running = [a EXCEPT !.status = "Running"]
      /\ failed = [a EXCEPT !.status = "Failed"]
      /\ waiting = [running EXCEPT !.life = "patient"]
  BY DEF Job
<1>2. b = failed \/ b = waiting \/ Contract!Run(running, b)
  OBVIOUS
<1> HIDE DEF a, running, failed, waiting
<1>3. Contract!Start(a, b)
  BY <1>1, <1>2 DEF Contract!Start
<1> QED
  BY <1>3 DEF a, Contract!Move

LEMMA DeleteMove ==
  ASSUME NEW s \in Ended, NEW i, NEW g, NEW p, NEW w
  PROVE  Contract!Move(Job(s, i, g, p, w), Job(s, i, g, p, "deleted"))
<1> DEFINE a == Job(s, i, g, p, w)
           b == Job(s, i, g, p, "deleted")
<1>1. a.status = s /\ b = [a EXCEPT !.life = "deleted"]
  BY DEF Job
<1> HIDE DEF a, b
<1>2. Contract!Delete(a, b)
  BY <1>1 DEF Contract!Delete, Contract!IsFinished, Ended
<1> QED
  BY <1>2 DEF a, b, Contract!Move

\* The life of job j, as the contract has it.
Life(j) == IF j \in deleted THEN "deleted" ELSE IF j \in watching THEN "patient" ELSE "single"

LEMMA JobNow ==
  ASSUME NEW j \in Jobs
  PROVE  /\ ContractJob(j) = Job(status[j], messageId[j], runs[j], Pending(j), Life(j))
         /\ ContractJob(j)' = Job(status'[j], messageId'[j], runs'[j], Pending(j)', Life(j)')
BY DEF ContractJob, Job, Life

\* A job that looks for its channel, and one that does not.
LEMMA LookMoves ==
  ASSUME NEW j \in Jobs, NEW st, runs'[j] = runs[j] + 1,
         \/ status'[j] \in {st, "Failed"} /\ Pending(j)' = Pending(j)
         \/ status'[j] = st /\ Pending(j)' = Pending(j) \cup {runs[j] + 1},
         messageId'[j] = messageId[j], Life(j)' = Life(j)
  PROVE  Contract!Run(Job(st, messageId[j], runs[j], Pending(j), Life(j)), ContractJob(j)')
<1>1. ContractJob(j)' = Job(status'[j], messageId[j], runs[j] + 1, Pending(j)', Life(j))
  BY JobNow
<1> DEFINE begins(b) == Contract!Run(Job(st, messageId[j], runs[j], Pending(j), Life(j)), b)
<1>2. /\ begins(Job(st, messageId[j], runs[j] + 1, Pending(j), Life(j)))
      /\ begins(Job("Failed", messageId[j], runs[j] + 1, Pending(j), Life(j)))
      /\ begins(Job(st, messageId[j], runs[j] + 1, Pending(j) \cup {runs[j] + 1}, Life(j)))
  BY RunMove
<1> HIDE DEF begins
<1>3. begins(ContractJob(j)')
  BY <1>1, <1>2
<1> QED
  BY <1>3 DEF begins

LEMMA ConnectedRefines ==
  ASSUME IInv, NEW a \in Accounts, ConnectedChanged(a), ~crashed
  PROVE  Contract!Next
<1>0. Types
  BY DEF IInv, Runs
<1> SUFFICES ASSUME NEW j \in Jobs PROVE Contract!Move(ContractJob(j), ContractJob(j)')
  BY MovesRefine
<1>1. CASE UNCHANGED jobVars
  BY <1>1, StayRefines DEF jobVars, Pending
<1>2. CASE /\ Waiting(a) \cap deleted = {}
           /\ FindOrCreateChannel(Waiting(a), a, status, client)
           /\ UNCHANGED <<messageId, deleted, watching>>
  <2>1. Waiting(a) \in SUBSET Jobs /\ Waiting(a) \subseteq watching
    BY <1>0 DEF Waiting, Types
  <2> DEFINE S == Waiting(a)
  <2>2. /\ j \notin S => runs'[j] = runs[j] /\ status'[j] = status[j] /\ Pending(j)' = Pending(j)
        /\ j \in S => /\ runs'[j] = runs[j] + 1
                      /\ \/ status'[j] \in {status[j], "Failed"} /\ Pending(j)' = Pending(j)
                         \/ /\ status'[j] = status[j]
                            /\ Pending(j)' = Pending(j) \cup {runs[j] + 1}
    <3> HIDE DEF S
    <3> QED
      BY <1>2, <2>1, LookedRefines DEF S
  <2>3. CASE j \notin S
    BY <1>2, <2>2, <2>3, StayRefines
  <2>4. CASE j \in S
    <3>1. Life(j) = "patient" /\ Life(j)' = Life(j)
      BY <1>2, <2>1, <2>4 DEF Life
    <3>2. Contract!Run(Job(status[j], messageId[j], runs[j], Pending(j), Life(j)), ContractJob(j)')
      BY <1>2, <2>2, <2>4, <3>1, LookMoves
    <3>3. ContractJob(j).life = "patient"
      BY <3>1, JobNow DEF Job
    <3> QED
      BY <3>2, <3>3, JobNow DEF Contract!Move, Contract!RunAgain
  <2> QED
    BY <2>3, <2>4
<1> QED
  BY <1>1, <1>2 DEF ConnectedChanged

LEMMA SendMessageRefines ==
  ASSUME IInv, NEW i \in Jobs, SendMessage(i)
  PROVE  Contract!Next
<1>0. Types /\ Begun /\ Reports
  BY DEF IInv, Runs
<1> SUFFICES ASSUME NEW j \in Jobs PROVE Contract!Move(ContractJob(j), ContractJob(j)')
  BY MovesRefine
<1>1. PICK m \in Messages[i] : SendToNowhere(i, m) \/ SendLater(i, m) \/ SendNow(i, m)
  BY DEF SendMessage
<1>2. status[i] = "none" /\ UNCHANGED <<messageId, deleted>> /\ i \notin watching /\ i \notin deleted
  BY <1>0 DEF SendMessage, Begun, Reports, DyingEnded
<1>3. Life(i) = "single" /\ ContractJob(i) = Job("none", messageId[i], runs[i], Pending(i), Life(i))
  BY <1>2, JobNow DEF Life
<1>4. CASE SendToNowhere(i, m)
  <2>1. /\ status' = [status EXCEPT ![i] = "Failed"]
        /\ UNCHANGED <<watching, runs, starting, sending>>
    BY <1>4 DEF SendToNowhere
  <2>2. \A k \in Jobs : Pending(k)' = Pending(k)
    BY <2>1 DEF Pending
  <2>3. CASE j # i
    BY <1>0, <1>2, <2>1, <2>2, <2>3, StayRefines DEF Types
  <2>4. CASE j = i
    <3>1. ContractJob(j)' = Job("Failed", messageId[j], runs[j], Pending(j), Life(j))
      BY <1>0, <1>2, <2>1, <2>2, <2>4, JobNow DEF Types, Life
    <3> QED
      BY <1>3, <2>4, <3>1, StartMove
  <2> QED
    BY <2>3, <2>4
<1>5. CASE SendLater(i, m)
  <2>1. /\ status' = [status EXCEPT ![i] = "Running"] /\ watching' = watching \cup {i}
        /\ UNCHANGED <<runs, starting, sending>>
    BY <1>5 DEF SendLater
  <2>2. \A k \in Jobs : Pending(k)' = Pending(k)
    BY <2>1 DEF Pending
  <2>3. CASE j # i
    BY <1>0, <1>2, <2>1, <2>2, <2>3, StayRefines DEF Types
  <2>4. CASE j = i
    <3>1. Life(j)' = "patient"
      BY <1>2, <2>1, <2>4 DEF Life
    <3>2. ContractJob(j)' = Job("Running", messageId[j], runs[j], Pending(j), "patient")
      BY <1>0, <1>2, <2>1, <2>2, <2>4, <3>1, JobNow DEF Types
    <3> QED
      BY <1>3, <2>4, <3>2, StartMove
  <2> QED
    BY <2>3, <2>4
<1>6. CASE SendNow(i, m)
  <2> DEFINE st == [status EXCEPT ![i] = "Running"]
             cl == [client EXCEPT ![i] = "calling"]
  <2>1. FindOrCreateChannel({i}, Chosen(m), st, cl) /\ watching' = watching
    BY <1>6 DEF SendNow
  <2>2. st[i] = "Running" /\ (j # i => st[j] = status[j]) /\ {i} \in SUBSET Jobs
    BY <1>0 DEF Types
  <2> HIDE DEF st, cl
  <2>3. /\ j \notin {i} => runs'[j] = runs[j] /\ status'[j] = st[j] /\ Pending(j)' = Pending(j)
        /\ j \in {i} => /\ runs'[j] = runs[j] + 1
                        /\ \/ status'[j] \in {st[j], "Failed"} /\ Pending(j)' = Pending(j)
                           \/ /\ status'[j] = st[j]
                              /\ Pending(j)' = Pending(j) \cup {runs[j] + 1}
    BY <2>1, <2>2, LookedRefines
  <2>4. CASE j # i
    BY <1>2, <2>1, <2>2, <2>3, <2>4, StayRefines
  <2>5. CASE j = i
    <3>1. Life(j)' = Life(j)
      BY <1>2, <2>1 DEF Life
    <3>2. Contract!Run(Job("Running", messageId[j], runs[j], Pending(j), Life(j)), ContractJob(j)')
      BY <1>2, <2>2, <2>3, <2>5, <3>1, LookMoves
    <3> QED
      BY <1>3, <2>5, <3>2, StartMove
  <2> QED
    BY <2>4, <2>5
<1> QED
  BY <1>1, <1>4, <1>5, <1>6

\* Run n of job j is over, and nothing else changes but the result of j.
LEMMA OverRefines ==
  ASSUME IInv, NEW j \in Jobs, NEW n \in Pending(j), Pending(j)' = Pending(j) \ {n},
         \A k \in Jobs \ {j} : Pending(k)' = Pending(k),
         UNCHANGED <<runs, watching, deleted>>,
         \/ UNCHANGED <<status, messageId>>
         \/ /\ j \notin deleted /\ (status[j] \in Ended => j \in watching)
            /\ \/ status' = [status EXCEPT ![j] = "Failed"] /\ UNCHANGED messageId
               \/ /\ status' = [status EXCEPT ![j] = "Finished"]
                  /\ messageId' = [messageId EXCEPT ![j] = n]
  PROVE  Contract!Next
<1>0. Types
  BY DEF IInv, Runs
<1> SUFFICES ASSUME NEW k \in Jobs PROVE Contract!Move(ContractJob(k), ContractJob(k)')
  BY MovesRefine
<1>1. CASE k # j
  BY <1>0, <1>1, StayRefines DEF Types
<1>2. CASE k = j
  <2>1. ContractJob(j) = Job(status[j], messageId[j], runs[j], Pending(j), Life(j))
    BY JobNow
  <2>2. ContractJob(j)' = Job(status'[j], messageId'[j], runs[j], Pending(j) \ {n}, Life(j))
    BY JobNow DEF Life
  <2>3. CASE UNCHANGED <<status, messageId>>
    BY <1>2, <2>1, <2>2, <2>3, LoseMove
  <2>4. CASE j \notin deleted /\ (status[j] \in Ended => j \in watching)
    <3>1. Life(j) # "deleted" /\ (status[j] \in Ended => Life(j) = "patient")
      BY <2>4 DEF Life
    <3>2. /\ Contract!Move(ContractJob(j), Job("Failed", messageId[j], runs[j], Pending(j) \ {n}, Life(j)))
          /\ Contract!Move(ContractJob(j), Job("Finished", n, runs[j], Pending(j) \ {n}, Life(j)))
      BY <2>1, <3>1, EndMove
    <3>3. CASE status' = [status EXCEPT ![j] = "Failed"] /\ UNCHANGED messageId
      BY <1>0, <1>2, <2>2, <3>2, <3>3 DEF Types
    <3>4. CASE /\ status' = [status EXCEPT ![j] = "Finished"]
               /\ messageId' = [messageId EXCEPT ![j] = n]
      BY <1>0, <1>2, <2>2, <3>2, <3>4 DEF Types
    <3> QED
      BY <2>3, <1>2, <3>3, <3>4
  <2> QED
    BY <2>3, <2>4
<1> QED
  BY <1>1, <1>2

LEMMA ChatStartedRefines ==
  ASSUME IInv, NEW r \in starting, ChatStarted(r)
  PROVE  Contract!Next
<1>0. Types /\ RunsOnce /\ OneRun /\ Wires
  BY DEF IInv, Runs
<1>1. /\ starting' = starting \ {r} /\ UNCHANGED <<messageId, deleted, watching, runs>>
      /\ r.job \in Jobs
  BY <1>0 DEF ChatStarted, StillStarting, Types
<1> DEFINE j == r.job
<1>2. ASSUME sending' = sending
      PROVE  \E n \in Pending(j) : /\ Pending(j)' = Pending(j) \ {n}
                                   /\ \A k \in Jobs \ {j} : Pending(k)' = Pending(k)
  BY <1>1, <1>2, OverStep
<1>3. CASE UNCHANGED <<status, sending>>
  BY <1>1, <1>2, <1>3, OverRefines
<1>4. CASE r.job \notin deleted /\ ChatFailed(r.job) /\ UNCHANGED sending
  <2>1. status[j] \in Ended => j \in watching
    BY <1>0, <1>1 DEF OneRun
  <2>2. status' = [status EXCEPT ![j] = "Failed"]
    BY <1>4 DEF ChatFailed, End
  <2> HIDE DEF j
  <2>3. j \in Jobs /\ j \notin deleted
    BY <1>1, <1>4 DEF j
  <2> QED
    BY <1>1, <1>2, <1>4, <2>1, <2>2, <2>3, OverRefines
<1>5. CASE /\ Send({r.job}, account[r.job], [runs EXCEPT ![r.job] = r.run])
           /\ UNCHANGED status
  <2> DEFINE run == [runs EXCEPT ![j] = r.run]
  <2>1. PICK L \in SUBSET {j} : Sends(L, run)
    BY <1>0, <1>1, <1>5, SendStep
  <2>2. run[j] = r.run
    BY <1>0, <1>1 DEF Types
  <2>3. /\ sending \subseteq sending'
        /\ \A s \in sending' \ sending : s.job = j /\ s.run = r.run
        /\ L # {} => \E s \in sending' : s.job = j /\ s.run = r.run
        /\ L = {} => sending' = sending
    BY <2>1, <2>2 DEF Sends
  <2>4. CASE L = {}
    BY <1>3, <1>5, <2>3, <2>4
  <2>5. CASE L # {}
    <3> SUFFICES ASSUME NEW k \in Jobs PROVE Contract!Move(ContractJob(k), ContractJob(k)')
      BY MovesRefine
    <3>1. ASSUME NEW n PROVE n \in Pending(k)' <=> n \in Pending(k)
      BY <1>0, <1>1, <2>3, <2>5, PendingRuns, PendingRunsNext DEF RunsOnce
    <3>2. Pending(k)' = Pending(k)
      BY <3>1
    <3> QED
      BY <1>1, <1>5, <3>2, StayRefines
  <2> QED
    BY <2>4, <2>5
<1> QED
  BY <1>3, <1>4, <1>5 DEF ChatStarted

LEMMA SendFinishedRefines ==
  ASSUME IInv, NEW s \in sending, SendFinished(s)
  PROVE  Contract!Next
<1>0. Types /\ RunsOnce /\ OneRun
  BY DEF IInv, Runs
<1>1. /\ sending' = sending \ {s} /\ UNCHANGED <<deleted, watching, runs, starting>>
      /\ s.job \in Jobs
  BY <1>0 DEF SendFinished, Types
<1>2. status[s.job] \in Ended => s.job \in watching
  BY <1>0, <1>1 DEF OneRun
<1>3. /\ Pending(s.job)' = Pending(s.job) \ {s.run} /\ s.run \in Pending(s.job)
      /\ \A k \in Jobs \ {s.job} : Pending(k)' = Pending(k)
  <2>1. ASSUME NEW n
        PROVE  n \in Pending(s.job)' <=> n \in Pending(s.job) /\ n # s.run
    BY <1>0, <1>1, PendingRuns, PendingRunsNext DEF RunsOnce
  <2>2. Pending(s.job)' = Pending(s.job) \ {s.run}
    BY <2>1
  <2>3. ASSUME NEW k \in Jobs \ {s.job} PROVE Pending(k)' = Pending(k)
    <3>1. ASSUME NEW n PROVE n \in Pending(k)' <=> n \in Pending(k)
      BY <1>1, PendingRuns, PendingRunsNext
    <3> QED
      BY <3>1
  <2>4. s.run \in Pending(s.job)
    BY <1>1, PendingRuns
  <2> QED
    BY <2>2, <2>3, <2>4
<1>4. \/ UNCHANGED <<status, messageId>>
      \/ /\ s.job \notin deleted
         /\ \/ status' = [status EXCEPT ![s.job] = "Failed"] /\ UNCHANGED messageId
            \/ /\ status' = [status EXCEPT ![s.job] = "Finished"]
               /\ messageId' = [messageId EXCEPT ![s.job] = s.run]
  BY DEF SendFinished, End
<1> QED
  BY <1>1, <1>2, <1>3, <1>4, OverRefines

LEMMA DeleteRefines ==
  ASSUME IInv, NEW i \in Jobs, Delete(i)
  PROVE  Contract!Next
<1> SUFFICES ASSUME NEW j \in Jobs PROVE Contract!Move(ContractJob(j), ContractJob(j)')
  BY MovesRefine
<1>1. /\ deleted' = deleted \cup {i} /\ status[i] \in Ended
      /\ UNCHANGED <<status, messageId, runs, watching, starting, sending>>
  BY DEF Delete, Doomed, IInv, Reports, DyingEnded
<1>2. Pending(j)' = Pending(j)
  BY <1>1 DEF Pending
<1>3. CASE j # i
  BY <1>1, <1>2, <1>3, StayRefines
<1>4. CASE j = i
  <2>1. ContractJob(j)' = Job(status[j], messageId[j], runs[j], Pending(j), "deleted")
    BY <1>1, <1>2, <1>4, JobNow DEF Life
  <2>2. ContractJob(j) = Job(status[j], messageId[j], runs[j], Pending(j), Life(j))
    BY JobNow
  <2> QED
    BY <1>1, <1>4, <2>1, <2>2, DeleteMove
<1> QED
  BY <1>3, <1>4

LEMMA StepRefines ==
  IInv /\ [Next]_vars => Contract!Next \/ UNCHANGED [j \in Jobs |-> ContractJob(j)]
<1> SUFFICES ASSUME IInv, [Next]_vars
             PROVE  Contract!Next \/ UNCHANGED [j \in Jobs |-> ContractJob(j)]
  OBVIOUS
<1>1. CASE UNCHANGED jobVars
  <2>1. Contract!Next
    BY <1>1, MovesRefine, StayRefines DEF jobVars, Pending
  <2> QED
    BY <2>1
<1>2. ASSUME NEW j \in Jobs, Listen(j) \/ Report(j) PROVE UNCHANGED jobVars
  BY <1>2 DEF Listen, Report
<1>3. ASSUME NEW a \in Accounts, ChannelChanged(a) PROVE UNCHANGED jobVars
  BY <1>3 DEF ChannelChanged
<1>4. UNCHANGED vars => UNCHANGED jobVars
  BY DEF vars
<1> QED
  BY <1>1, <1>2, <1>3, <1>4, SendMessageRefines, DeleteRefines, ConnectedRefines,
     ChatStartedRefines, SendFinishedRefines DEF Next

\* What a client reads of a job obeys JobContract, for any jobs and accounts: a job
\* that found its account connected ends once, and keeps its status and message id;
\* one that waited ends at most once for each time the account connects
\* (messagesendingjob.cpp:124-198).
THEOREM JobsMeetContract == Spec => MeetsContract
<1>1. Init => Contract!Init
  BY InitRefines
<1>2. IInv /\ [Next]_vars => [Contract!Next]_([j \in Jobs |-> ContractJob(j)])
  BY StepRefines
<1> QED
  BY <1>1, <1>2, Invariant, PTL DEF Spec, MeetsContract, Contract!Spec

\* The result of a job that found its account connected is final: no answer that
\* comes later, no reconnection and no deletion changes its status or message id.
THEOREM ResultsAreKept == Spec => ResultIsKept
<1>1. IInv /\ [Next]_vars => [\A j \in Jobs \ watching : status[j] \in Ended =>
                                 status'[j] = status[j] /\ messageId'[j] = messageId[j]]_vars
  <2> SUFFICES ASSUME IInv, Next, NEW j \in Jobs \ watching, status[j] \in Ended
               PROVE  status'[j] = status[j] /\ messageId'[j] = messageId[j]
    OBVIOUS
  <2>0. Types /\ OneRun /\ Begun
    BY DEF IInv, Runs
  <2>1. (\A r \in starting : r.job # j) /\ (\A s \in sending : s.job # j)
    BY <2>0 DEF OneRun
  <2>2. ASSUME NEW i \in Jobs, SendMessage(i)
        PROVE  status'[j] = status[j] /\ messageId'[j] = messageId[j]
    <3>1. status[i] = "none" /\ i # j /\ messageId' = messageId
      BY <2>2 DEF SendMessage, Ended
    <3>2. PICK m \in Messages[i] : SendToNowhere(i, m) \/ SendLater(i, m) \/ SendNow(i, m)
      BY <2>2 DEF SendMessage
    <3>3. CASE SendNow(i, m)
      BY <2>0, <3>1, <3>3 DEF SendNow, FindOrCreateChannel, StartFails, Looking, Types
    <3> QED
      BY <2>0, <3>1, <3>2, <3>3 DEF SendToNowhere, SendLater, Types
  <2>3. ASSUME NEW a \in Accounts, ConnectedChanged(a)
        PROVE  status'[j] = status[j] /\ messageId'[j] = messageId[j]
    BY <2>0, <2>3
       DEF ConnectedChanged, Waiting, FindOrCreateChannel, StartFails, Looking, jobVars, Types
  <2>4. ASSUME NEW r \in starting, ChatStarted(r)
        PROVE  status'[j] = status[j] /\ messageId'[j] = messageId[j]
    BY <2>0, <2>1, <2>4 DEF ChatStarted, ChatFailed, End, Types
  <2>5. ASSUME NEW s \in sending, SendFinished(s)
        PROVE  status'[j] = status[j] /\ messageId'[j] = messageId[j]
    BY <2>0, <2>1, <2>5 DEF SendFinished, End, Types
  <2> QED
    BY <2>2, <2>3, <2>4, <2>5 DEF Next, Delete, Listen, Report, ChannelChanged, jobVars
<1> QED
  BY <1>1, Invariant, PTL DEF Spec, ResultIsKept, Ended
=============================================================================
