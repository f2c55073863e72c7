----------------------------- MODULE MessageJobs -----------------------------
(***************************************************************************)
(* Sending text messages: the MessageSendingJob and the ChatStartingJob of *)
(* the handler (src/handler/messagesendingjob.cpp, chatstartingjob.cpp),   *)
(* the channels of TextHandler they use, and the client that waits for the *)
(* end of a job (ChatEntry::sendMessage, src/libtelephonyservice).         *)
(*                                                                         *)
(* All jobs address the same chat; it has at most one channel per account. *)
(* A job that was deleted still is the "this" of every lambda it left on   *)
(* an account or on an operation: using it ends the process.               *)
(***************************************************************************)
EXTENDS Naturals, Sequences, FiniteSets

CONSTANTS
  Jobs,         \* messages the user sends
  Accounts,
  Messages,     \* what the user may ask of each job: the account, None when
                \* there is no such account, and the kind of chat
  Overloads,    \* checkAccountOverload(): the accounts that may take over, in order
  PhoneAccounts,\* the accounts that send multipart messages
  Parts,        \* the number of parts of each message after its header
  MaxRuns,      \* bound: times each job looks for its channel
  None

\* A chat with contacts, a chat room (which is not overloaded), a chat without
\* participants, and one of an unsupported chat type.
Kind == {"chat", "room", "nobody", "other"}
Message == [account : Accounts \cup {None}, kind : Kind]

ASSUME MessageJobsAssumption ==
  /\ Messages \in [Jobs -> SUBSET Message]
  /\ None \notin Accounts
  /\ Overloads \in [Accounts -> Seq(Accounts)]
  /\ PhoneAccounts \subseteq Accounts
  /\ Parts \in [Jobs -> Nat]
  /\ MaxRuns \in [Jobs -> Nat \ {0}]

VARIABLES
  status,      \* of each job, "none" before it is created
  messageId,   \* the run whose first piece has the id of the job, 0 without one
  deleted,     \* the jobs whose object was removed from the bus
  mMessage,    \* the message of each job, None before it is created
  account,     \* mAccount of each job
  connected,   \* the accounts that are connected
  mChannels,   \* the accounts on which TextHandler has a channel to the chat
  watching,    \* jobs whose lambda is connected to connectedChanged()
  runs,        \* times each job called findOrCreateChannel()
  starting,    \* channel requests of ChatStartingJobs under way
  sending,     \* send operations under way whose end the job waits for
  wire,        \* the runs of each message of which the CM took each piece
  dying,       \* jobs with a scheduled deletion
  client,      \* what the sender of each message knows
  crashed      \* a deleted job was used

jobVars == <<status, messageId, deleted, mMessage, account, watching, runs, starting, sending, dying>>
vars == <<jobVars, connected, mChannels, wire, client, crashed>>

Request == UNION {[job : {j}, run : 1..MaxRuns[j]] : j \in Jobs}
SendOp  == UNION {[job : {j}, run : 1..MaxRuns[j], taken : BOOLEAN] : j \in Jobs}

\* The pieces a message is sent in on account a: at once, or one send operation
\* for each part (canSendMultiPartMessages()).
Pieces(j, a) == IF a \in PhoneAccounts THEN 1 ELSE Parts[j]
MaxPieces(j) == IF Parts[j] > 1 THEN Parts[j] ELSE 1

TypeOK ==
  /\ status \in [Jobs -> {"none", "Running", "Finished", "Failed"}]
  /\ \A j \in Jobs : messageId[j] \in 0..MaxRuns[j]
  /\ deleted \in SUBSET Jobs
  /\ mMessage \in [Jobs -> Message \cup {None}]
  /\ account \in [Jobs -> Accounts \cup {None}]
  /\ connected \in SUBSET Accounts /\ mChannels \in SUBSET Accounts
  /\ watching \in SUBSET Jobs
  /\ \A j \in Jobs : runs[j] \in 0..MaxRuns[j]
  /\ starting \in SUBSET Request
  /\ sending \in SUBSET SendOp
  /\ \A j \in Jobs : wire[j] \in [1..MaxPieces(j) -> SUBSET (1..MaxRuns[j])]
  /\ dying \in SUBSET Jobs
  /\ client \in [Jobs -> {"idle", "calling", "listening", "told", "sent", "failed"}]
  /\ crashed \in BOOLEAN

Init ==
  /\ status = [j \in Jobs |-> "none"]
  /\ messageId = [j \in Jobs |-> 0] /\ deleted = {}
  /\ mMessage = [j \in Jobs |-> None]
  /\ account = [j \in Jobs |-> None]
  /\ connected \in SUBSET Accounts
  /\ mChannels \in SUBSET connected
  /\ watching = {} /\ starting = {} /\ sending = {} /\ dying = {}
  /\ runs = [j \in Jobs |-> 0]
  /\ wire = [j \in Jobs |-> [p \in 1..MaxPieces(j) |-> {}]]
  /\ client = [j \in Jobs |-> "idle"]
  /\ crashed = FALSE
-----------------------------------------------------------------------------
(* Steps of a job *)

\* The clients cl after the jobs S emitted finished(): those that listen hear it.
Told(S, cl) == [j \in Jobs |-> IF j \in S /\ cl[j] = "listening" THEN "told" ELSE cl[j]]

\* sendMessage() of the jobs S, each in its given run, on account a: the CM takes some of the pieces,
\* none when the channel is closed. The job waits for the
\* first piece only, and for ever if there is none.
Send(S, a, run) ==
  \E taken \in [S -> SUBSET UNION {DOMAIN wire[j] : j \in S}] :
    /\ \A j \in S : taken[j] \subseteq IF a \in mChannels THEN 1..Pieces(j, a) ELSE {}
    /\ wire' = [j \in Jobs |->
                  IF j \in S THEN [p \in DOMAIN wire[j] |->
                                     wire[j][p] \cup {n \in {run[j]} : p \in taken[j]}]
                             ELSE wire[j]]
    /\ sending' = sending \cup
         {[job |-> j, run |-> run[j], taken |-> 1 \in taken[j]] :
            j \in {k \in S : Pieces(k, a) > 0}}

\* The status of the jobs S when they look for their channel.
Looking(S, st) == st

\* The jobs of S that find the channel of account a to their chat.
Found(S, a) == IF a \in mChannels THEN {j \in S : mMessage'[j].kind \in {"chat", "room"}} ELSE {}

\* The jobs of S whose ChatStartingJob fails at once (startTextChat()).
StartFails(S) == {j \in S : mMessage'[j].kind = "nobody"}

\* findOrCreateChannel() of the jobs S, whose account a is connected, with
\* statuses st and clients cl. The jobs use the channel TextHandler knows; else
\* each starts a ChatStartingJob, which requests a channel, or does nothing
\* when the chat type is not supported.
FindOrCreateChannel(S, a, st, cl) ==
  LET failed == StartFails(S \ Found(S, a)) IN
  /\ \A j \in S : runs[j] < MaxRuns[j]
  /\ runs' = [j \in Jobs |-> runs[j] + IF j \in S THEN 1 ELSE 0]
  /\ Send(Found(S, a), a, runs')
  /\ starting' = starting \cup
       {[job |-> j, run |-> runs'[j]] :
          j \in {k \in S \ Found(S, a) : mMessage'[k].kind \in {"chat", "room"}}}
  /\ status' = [j \in Jobs |-> IF j \in failed THEN "Failed" ELSE Looking(S, st)[j]]
  /\ dying' = dying \cup failed
  /\ client' = Told(failed, cl)

\* The account that sends message m: the first connected one of those that
\* overload its account, or that account.
Chosen(m) ==
  LET C == {i \in DOMAIN Overloads[m.account] : Overloads[m.account][i] \in connected}
  IN IF m.kind = "room" \/ C = {} THEN m.account
     ELSE Overloads[m.account][CHOOSE i \in C : \A k \in C : i <= k]
-----------------------------------------------------------------------------
(* Actions *)

\* TextHandler::sendMessage() and MessageSendingJob::startJob(), for a client
\* that blocks in the D-Bus call: there is no such account,
SendToNowhere(j, m) ==
  /\ m.account = None
  /\ status' = [status EXCEPT ![j] = "Failed"]
  /\ dying' = dying \cup {j}
  /\ client' = [client EXCEPT ![j] = "calling"]
  /\ UNCHANGED <<account, watching, runs, starting, sending, wire>>

\* or the account that sends is not connected yet,
SendLater(j, m) ==
  /\ m.account # None /\ Chosen(m) \notin connected
  /\ account' = [account EXCEPT ![j] = Chosen(m)]
  /\ watching' = watching \cup {j}
  /\ status' = [status EXCEPT ![j] = "Running"]
  /\ client' = [client EXCEPT ![j] = "calling"]
  /\ UNCHANGED <<runs, starting, sending, wire, dying>>

\* or it is.
SendNow(j, m) ==
  /\ m.account # None /\ Chosen(m) \in connected
  /\ account' = [account EXCEPT ![j] = Chosen(m)]
  /\ FindOrCreateChannel({j}, Chosen(m), [status EXCEPT ![j] = "Running"],
                         [client EXCEPT ![j] = "calling"])
  /\ UNCHANGED watching

SendMessage(j) ==
  /\ status[j] = "none"
  /\ \E m \in Messages[j] :
       /\ mMessage' = [mMessage EXCEPT ![j] = m]
       /\ SendToNowhere(j, m) \/ SendLater(j, m) \/ SendNow(j, m)
  /\ UNCHANGED <<messageId, deleted, connected, mChannels, crashed>>

\* Seeded bug: every job watches its account, not only those that had to wait.
Waiting_Any(a) == {j \in Jobs : account[j] = a}

\* The jobs whose lambda is called when account a is connected.
Waiting(a) == {j \in watching : account[j] = a}

\* connectedChanged() of account a, which comes when the connection or its
\* status changes and also with every change of the presence of the user
\* (AccountEntry::watchSelfContactPresence()). The lambdas of the jobs that
\* found the account disconnected are connected for as long as the account
\* lives, those of jobs already deleted too.
ConnectedChanged(a) ==
  LET W == Waiting(a) IN
  /\ \/ connected' = connected /\ a \in connected /\ UNCHANGED mChannels
     \/ connected' = connected \cup {a} /\ UNCHANGED mChannels
     \/ connected' = connected \ {a} /\ a \in connected /\ mChannels' = mChannels \ {a}
  /\ UNCHANGED mMessage
  /\ IF a \notin connected' \/ W = {}
     THEN UNCHANGED <<jobVars, wire, client, crashed>>
     ELSE IF W \cap deleted # {}
     THEN crashed' = TRUE /\ UNCHANGED <<jobVars, wire, client>>
     ELSE /\ FindOrCreateChannel(W, a, status, client)
          /\ UNCHANGED <<messageId, deleted, account, watching, crashed>>

\* TextHandler::onTextChannelAvailable() and onTextChannelInvalidated(): a
\* channel to the chat appears, for a job or because a message came in, or
\* is closed.
ChannelChanged(a) ==
  /\ \/ a \in connected \ mChannels /\ mChannels' = mChannels \cup {a}
     \/ a \in mChannels /\ mChannels' = mChannels \ {a}
  /\ UNCHANGED <<jobVars, connected, wire, client, crashed>>

\* setStatus() of job j with a final status: finished() is emitted and the
\* deletion scheduled.
End(j, result) ==
  /\ status' = [status EXCEPT ![j] = result]
  /\ dying' = dying \cup {j}
  /\ client' = Told({j}, client)

\* Seeded bug: the failure of the channel request is not passed on.
ChatFailed_Dropped(j) == UNCHANGED <<status, dying, client>>

ChatFailed(j) == End(j, "Failed")

\* The requests under way when request r has ended.
StillStarting(r) == starting \ {r}

\* ChatStartingJob::onChannelRequestFinished() and the lambda of the sending
\* job on finished() of that job.
ChatStarted(r) ==
  /\ r \in starting
  /\ starting' = StillStarting(r)
  /\ IF r.job \in deleted
     THEN crashed' = TRUE /\ UNCHANGED <<status, dying, client, sending, wire>>
     ELSE /\ UNCHANGED crashed
          /\ \/ ChatFailed(r.job) /\ UNCHANGED <<sending, wire>>
             \/ /\ Send({r.job}, account[r.job], [runs EXCEPT ![r.job] = r.run])
                /\ UNCHANGED <<status, dying, client>>
  /\ UNCHANGED <<messageId, deleted, mMessage, account, watching, runs, connected, mChannels>>

\* Seeded bug: the error of the send operation is not looked at.
Succeeded_Blind(s) == TRUE

\* isError() can be false only when the CM took the first piece.
Succeeded(s) == s.taken

\* The lambda of a job on the end of its send operation. An operation that the
\* CM served may still fail, when the CM dies before it replies.
SendFinished(s) ==
  /\ s \in sending
  /\ sending' = sending \ {s}
  /\ IF s.job \in deleted
     THEN crashed' = TRUE /\ UNCHANGED <<status, messageId, dying, client>>
     ELSE /\ UNCHANGED crashed
          /\ \/ End(s.job, "Failed") /\ UNCHANGED messageId
             \/ /\ Succeeded(s) /\ End(s.job, "Finished")
                /\ messageId' = [messageId EXCEPT ![s.job] = s.run]
  /\ UNCHANGED <<deleted, mMessage, account, watching, runs, starting, connected, mChannels, wire>>

\* Jobs with a deletion timer.
Doomed == dying

\* scheduleDeletion(): deleteLater() after a minute; the first timer counts.
Delete(j) ==
  /\ j \in Doomed \ deleted
  /\ deleted' = deleted \cup {j}
  /\ UNCHANGED <<status, messageId, mMessage, account, watching, runs, starting, sending, dying,
                 connected, mChannels, wire, client, crashed>>

\* The call returns and ChatEntry::sendMessage() connects to the job.
Listen(j) ==
  /\ client[j] = "calling"
  /\ client' = [client EXCEPT ![j] = "listening"]
  /\ UNCHANGED <<jobVars, connected, mChannels, wire, crashed>>

\* ChatEntry::onSendingMessageFinished() reads the properties of the job, and
\* reports a failure also when the client does not know the channel.
Report(j) ==
  /\ client[j] = "told"
  /\ \E result \in {"failed"} \cup
         (IF status[j] = "Finished" /\ j \notin deleted THEN {"sent"} ELSE {}) :
       client' = [client EXCEPT ![j] = result]
  /\ UNCHANGED <<jobVars, connected, mChannels, wire, crashed>>

Next ==
  /\ ~crashed
  /\ \/ \E j \in Jobs : SendMessage(j) \/ Delete(j) \/ Listen(j) \/ Report(j)
     \/ \E a \in Accounts : ConnectedChanged(a) \/ ChannelChanged(a)
     \/ \E r \in starting : ChatStarted(r)
     \/ \E s \in sending : SendFinished(s)

\* Requests to the CM and to the channel dispatcher end; clients read events.
Fairness ==
  /\ \A r \in Request : WF_vars(~crashed /\ ChatStarted(r))
  /\ \A s \in SendOp : WF_vars(~crashed /\ SendFinished(s))
  /\ \A j \in Jobs : WF_vars(~crashed /\ Listen(j)) /\ WF_vars(~crashed /\ Report(j))

Spec == Init /\ [][Next]_vars /\ Fairness
-----------------------------------------------------------------------------
(* Properties *)

\* The runs of job j under way.
Pending(j) == {r.run : r \in {q \in starting : q.job = j}}
                \cup {s.run : s \in {q \in sending : q.job = j}}

\* What the D-Bus object of a job shows obeys JobContract: a job that did not
\* wait for its account ends once and keeps its status and message id, though its
\* account reconnects, its deletion is scheduled anew each time a job ends and
\* the ends of the runs come in any order (messagesendingjob.cpp:124-197).
ContractJob(j) ==
  [status |-> status[j], messageId |-> messageId[j], begun |-> runs[j], pending |-> Pending(j),
   life |-> IF j \in deleted THEN "deleted" ELSE IF j \in watching THEN "patient" ELSE "single"]
Contract == INSTANCE JobContract WITH job <- [j \in Jobs |-> ContractJob(j)]
MeetsContract == Contract!Spec

\* The result of a job that found its account connected is final.
ResultIsKept ==
  [][\A j \in Jobs \ watching : status[j] \in {"Finished", "Failed"} =>
        status'[j] = status[j] /\ messageId'[j] = messageId[j]]_vars

\* The id a job shows is that of a message whose first piece the CM took in that
\* run, and what the user is told was sent, in some run (messagesendingjob.cpp:161-198).
SentWasTaken ==
  \A j \in Jobs : /\ messageId[j] # 0 => messageId[j] \in wire[j][1]
                  /\ client[j] = "sent" => wire[j][1] # {}

\* No part of a message is sent twice, unless its job had to wait for the account
\* to be connected (messagesendingjob.cpp:124-134), however often the account
\* reconnects and the job finds or loses its channel.
CopiesOnlyOfWaiting ==
  \A j \in Jobs \ watching : \A p \in DOMAIN wire[j] : Cardinality(wire[j][p]) <= 1

\* A job whose account is connected for good ends, well or badly: its request
\* for a channel and its first send operation are both waited for. Messages
\* without parts and of unsupported chat types never end.
Endless(j) == mMessage[j].kind = "other" \/ (Parts[j] = 0 /\ account[j] \notin PhoneAccounts)

JobsEnd ==
  \A j \in Jobs :
    <>[](account[j] \in connected) =>
      [](status[j] = "Running" => <>(status[j] # "Running" \/ Endless(j) \/ crashed))

\* "TRY_COMPARE(messageSentSpy.count(), 1)" after one sendMessage()
\* (tests/handler/HandlerTest.cpp:336): a message is sent once.
SentOnce == \A j \in Jobs : \A p \in DOMAIN wire[j] : Cardinality(wire[j][p]) <= 1
=============================================================================
