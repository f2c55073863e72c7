----------------------------- MODULE JobContract -----------------------------
(***************************************************************************)
(* What a client may rely on when it watches a message job of the handler  *)
(* over D-Bus (src/handler/messagejob.cpp and MessageSendingJob.xml).      *)
(* A job looks for its channel and sends in a run.  A job that found its   *)
(* account connected has one run, so that it ends once and keeps the       *)
(* status and the message id it ended with; one that had to wait for the   *)
(* account is patient, runs each time the account connects, and may end    *)
(* again, with another result, once for each run.  isFinished never goes   *)
(* back, and the object stays until well after the job finished.           *)
(***************************************************************************)
EXTENDS Naturals

CONSTANT Jobs

VARIABLE job   \* the state of each job

\* messageId names the run whose message the id is of, 0 when there is none;
\* pending are the runs that may still end the job. Its life is "single" when it
\* has one run, "patient" when it waited for its account, and at last "deleted".
\* Status Pending does not last.
Unborn == [status |-> "none", messageId |-> 0, begun |-> 0, pending |-> {}, life |-> "single"]

Init == job = [j \in Jobs |-> Unborn]

-----------------------------------------------------------------------------
(* How the state of one job goes from a to b. *)

IsFinished(a) == a.status \in {"Finished", "Failed"}

\* A run begins, and either fails at once, or ends later or never.
Run(a, b) ==
  LET run == [a EXCEPT !.begun = a.begun + 1] IN
  \/ b = run
  \/ b = [run EXCEPT !.status = "Failed"]
  \/ b = [run EXCEPT !.pending = a.pending \cup {a.begun + 1}]

\* The job is created and started by the D-Bus call that asks for it: it has no
\* account, or waits for it, or runs.
Start(a, b) ==
  LET running == [a EXCEPT !.status = "Running"] IN
  /\ a.status = "none"
  /\ \/ b = [a EXCEPT !.status = "Failed"]
     \/ b = [running EXCEPT !.life = "patient"]
     \/ Run(running, b)

\* The account of a patient job connects.
RunAgain(a, b) == a.life = "patient" /\ Run(a, b)

\* Run n ends the job, well or badly. Only a job that waited had a result before.
End(a, b) ==
  \E n \in a.pending :
    LET ended == [a EXCEPT !.pending = a.pending \ {n}]
        named == [ended EXCEPT !.messageId = n]
    IN
    /\ a.life # "deleted"
    /\ IsFinished(a) => a.life = "patient"
    /\ \/ b = [ended EXCEPT !.status = "Failed"]
       \/ b = [named EXCEPT !.status = "Finished"]

\* Run n comes to nothing: the message has no parts, or the job is gone.
Lose(a, b) == \E n \in a.pending : b = [a EXCEPT !.pending = a.pending \ {n}]

Delete(a, b) == IsFinished(a) /\ b = [a EXCEPT !.life = "deleted"]

Move(a, b) ==
  b = a \/ Start(a, b) \/ RunAgain(a, b) \/ End(a, b) \/ Lose(a, b) \/ Delete(a, b)

\* Several jobs may move at once, when the account they wait for connects.
Next ==
  /\ job' = [j \in Jobs |-> job'[j]]
  /\ \A j \in Jobs : Move(job[j], job'[j])

Spec == Init /\ [][Next]_job
=============================================================================
