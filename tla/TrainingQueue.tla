---------------------------- MODULE TrainingQueue ----------------------------
(***************************************************************************)
(* The asynchronous training path: POST /train writes a row of             *)
(* dbo.training_jobs and publishes a Celery message; GPU workers take      *)
(* messages from the Redis queue, claim the row, run the training and      *)
(* record its outcome.  Row, message and worker live in three systems that *)
(* fail on their own: every database call may fail before it takes effect  *)
(* or lose its reply after it did, publishing may raise although the       *)
(* message went out, the API process, a worker or its pool child may die   *)
(* between any two steps, and the broker delivers again what was not       *)
(* acknowledged in time.                                                   *)
(*                                                                         *)
(* `starts', `outcome' and `faulted' are history variables: no guard reads *)
(* them.                                                                   *)
(***************************************************************************)
EXTENDS Naturals

CONSTANTS Jobs,        \* one job id (uuid4) per request
          Identities,  \* (EquipmentCode, MeasCode, ModelInfoID) triples
          ModelTypes,  \* informer, autoformer, ...
          Workers,     \* celery workers, --concurrency=1 --prefetch-multiplier=1
          NoJob,       \* the task of a worker that has none
          MaxCrashes   \* bound: worker processes that may die

ASSUME ConstantsAssumption ==
  /\ NoJob \notin Jobs
  /\ MaxCrashes \in Nat

\* What a request asks to train.  The run directory is named by all of it,
\* the unique key of the table by the identity alone.
Plan == [identity : Identities, model_type : ModelTypes]

VARIABLES
  plan,      \* the plan each request carries; never changes
  row,       \* dbo.training_jobs.status per job, "ABSENT" without a row
  handler,   \* progress and answer of each POST /train
  ready,     \* jobs with a message in the Redis list
  unacked,   \* jobs with a delivered message not yet acknowledged
  worker,    \* program counter of each worker
  task,      \* the job each worker handles
  runDirs,   \* plans whose run directory exists
  crashes,   \* worker processes that died so far
  starts,    \* history: training runs started per job
  outcome,   \* history: what the trainer of each job came to
  faulted    \* history: jobs hit by a fault the code does not repair

api     == <<plan, handler>>
broker  == <<ready, unacked>>
workers == <<worker, task, crashes>>
history == <<starts, outcome, faulted>>
vars    == <<api, row, broker, workers, runDirs, history>>

Terminal  == {"SUCCEEDED", "FAILED"}
RowStatus == {"ABSENT", "QUEUED", "RUNNING"} \cup Terminal

\* "refused" 4xx before anything is written, "conflict" 409, "accepted" 202,
\* "store_down" and "queue_down" the two 503 answers, "crashed" no answer.
Answered == {"refused", "conflict", "accepted", "store_down", "queue_down",
             "crashed"}
InFlight == {"checked", "inserted", "stored", "withdrawing"}
HandlerState == {"new"} \cup InFlight \cup Answered

\* A worker between its claim and the end of the task.
Executing   == {"claimed", "training", "trained", "failing"}
WorkerState == {"idle", "delivered", "acking", "down"} \cup Executing

TypeOK ==
  /\ plan \in [Jobs -> Plan]
  /\ row \in [Jobs -> RowStatus]
  /\ handler \in [Jobs -> HandlerState]
  /\ ready \subseteq Jobs
  /\ unacked \subseteq Jobs
  /\ worker \in [Workers -> WorkerState]
  /\ task \in [Workers -> Jobs \cup {NoJob}]
  /\ runDirs \subseteq Plan
  /\ crashes \in Nat
  /\ starts \in [Jobs -> Nat]
  /\ outcome \in [Jobs -> {"none", "trained", "error"}]
  /\ faulted \subseteq Jobs

Init ==
  /\ plan \in [Jobs -> Plan]
  /\ row = [j \in Jobs |-> "ABSENT"]
  /\ handler = [j \in Jobs |-> "new"]
  /\ ready = {}
  /\ unacked = {}
  /\ worker = [w \in Workers |-> "idle"]
  /\ task = [w \in Workers |-> NoJob]
  /\ runDirs = {}
  /\ crashes = 0
  /\ starts = [j \in Jobs |-> 0]
  /\ outcome = [j \in Jobs |-> "none"]
  /\ faulted = {}

-----------------------------------------------------------------------------
(* POST /train.                                                            *)

Answer(j, from, to) ==
  /\ handler[j] = from
  /\ handler' = [handler EXCEPT ![j] = to]
  /\ UNCHANGED plan

\* An invalid request, or an ExpectedPlanHash that does not match.
RefuseRequest(j) ==
  /\ Answer(j, "new", "refused")
  /\ UNCHANGED <<row, broker, workers, runDirs, history>>

\* ensure_run_target_available
CheckTarget(j) ==
  /\ Answer(j, "new", IF plan[j] \in runDirs THEN "conflict" ELSE "checked")
  /\ UNCHANGED <<row, broker, workers, runDirs, history>>

\* Mutant: the unique key takes the model type in.
PlanTaken(j) == \E k \in Jobs \ {j} : row[k] # "ABSENT" /\ plan[k] = plan[j]

\* The unique key (equipment_code, meas_code, model_info_id).
IdentityTaken(j) ==
  \E k \in Jobs \ {j} : row[k] # "ABSENT" /\ plan[k].identity = plan[j].identity

\* The INSERT of create_queued, committed on its own (autocommit).
CreateQueued(j) ==
  /\ UNCHANGED <<broker, workers, runDirs, starts, outcome>>
  /\ \/ IdentityTaken(j) /\ Answer(j, "checked", "conflict") /\ UNCHANGED <<row, faulted>>
     \/ \* the statement fails before it takes effect
        Answer(j, "checked", "store_down") /\ UNCHANGED <<row, faulted>>
     \/ /\ ~IdentityTaken(j)
        /\ row' = [row EXCEPT ![j] = "QUEUED"]
        /\ \/ Answer(j, "checked", "inserted") /\ UNCHANGED faulted
           \/ \* committed, but the reply is lost
              Answer(j, "checked", "store_down") /\ faulted' = faulted \cup {j}

\* create_queued reads the row back; when that SELECT fails the handler answers
\* 503 and the committed row stays.
ReadBack(j) ==
  /\ UNCHANGED <<row, broker, workers, runDirs, starts, outcome>>
  /\ \/ row[j] # "ABSENT" /\ Answer(j, "inserted", "stored") /\ UNCHANGED faulted
     \/ Answer(j, "inserted", "store_down") /\ faulted' = faulted \cup {j}

\* apply_async: an exception does not tell whether the message went out.
Enqueue(j) ==
  /\ UNCHANGED <<row, unacked, workers, runDirs, history>>
  /\ \/ Answer(j, "stored", "accepted") /\ ready' = ready \cup {j}
     \/ Answer(j, "stored", "withdrawing") /\ ready' \in {ready, ready \cup {j}}

\* Mutant: DELETE ... WHERE job_id = ?
DeletableAnyStatus(j) == row[j] # "ABSENT"

\* DELETE ... WHERE job_id = ? AND status = 'QUEUED'
Deletable(j) == row[j] = "QUEUED"

\* delete_queued after a failed publish; its own failure is swallowed.
Withdraw(j) ==
  /\ Answer(j, "withdrawing", "queue_down")
  /\ UNCHANGED <<broker, workers, runDirs, starts, outcome>>
  /\ \/ /\ row' = [row EXCEPT ![j] = IF Deletable(j) THEN "ABSENT" ELSE @]
        /\ UNCHANGED faulted
     \/ UNCHANGED row /\ faulted' = faulted \cup {j}

\* The API process dies while it serves the request.
ApiCrash(j) ==
  /\ \E s \in InFlight : Answer(j, s, "crashed")
  /\ faulted' = faulted \cup {j}
  /\ UNCHANGED <<row, broker, workers, runDirs, starts, outcome>>

-----------------------------------------------------------------------------
(* The broker: late acknowledgement and the visibility timeout.            *)

\* Worker w, handling job j, moves on.
Goto(w, j, from, to) ==
  /\ worker[w] = from
  /\ task[w] = j
  /\ worker' = [worker EXCEPT ![w] = to]
  /\ UNCHANGED <<task, crashes>>

\* Mutant: task_acks_late is off, delivery acknowledges.
AckedOnDelivery(j) == unacked \ {j}

\* task_acks_late: a delivered message stays with the broker until the task ends.
UnackedOnDelivery(j) == unacked \cup {j}

Deliver(w, j) ==
  /\ j \in ready
  /\ worker[w] = "idle"
  /\ worker' = [worker EXCEPT ![w] = "delivered"]
  /\ task' = [task EXCEPT ![w] = j]
  /\ ready' = ready \ {j}
  /\ unacked' = UnackedOnDelivery(j)
  /\ UNCHANGED <<api, row, crashes, runDirs, history>>

\* The visibility timeout has passed; whether the worker that got the message
\* is still busy with it makes no difference to the broker.
Redeliver(j) ==
  /\ j \in unacked
  /\ unacked' = unacked \ {j}
  /\ ready' = ready \cup {j}
  /\ UNCHANGED <<api, row, workers, runDirs, history>>

-----------------------------------------------------------------------------
(* The task train_model(job_id).                                           *)

\* Mutant: a redelivered message takes a running row over.
ClaimableAgain(j) == row[j] \in {"QUEUED", "RUNNING"}

\* UPDATE ... SET status = 'RUNNING' ... WHERE job_id = ? AND status = 'QUEUED'
Claimable(j) == row[j] = "QUEUED"

Claim(w, j) ==
  \/ /\ Goto(w, j, "delivered", "claimed")
     /\ Claimable(j)
     /\ row' = [row EXCEPT ![j] = "RUNNING"]
     /\ UNCHANGED <<api, broker, runDirs, history>>
  \/ \* the row is claimed but the reply lost: claim raises outside the try block
     /\ Goto(w, j, "delivered", "acking")
     /\ Claimable(j)
     /\ row' = [row EXCEPT ![j] = "RUNNING"]
     /\ faulted' = faulted \cup {j}
     /\ UNCHANGED <<api, broker, runDirs, starts, outcome>>
  \/ \* no row came back: the task is a no-op
     /\ Goto(w, j, "delivered", "acking")
     /\ ~Claimable(j)
     /\ UNCHANGED <<api, row, broker, runDirs, history>>
  \/ \* the store is down: the task fails and its message is acknowledged
     /\ Goto(w, j, "delivered", "acking")
     /\ faulted' = faulted \cup {j}
     /\ UNCHANGED <<api, row, broker, runDirs, starts, outcome>>

\* from_json, training_run_lock and create_training_run.
CreateRun(w, j) ==
  \/ /\ Goto(w, j, "claimed", "training")
     /\ plan[j] \notin runDirs
     /\ runDirs' = runDirs \cup {plan[j]}
     /\ starts' = [starts EXCEPT ![j] = @ + 1]
     /\ UNCHANGED <<api, row, broker, outcome, faulted>>
  \/ \* INVALID_STORED_PLAN, TRAINING_ALREADY_RUNNING, MODEL_INFO_ID_CONFLICT
     /\ Goto(w, j, "claimed", "failing")
     /\ outcome' = [outcome EXCEPT ![j] = "error"]
     /\ UNCHANGED <<api, row, broker, runDirs, starts, faulted>>

\* The rest of execute_training_plan: it returns its metrics or raises.
Train(w, j) ==
  /\ UNCHANGED <<api, row, broker, runDirs, starts, faulted>>
  /\ \/ /\ Goto(w, j, "training", "trained")
        /\ outcome' = [outcome EXCEPT ![j] = "trained"]
     \/ /\ Goto(w, j, "training", "failing")
        /\ outcome' = [outcome EXCEPT ![j] = "error"]

\* Mutants: the WHERE clause forgets the status; a status outside the table's CHECK.
FromAnyStatus(j, s) == row' = [row EXCEPT ![j] = s]

FromRunningToDone(j, s) ==
  /\ row[j] = "RUNNING"
  /\ row' = [row EXCEPT ![j] = IF s = "SUCCEEDED" THEN "DONE" ELSE s]

\* A row leaves RUNNING only through _transition_from_running.
FromRunning(j, s) ==
  /\ row[j] = "RUNNING"
  /\ row' = [row EXCEPT ![j] = s]

\* mark_succeeded raises when it changed no row and when its reply is lost;
\* both lead to mark_failed.
MarkSucceeded(w, j) ==
  /\ UNCHANGED <<api, broker, runDirs, starts, outcome>>
  /\ \/ Goto(w, j, "trained", "acking") /\ FromRunning(j, "SUCCEEDED") /\ UNCHANGED faulted
     \/ Goto(w, j, "trained", "failing") /\ FromRunning(j, "SUCCEEDED") /\ UNCHANGED faulted
     \/ /\ Goto(w, j, "trained", "failing")
        /\ UNCHANGED row
        /\ faulted' = faulted \cup {j}

\* mark_failed; a conflict (the row is terminal already) and a store failure
\* are printed and swallowed.
MarkFailed(w, j) ==
  /\ Goto(w, j, "failing", "acking")
  /\ UNCHANGED <<api, broker, runDirs, starts, outcome>>
  /\ \/ FromRunning(j, "FAILED") /\ UNCHANGED faulted
     \/ row[j] # "RUNNING" /\ UNCHANGED <<row, faulted>>
     \/ row[j] = "RUNNING" /\ UNCHANGED row /\ faulted' = faulted \cup {j}

\* task_acks_late: the message is acknowledged once the task returned or raised.
Ack(w, j) ==
  /\ worker[w] = "acking"
  /\ task[w] = j
  /\ worker' = [worker EXCEPT ![w] = "idle"]
  /\ task' = [task EXCEPT ![w] = NoJob]
  /\ unacked' = unacked \ {j}
  /\ UNCHANGED <<api, row, ready, crashes, runDirs, history>>

-----------------------------------------------------------------------------
(* Workers die.  A message held by a dead worker waits for the timeout; a  *)
(* killed pool child makes its parent acknowledge the message              *)
(* (task_reject_on_worker_lost is not set).                                *)

WorkerCrash(w, j) ==
  /\ crashes < MaxCrashes
  /\ task[w] = j
  /\ worker' = [worker EXCEPT ![w] = "down"]
  /\ task' = [task EXCEPT ![w] = NoJob]
  /\ crashes' = crashes + 1
  /\ faulted' = faulted \cup (IF worker[w] \in Executing THEN {j} ELSE {})
  /\ UNCHANGED <<api, row, broker, runDirs, starts, outcome>>

ChildKilled(w, j) ==
  /\ \E s \in {"delivered"} \cup Executing : Goto(w, j, s, "acking")
  /\ faulted' = faulted \cup {j}
  /\ UNCHANGED <<api, row, broker, runDirs, starts, outcome>>

\* Somebody starts a dead worker again.
Restart(w) ==
  /\ worker[w] = "down"
  /\ worker' = [worker EXCEPT ![w] = "idle"]
  /\ UNCHANGED <<api, row, broker, task, crashes, runDirs, history>>

\* A CLI training takes a run directory without writing a row.
CliRun(p) ==
  /\ p \notin runDirs
  /\ runDirs' = runDirs \cup {p}
  /\ UNCHANGED <<api, row, broker, workers, history>>

-----------------------------------------------------------------------------
HandlerStep(j) ==
  CheckTarget(j) \/ CreateQueued(j) \/ ReadBack(j) \/ Enqueue(j) \/ Withdraw(j)

TaskStep(w, j) ==
  \/ Claim(w, j) \/ CreateRun(w, j) \/ Train(w, j)
  \/ MarkSucceeded(w, j) \/ MarkFailed(w, j) \/ Ack(w, j)

Next ==
  \/ \E j \in Jobs : RefuseRequest(j) \/ HandlerStep(j) \/ ApiCrash(j) \/ Redeliver(j)
  \/ \E w \in Workers, j \in Jobs :
       Deliver(w, j) \/ TaskStep(w, j) \/ WorkerCrash(w, j) \/ ChildKilled(w, j)
  \/ \E w \in Workers : Restart(w)
  \/ \E p \in Plan : CliRun(p)

Spec == Init /\ [][Next]_vars

(* A live worker keeps working, the Redis list is first in first out, and   *)
(* the broker restores what was not acknowledged.  Nothing is assumed of    *)
(* API handlers, nor that a dead worker is ever started again.              *)
Fairness ==
  /\ \A w \in Workers : WF_vars(\E j \in Jobs : TaskStep(w, j))
  /\ \A j \in Jobs : /\ SF_vars(\E w \in Workers : Deliver(w, j))
                     /\ WF_vars(Redeliver(j))

FairSpec == Spec /\ Fairness

-----------------------------------------------------------------------------
(* Properties.                                                             *)

Executes(w, j) == worker[w] \in Executing /\ task[w] = j

\* However often a message is published or delivered, its job is trained at
\* most once: no two workers execute it together, no run starts twice.
\* (train_model: "non-QUEUED messages are an idempotent no-op".)
AtMostOnce ==
  \A j \in Jobs :
    /\ starts[j] <= 1
    /\ \A v, w \in Workers : Executes(v, j) /\ Executes(w, j) => v = w

\* A ModelInfoID is consumed by its first training, whatever the model types
\* of the requests that race for it, and although queued rows can be deleted:
\* no second job of the identity ever starts, or is still about to.
OneRunPerIdentity ==
  \A j, k \in Jobs :
    /\ j # k /\ plan[j].identity = plan[k].identity
    /\ starts[j] > 0
    => starts[k] = 0 /\ \A w \in Workers : ~Executes(w, k)

\* No job is left behind silently: a queued row whose request has been answered
\* has a message in the broker, a running row has a live worker, unless one of
\* the faults recorded in `faulted' hit the job.
NoSilentOrphan ==
  \A j \in Jobs \ faulted :
    /\ row[j] = "QUEUED" /\ handler[j] \in Answered => j \in ready \cup unacked
    /\ row[j] = "RUNNING" => \E w \in Workers : Executes(w, j)

\* A row tells what became of the training: SUCCEEDED only after the trainer
\* returned a result, FAILED only after it raised, unless a fault intervened.
OutcomeMatchesRow ==
  \A j \in Jobs :
    /\ row[j] = "SUCCEEDED" => outcome[j] = "trained"
    /\ row[j] = "FAILED" /\ j \notin faulted => outcome[j] = "error"

\* What POST /train answered stays true: a 202 job keeps its row for good, a
\* refused request never trains, and a withdrawn job (503 and no row) never
\* trains although its message may still be in the queue.
AnswersHold ==
  \A j \in Jobs :
    /\ handler[j] = "accepted" => row[j] # "ABSENT"
    /\ handler[j] \in {"refused", "conflict"} => row[j] = "ABSENT"
    /\ handler[j] \in Answered /\ row[j] = "ABSENT"
         => starts[j] = 0 /\ \A w \in Workers : ~Executes(w, j)

\* What a failed enqueue promises by its test: 503 and no job in the table.
EnqueueFailureRemovesJob ==
  \A j \in Jobs : handler[j] = "queue_down" => row[j] = "ABSENT"

\* The job table, seen through the public status, implements JobLifecycle.
JobStatus(j) ==
  IF row[j] = "ABSENT" /\ handler[j] = "queue_down" THEN "WITHDRAWN" ELSE row[j]

HoldsIdentity(j, i) == row[j] # "ABSENT" /\ plan[j].identity = i

Holder(i) ==
  IF \E j \in Jobs : HoldsIdentity(j, i)
  THEN CHOOSE j \in Jobs : HoldsIdentity(j, i)
  ELSE NoJob

Lifecycle == INSTANCE JobLifecycle
  WITH status <- [j \in Jobs |-> JobStatus(j)],
       holder <- [i \in Identities |-> Holder(i)]

\* Every step of API, broker and workers is a step of the promised life cycle
\* or leaves it alone: terminal rows never change, an identity is held by one
\* job and released only by withdrawing a job that never ran.
ImplementsJobLifecycle == Lifecycle!Spec

\* A 202 is eventually followed by SUCCEEDED or FAILED, through redeliveries,
\* crashes of workers that had not claimed the job yet, and lost workers that
\* never return, unless one of the unrepaired faults hit the job.
AcceptedSettles ==
  \A j \in Jobs :
    handler[j] = "accepted" ~> row[j] \in Terminal \/ j \in faulted
=============================================================================
