--------------------------- MODULE TrainingSystem ---------------------------
(***************************************************************************)
(* The queue and the run directories of one ModelInfoID together: a worker *)
(* that has claimed a row runs execute_training_plan, the steps of which   *)
(* are RunControl's, and learns from its return or its exception what to   *)
(* write into the row.  What each module leaves open about the other is    *)
(* settled here: TrainingQueue takes directories and outcomes as they      *)
(* come, RunControl takes the row as something that appears and goes.      *)
(* GET /train/status, exits and reused PIDs are left to RunControl.        *)
(***************************************************************************)
EXTENDS Naturals

CONSTANTS Jobs, Identity, ModelTypes, Workers, NoJob, MaxCrashes,  \* TrainingQueue
          CliRuns, Tables                                          \* RunControl

ASSUME SystemAssumption ==
  /\ Jobs \cap CliRuns = {}
  /\ NoJob \notin Jobs \cup CliRuns
  /\ MaxCrashes \in Nat
  /\ Tables \subseteq {"train_record", "model_info"}

VARIABLES row, handler, ready, unacked, worker, task, crashes, starts,
          trained,     \* TrainingQueue's `outcome'
          faulted,
          type, pc, lock, manifest, buf, checkpoints, platform, outcome

queue == <<row, handler, ready, unacked, worker, task, crashes, starts, trained, faulted>>
runs  == <<type, pc, lock, manifest, buf, checkpoints, platform, outcome>>
vars  == <<queue, runs>>

\* A job and its run have the same plan, a directory one path; the row of a
\* ModelInfoID is the row of one of its jobs.
PlanOf(t)  == [identity |-> Identity, model_type |-> t]
Dirs       == {PlanOf(t) : t \in {u \in ModelTypes : manifest[u].status # "none"}}
Registered == \E j \in Jobs : row[j] # "ABSENT"

Queue == INSTANCE TrainingQueue
  WITH Identities <- {Identity}, plan <- [j \in Jobs |-> PlanOf(type[j])],
       runDirs <- Dirs, outcome <- trained

Runs == INSTANCE RunControl
  WITH WorkerRuns <- Jobs, NoRun <- NoJob, Visible <- Jobs \cup CliRuns,
       registered <- Registered, reused <- {}, Readers <- {}, reader <- <<>>,
       topic <- <<>>, seen <- <<>>, answer <- <<>>, goneAtAsk <- <<>>

Init ==
  /\ type \in [Runs!Runs -> ModelTypes]
  /\ manifest = [t \in ModelTypes |-> Runs!NoManifest]
  /\ Queue!Init
  /\ Runs!Init

-----------------------------------------------------------------------------
(* A claimed job.                                                          *)

\* Mutant: execute_training_plan does not raise again.
Swallowed(j) == pc'[j] \in {"leaving", "over"}

\* The run has gone through to its last write.
Result(j) == pc[j] = "put_succeeded" /\ pc'[j] = "leaving"

\* create_training_run made the directory, or raised before; execute_training_plan
\* returns its metrics, or raises out of its outer except.
TaskLearns(w, j) ==
  \/ /\ worker[w] = "claimed"
     /\ \/ pc'[j] = "starting" /\ Queue!CreateRun(w, j) /\ worker'[w] = "training"
        \/ pc'[j] = "over" /\ Queue!CreateRun(w, j) /\ worker'[w] = "failing"
        \/ pc'[j] \notin {"starting", "over"} /\ UNCHANGED queue
  \/ /\ worker[w] = "training"
     /\ \/ Result(j) /\ Queue!Train(w, j) /\ worker'[w] = "trained"
        \/ pc'[j] = "over" /\ Queue!Train(w, j) /\ worker'[w] = "failing"
        \/ ~Result(j) /\ pc'[j] # "over" /\ UNCHANGED queue
  \/ \* leaving the lock, the metrics in hand
     worker[w] = "trained" /\ UNCHANGED queue

ExecuteTask(w, j) ==
  /\ Queue!Executes(w, j)
  /\ UNCHANGED row
  /\ Runs!RunStep(j)
  /\ TaskLearns(w, j)

SaveCheckpoint(w, j) ==
  /\ Queue!Executes(w, j)
  /\ UNCHANGED queue
  /\ Runs!SaveCheckpoint(j)

\* TrainingPlan.from_json raises: no run at all.
InvalidPlan(w, j) ==
  /\ worker[w] = "claimed" /\ pc[j] = "new"
  /\ UNCHANGED runs
  /\ Queue!CreateRun(w, j) /\ worker'[w] = "failing"

\* Claim, the two marks and the acknowledgement; metrics are there once the
\* lock is released.
OwnStep(w, j) ==
  /\ UNCHANGED runs
  /\ \/ Queue!Claim(w, j)
     \/ pc[j] = "over" /\ Queue!MarkSucceeded(w, j)
     \/ Queue!MarkFailed(w, j)
     \/ Queue!Ack(w, j)

\* The process that trains dies with its worker.
Die(w, j) ==
  /\ worker[w] # "down" /\ task[w] = j
  /\ row' = row
  /\ IF Queue!Executes(w, j) /\ pc[j] # "new" THEN Runs!Crash(j) ELSE UNCHANGED runs
  /\ Queue!WorkerCrash(w, j) \/ Queue!ChildKilled(w, j)

-----------------------------------------------------------------------------
(* Everything else is a step of one of the two.                            *)

QueueStep ==
  /\ UNCHANGED runs
  /\ \/ \E j \in Jobs : \/ Queue!RefuseRequest(j) \/ Queue!HandlerStep(j)
                        \/ Queue!ApiCrash(j) \/ Queue!Redeliver(j)
     \/ \E w \in Workers : Queue!Restart(w) \/ \E j \in Jobs : Queue!Deliver(w, j)

CliStep(c) == UNCHANGED queue /\ Runs!RunStep(c)

\* Processes that are through stay: their exit matters to status requests only.
ProcessStep ==
  /\ UNCHANGED queue
  /\ \E c \in CliRuns : Runs!SaveCheckpoint(c) \/ (pc[c] # "over" /\ Runs!Crash(c))

TaskStep(w, j) == ExecuteTask(w, j) \/ InvalidPlan(w, j) \/ OwnStep(w, j)

Next ==
  \/ QueueStep \/ ProcessStep
  \/ \E w \in Workers, j \in Jobs : TaskStep(w, j) \/ SaveCheckpoint(w, j) \/ Die(w, j)
  \/ \E c \in CliRuns : CliStep(c)

\* The queue's fairness, a task taking the steps of its run.
Fairness ==
  /\ \A w \in Workers : WF_vars(\E j \in Jobs : TaskStep(w, j))
  /\ \A j \in Jobs : /\ SF_vars(UNCHANGED runs /\ \E w \in Workers : Queue!Deliver(w, j))
                     /\ WF_vars(UNCHANGED runs /\ Queue!Redeliver(j))

Spec == Init /\ [][Next]_vars /\ Fairness

-----------------------------------------------------------------------------
(* Properties.                                                             *)

\* The row and the directory tell one story.  A row that says SUCCEEDED has a
\* run of its own job behind it, with its checkpoint, whose manifest is final;
\* without a fault of the store or the process, one that says FAILED has no
\* manifest that says otherwise.
RowAndManifestAgree ==
  \A j \in Jobs :
    LET m == manifest[type[j]]
    IN /\ row[j] = "SUCCEEDED" =>
            /\ m.owner = j /\ m.status \in {"succeeded", "interrupted"}
            /\ type[j] \in checkpoints
       /\ row[j] = "FAILED" /\ j \notin faulted =>
            ~(m.owner = j /\ m.status = "succeeded")

\* The row that RunControl relies on is there when it relies on it: no
\* withdrawal, late or repeated, takes the row of a job from under its run,
\* where GET /train/status would turn to the manifest of a worker that goes on.
ImplementsRuns == Runs!Spec

\* A 202 is followed by SUCCEEDED or FAILED through every way a run may end (a
\* directory or lock already taken, a failing disk, a trainer that raises), as
\* long as the workers are not all down for good.
AcceptedSettles ==
  \/ <>[](\A w \in Workers : worker[w] = "down")
  \/ \A j \in Jobs :
       handler[j] = "accepted" ~> row[j] \in Queue!Terminal \/ j \in faulted
=============================================================================
