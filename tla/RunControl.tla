----------------------------- MODULE RunControl -----------------------------
(***************************************************************************)
(* The run directories of one ModelInfoID: training processes (Celery      *)
(* tasks and CLI trainings) that reserve and fill them under one lock, and *)
(* GET /train/status, which reads their manifests and rewrites those whose *)
(* process is gone.  Nothing is shared between two ModelInfoIDs: the lock, *)
(* the directories and the job row are all named by it.                    *)
(*                                                                         *)
(* A process may die between any two steps and every file operation may    *)
(* fail.  write_manifest replaces the file in one step, but update_manifest*)
(* reads it, changes it and writes it back.                                *)
(*                                                                         *)
(* `outcome', `goneAtAsk' are history variables: no guard reads them.      *)
(***************************************************************************)
EXTENDS Naturals

CONSTANTS WorkerRuns,  \* Celery tasks: execute_training_plan
          CliRuns,     \* valeo-pdm train --model-info-id: train_from_config
          ModelTypes,  \* one run directory each
          Readers,     \* requests of GET /train/status
          Visible,     \* processes in the PID namespace of the API
          Tables,      \* platform tables whose updates may succeed
          NoRun

Runs == WorkerRuns \cup CliRuns

ASSUME RunAssumption ==
  /\ WorkerRuns \cap CliRuns = {}
  /\ NoRun \notin Runs
  /\ Visible \subseteq Runs
  /\ Tables \subseteq {"train_record", "model_info"}

VARIABLES
  type,        \* model type of each training; never changes
  pc,          \* progress of each training process
  lock,        \* holders of the file lock of the ModelInfoID
  manifest,    \* training_manifest.json per run directory, NoManifest without one
  buf,         \* manifest a training process has read and not yet written back
  checkpoints, \* run directories that hold a checkpoint
  platform,    \* status of the ModelInfoID in each of them
  reused,      \* dead processes whose PID another process has got
  registered,  \* the ModelInfoID has a row in dbo.training_jobs
  reader,      \* progress of each status request
  topic,       \* model type it asks for
  seen,        \* manifest it has read
  answer,      \* what it answered
  outcome,     \* history: how the trainer of each process ended
  goneAtAsk    \* history: processes gone when the request began

disk    == <<manifest, checkpoints>>
procs   == <<type, pc, lock, buf, outcome>>
env     == <<platform, reused, registered>>
polling == <<reader, topic, seen, answer, goneAtAsk>>
vars    == <<disk, procs, env, polling>>

Unfinished == {"reserved", "running"}
Finished   == {"succeeded", "failed", "interrupted"}
Manifest   == [status : Unfinished \cup Finished \cup {"none"}, owner : Runs \cup {NoRun}]
NoManifest == [status |-> "none", owner |-> NoRun]

\* Between acquiring and releasing the lock.
Reading == {"starting", "failing", "finishing"}
Writing == {"put_running", "put_failed", "put_succeeded"}
Locked  == {"locked", "staged", "running", "training", "returned", "raised",
            "marked", "leaving", "aborting"} \cup Reading \cup Writing
Ended   == {"dead", "exited"}
RunState    == {"new", "late", "put_late", "over"} \cup Locked \cup Ended
ReaderState == {"idle", "looked", "checking", "rereading", "writing"}
Answer      == {"none", "NOT_FOUND", "RUNNING", "SUCCEEDED", "FAILED", "ERROR"}

Statuses == [Tables -> {"none", "running", "success", "failed"}]

TypeOK ==
  /\ type \in [Runs -> ModelTypes]
  /\ pc \in [Runs -> RunState]
  /\ lock \subseteq Runs
  /\ manifest \in [ModelTypes -> Manifest]
  /\ buf \in [Runs -> Manifest]
  /\ checkpoints \subseteq ModelTypes
  /\ platform \in Statuses
  /\ reused \subseteq Runs
  /\ registered \in BOOLEAN
  /\ reader \in [Readers -> ReaderState]
  /\ topic \in [Readers -> ModelTypes]
  /\ seen \in [Readers -> Manifest]
  /\ answer \in [Readers -> Answer]
  /\ outcome \in [Runs -> {"none", "returned", "raised"}]
  /\ goneAtAsk \in [Readers -> SUBSET Runs]

Init ==
  /\ type \in [Runs -> ModelTypes]
  /\ pc = [p \in Runs |-> "new"]
  /\ lock = {}
  /\ manifest = [t \in ModelTypes |-> NoManifest]
  /\ buf = [p \in Runs |-> NoManifest]
  /\ checkpoints = {}
  /\ platform = [k \in Tables |-> "none"]
  /\ reused = {}
  /\ registered = FALSE
  /\ reader = [r \in Readers |-> "idle"]
  /\ topic \in [Readers -> ModelTypes]
  /\ seen = [r \in Readers |-> NoManifest]
  /\ answer = [r \in Readers |-> "none"]
  /\ outcome = [p \in Runs |-> "none"]
  /\ goneAtAsk = [r \in Readers |-> {}]

-----------------------------------------------------------------------------
(* The job row (the queue's side of it is TrainingQueue).                  *)

Register ==
  /\ ~registered
  /\ registered' = TRUE
  /\ UNCHANGED <<disk, procs, platform, reused, polling>>

\* delete_queued: only while no task has claimed the row.
Unregister ==
  /\ registered
  /\ \A p \in WorkerRuns : pc[p] = "new"
  /\ registered' = FALSE
  /\ UNCHANGED <<disk, procs, platform, reused, polling>>

-----------------------------------------------------------------------------
(* A training process.                                                     *)

Goto(p, from, to) == pc[p] = from /\ pc' = [pc EXCEPT ![p] = to]

\* Mutant: the lock is named by the model type too.
LockFreePerType(p) == \A q \in lock : type[q] # type[p]

\* _lock_path: one lock for all model types of the ModelInfoID.
LockFree(p) == lock = {}

\* training_run_lock, timeout = 0.  A worker runs only with a claimed row.
Acquire(p) ==
  /\ p \in WorkerRuns => registered
  /\ \/ Goto(p, "new", "locked") /\ LockFree(p) /\ lock' = lock \cup {p}
     \/ Goto(p, "new", "over") /\ ~LockFree(p) /\ UNCHANGED lock
  /\ UNCHANGED <<disk, type, buf, outcome, env, polling>>

\* Mutant: only a finished run blocks its directory.
FinishedBlocks(t) == manifest[t].status \in Finished

\* os.path.lexists(run_dir)
DirExists(t) == manifest[t].status # "none"

\* ensure_run_target_available, then the staging directory and its reserved
\* manifest; staging names are unique (uuid4) and nobody reads them.
Reserve(p) ==
  /\ \/ Goto(p, "locked", "staged") /\ ~DirExists(type[p])
     \/ Goto(p, "locked", "leaving")  \* the directory exists or the disk fails
  /\ UNCHANGED <<disk, type, lock, buf, outcome, env, polling>>

\* The second lexists and the rename that makes the run directory appear,
\* manifest included.
Publish(p) ==
  /\ \/ /\ Goto(p, "staged", "starting")
        /\ ~DirExists(type[p])
        /\ manifest' = [manifest EXCEPT ![type[p]] = [status |-> "reserved", owner |-> p]]
     \/ Goto(p, "staged", "leaving") /\ UNCHANGED manifest
  /\ UNCHANGED <<checkpoints, type, lock, buf, outcome, env, polling>>

\* execute_training_plan marks what failed once more, after the lock is
\* released; train_from_config does not.
AfterError(p) == IF p \in WorkerRuns THEN "aborting" ELSE "leaving"

\* update_manifest, first half.  _mark_manifest_failed of a worker looks at the
\* status before, which only this process could have made terminal.
ReadManifest(p) ==
  /\ \/ Goto(p, "starting", "put_running") /\ buf' = [buf EXCEPT ![p] = manifest[type[p]]]
     \/ Goto(p, "failing", "put_failed") /\ buf' = [buf EXCEPT ![p] = manifest[type[p]]]
     \/ Goto(p, "finishing", "put_succeeded") /\ buf' = [buf EXCEPT ![p] = manifest[type[p]]]
     \/ Goto(p, "starting", AfterError(p)) /\ UNCHANGED buf
     \/ Goto(p, "finishing", AfterError(p)) /\ UNCHANGED buf
     \/ \* a worker swallows it, a CLI training is leaving anyway
        Goto(p, "failing", "marked") /\ UNCHANGED buf
  /\ UNCHANGED <<disk, type, lock, outcome, env, polling>>

Put(p, status) == manifest' = [manifest EXCEPT ![type[p]] = [buf[p] EXCEPT !.status = status]]

\* update_manifest, second half: written, or the write fails.
WriteManifest(p) ==
  /\ \/ Goto(p, "put_running", "running") /\ Put(p, "running")
     \/ Goto(p, "put_succeeded", "leaving") /\ Put(p, "succeeded")
     \/ Goto(p, "put_failed", "marked") /\ Put(p, "failed")
     \/ Goto(p, "put_running", AfterError(p)) /\ UNCHANGED manifest
     \/ Goto(p, "put_succeeded", AfterError(p)) /\ UNCHANGED manifest
     \/ Goto(p, "put_failed", "marked") /\ UNCHANGED manifest
  /\ UNCHANGED <<checkpoints, type, lock, buf, outcome, env, polling>>

\* SqlServerTrainStatusUpdater, only in platform mode: two transactions of their
\* own, either of which may fail unnoticed.
Mark(status) ==
  platform' \in {now \in Statuses : \A k \in Tables : now[k] \in {platform[k], status}}

\* mark_running leaves the second table alone.
MarkRunning ==
  platform' \in {platform, [k \in Tables |-> IF k = "train_record" THEN "running" ELSE platform[k]]}

Announce(p) ==
  /\ Goto(p, "running", "training")
  /\ MarkRunning
  /\ UNCHANGED <<disk, type, lock, buf, outcome, reused, registered, polling>>

\* The trainer saves a checkpoint when an epoch improved the validation loss.
SaveCheckpoint(p) ==
  /\ pc[p] = "training"
  /\ checkpoints' = checkpoints \cup {type[p]}
  /\ UNCHANGED <<manifest, procs, env, polling>>

EndTraining(p) ==
  /\ \/ Goto(p, "training", "returned") /\ outcome' = [outcome EXCEPT ![p] = "returned"]
     \/ Goto(p, "training", "raised") /\ outcome' = [outcome EXCEPT ![p] = "raised"]
  /\ UNCHANGED <<disk, type, lock, buf, env, polling>>

\* Mutant: the declared checkpoint is not looked at.
Unvalidated(p) == TRUE

\* _validated_training_checkpoint: workers only.
Validated(p) == p \in WorkerRuns => type[p] \in checkpoints

\* Validation, save_train_params and the platform's success mark, which comes
\* before the manifest's.
Conclude(p) ==
  /\ \/ Goto(p, "returned", "finishing") /\ Validated(p) /\ Mark("success")
     \/ Goto(p, "returned", "raised") /\ UNCHANGED platform
  /\ UNCHANGED <<disk, type, lock, buf, outcome, reused, registered, polling>>

\* The platform's failure mark comes before the manifest's in a CLI training and
\* after it in a worker.
MarkFailed(p) ==
  /\ \/ p \in CliRuns /\ Goto(p, "raised", "failing") /\ Mark("failed")
     \/ p \in CliRuns /\ Goto(p, "marked", "leaving") /\ UNCHANGED platform
     \/ p \in WorkerRuns /\ Goto(p, "raised", "failing") /\ UNCHANGED platform
     \/ p \in WorkerRuns /\ Goto(p, "marked", "aborting") /\ Mark("failed")
  /\ UNCHANGED <<disk, type, lock, buf, outcome, reused, registered, polling>>

Release(p) ==
  /\ Goto(p, "leaving", "over") \/ Goto(p, "aborting", "late")
  /\ lock' = lock \ {p}
  /\ UNCHANGED <<disk, type, buf, outcome, env, polling>>

\* The outer except of execute_training_plan, no longer under the lock.
MarkLate(p) ==
  /\ \/ /\ Goto(p, "late", "put_late")
        /\ manifest[type[p]].status \notin {"failed", "succeeded"}
        /\ buf' = [buf EXCEPT ![p] = manifest[type[p]]]
        /\ UNCHANGED manifest
     \/ Goto(p, "late", "over") /\ UNCHANGED <<manifest, buf>>
     \/ Goto(p, "put_late", "over") /\ Put(p, "failed") /\ UNCHANGED buf
     \/ Goto(p, "put_late", "over") /\ UNCHANGED <<manifest, buf>>
  /\ UNCHANGED <<checkpoints, type, lock, outcome, env, polling>>

\* A CLI process ends with its training, a pool child when its worker stops.
Exit(p) ==
  /\ Goto(p, "over", "exited")
  /\ UNCHANGED <<disk, type, lock, buf, outcome, env, polling>>

\* Mutant: a lock file that outlives its process.
LockFileLeft(p) == lock

\* The kernel drops the file lock of a process that dies.
LockAfterCrash(p) == lock \ {p}

Crash(p) ==
  /\ pc[p] \notin {"new"} \cup Ended
  /\ pc' = [pc EXCEPT ![p] = "dead"]
  /\ lock' = LockAfterCrash(p)
  /\ UNCHANGED <<disk, type, buf, outcome, env, polling>>

ReusePid(p) ==
  /\ pc[p] \in Ended
  /\ reused' = reused \cup {p}
  /\ UNCHANGED <<disk, procs, platform, registered, polling>>

-----------------------------------------------------------------------------
(* GET /train/status without a job row: the manifest and, if its process   *)
(* is gone, the status "interrupted" written into it.                      *)

Ask(r, t) ==
  /\ reader[r] = "idle"
  /\ ~registered
  /\ reader' = [reader EXCEPT ![r] = "looked"]
  /\ topic' = [topic EXCEPT ![r] = t]
  /\ answer' = [answer EXCEPT ![r] = "none"]
  /\ goneAtAsk' = [goneAtAsk EXCEPT ![r] = {p \in Runs : pc[p] \in Ended}]
  /\ seen' = [seen EXCEPT ![r] = NoManifest]
  /\ UNCHANGED <<disk, procs, env>>

\* Mutant: the manifest's own word is passed on.
RawStatus(s) == s

\* status_map
PublicStatus(s) ==
  CASE s = "none" -> "NOT_FOUND"
    [] s \in Unfinished -> "RUNNING"
    [] s = "succeeded" -> "SUCCEEDED"
    [] s \in {"failed", "interrupted"} -> "FAILED"

Reply(r, a) ==
  /\ reader' = [reader EXCEPT ![r] = "idle"]
  /\ answer' = [answer EXCEPT ![r] = a]

\* read_manifest, and the first test of mark_interrupted_if_stale
ReadStatus(r) ==
  LET m == manifest[topic[r]]
  IN /\ reader[r] = "looked"
     /\ seen' = [seen EXCEPT ![r] = m]
     /\ IF m.status \in Unfinished
        THEN reader' = [reader EXCEPT ![r] = "checking"] /\ UNCHANGED answer
        ELSE Reply(r, PublicStatus(m.status))
     /\ UNCHANGED <<disk, procs, env, topic, goneAtAsk>>

\* Mutant: os.kill(pid, 0) alone, any process with the PID will do.
PidFree(p) == p \notin Visible \/ (pc[p] \in Ended /\ p \notin reused)

\* Mutant: a run whose lock is free counts as gone.
Unlocked(p) == p \notin lock

\* No process has the PID, or one with another boot id and start time; in
\* another PID namespace that is so for every process.
Gone(p) == p \notin Visible \/ pc[p] \in Ended

CheckOwner(r) ==
  /\ reader[r] = "checking"
  /\ IF Gone(seen[r].owner)
     THEN reader' = [reader EXCEPT ![r] = "rereading"] /\ UNCHANGED answer
     ELSE Reply(r, "RUNNING")
  /\ UNCHANGED <<disk, procs, env, topic, seen, goneAtAsk>>

\* update_manifest reads the manifest once more and does not look at its status.
Reread(r) ==
  /\ reader[r] = "rereading"
  /\ reader' = [reader EXCEPT ![r] = "writing"]
  /\ seen' = [seen EXCEPT ![r] = manifest[topic[r]]]
  /\ UNCHANGED <<disk, procs, env, topic, answer, goneAtAsk>>

WriteInterrupted(r) ==
  /\ reader[r] = "writing"
  /\ manifest' = [manifest EXCEPT ![topic[r]] = [seen[r] EXCEPT !.status = "interrupted"]]
  /\ Reply(r, "FAILED")
  /\ UNCHANGED <<checkpoints, procs, env, topic, seen, goneAtAsk>>

\* Reading or writing fails: 500.
StatusError(r) ==
  /\ reader[r] \in {"looked", "rereading", "writing"}
  /\ Reply(r, "ERROR")
  /\ UNCHANGED <<disk, procs, env, topic, seen, goneAtAsk>>

-----------------------------------------------------------------------------
RunStep(p) ==
  \/ Acquire(p) \/ Reserve(p) \/ Publish(p) \/ ReadManifest(p) \/ WriteManifest(p)
  \/ Announce(p) \/ EndTraining(p) \/ Conclude(p) \/ MarkFailed(p) \/ Release(p)
  \/ MarkLate(p)

ReaderStep(r) == ReadStatus(r) \/ CheckOwner(r) \/ Reread(r) \/ WriteInterrupted(r)

Next ==
  \/ Register \/ Unregister
  \/ \E p \in Runs : RunStep(p) \/ SaveCheckpoint(p) \/ Exit(p) \/ Crash(p) \/ ReusePid(p)
  \/ \E r \in Readers :
       ReaderStep(r) \/ StatusError(r) \/ \E t \in ModelTypes : Ask(r, t)

Spec == Init /\ [][Next]_vars
(* The disk does not fail for ever, an unlocked training process keeps      *)
(* going and the trainer ends, a CLI process exits when it is done, and     *)
(* somebody keeps polling the status of every model type.  Nothing is       *)
(* assumed of the job row.                                                  *)
Fairness ==
  /\ \A p \in Runs : WF_vars(RunStep(p))
  /\ \A p \in CliRuns : WF_vars(Exit(p))
  /\ \A r \in Readers :
       /\ \A t \in ModelTypes : SF_vars(Ask(r, t))
       /\ SF_vars(ReadStatus(r))
       /\ WF_vars(CheckOwner(r))
       /\ SF_vars(Reread(r))
       /\ SF_vars(WriteInterrupted(r))

FairSpec == Spec /\ Fairness

-----------------------------------------------------------------------------
(* Properties.                                                             *)

\* training_run_lock: at most one training of a ModelInfoID is between
\* reservation and its final manifest, whatever the model types, and a process
\* that died holds nothing.
OneAtATime ==
  /\ \A p, q \in Runs : pc[p] \in Locked /\ pc[q] \in Locked => p = q
  /\ \A p \in lock : pc[p] \in Locked

\* A run directory belongs to the process that created it, for good: no other
\* training, status request or late failure mark gives it away.
DirectoryKeepsOwner ==
  [][\A t \in ModelTypes :
       manifest[t].status # "none" => manifest'[t].owner = manifest[t].owner]_vars

\* A worker's manifest says "succeeded" only of a training that returned and
\* left its checkpoint, and keeps it; a CLI training's only of one that returned.
SucceededIsReal ==
  \A t \in ModelTypes :
    LET p == manifest[t].owner
    IN manifest[t].status = "succeeded" =>
         outcome[p] = "returned" /\ (p \in WorkerRuns => t \in checkpoints)

\* Only what has ended is reported interrupted
\* (mark_interrupted_if_stale: "processes that have disappeared").
InterruptedMeansGone ==
  \A t \in ModelTypes :
    manifest[t].status = "interrupted" => pc[manifest[t].owner] \in Ended

\* Past its training, whatever came of it.
Past == {"raised", "failing", "put_failed", "marked", "leaving", "aborting",
         "late", "put_late", "over"} \cup Ended

\* The platform's two tables and the manifests are written one after the other,
\* in either order, by processes that may die in between.  Still "success" stands
\* in a table only after a training that returned, with its checkpoint if a
\* worker ran it, and "failed" only after one whose manifest does not say
\* "succeeded".  (A "success" says nothing of the manifest, written after it.)
PlatformTellsTruth ==
  \A k \in Tables :
    /\ platform[k] = "success" =>
         \E p \in Runs : outcome[p] = "returned" /\ (p \in WorkerRuns => type[p] \in checkpoints)
    /\ platform[k] = "failed" =>
         \E p \in Runs :
           /\ pc[p] \in Past /\ outcome[p] # "none"
           /\ manifest[type[p]] # [status |-> "succeeded", owner |-> p]

\* An answer of the status endpoint is true of the training it is about:
\* RUNNING is never said of a process that was gone when the request came in,
\* its PID reused or not, SUCCEEDED only after the trainer returned, and FAILED
\* never while the training still goes on.
AnswerIsTrue ==
  \A r \in Readers :
    LET p == manifest[topic[r]].owner
    IN /\ answer[r] = "RUNNING" => p \notin goneAtAsk[r]
       /\ answer[r] = "SUCCEEDED" => outcome[p] = "returned"
       /\ answer[r] = "FAILED" => pc[p] \in Past

\* mark_interrupted_if_stale speaks of unfinished runs only: what is finished
\* stays as it is.
FinishedStaysFinished ==
  [][\A t \in ModelTypes :
       manifest[t].status \in Finished => manifest'[t].status = manifest[t].status]_vars

\* Polling settles every run: a directory that exists ends up with a final
\* status, through crashes, failing disks and reused PIDs, unless a job row
\* answers for the ModelInfoID.
RunSettles ==
  \A t \in ModelTypes :
    manifest[t].status # "none" ~> manifest[t].status \in Finished \/ registered
=============================================================================
