------------------------- MODULE TrainingSystemProofs -------------------------
(***************************************************************************)
(* Queue and run directories together, for any number of jobs, workers,    *)
(* crashes, model types and CLI trainings: every step of the system is a   *)
(* step of TrainingQueue and a step of RunControl, so that what is proved  *)
(* of each of them holds of the whole, and the row and the manifest of a   *)
(* job agree.                                                              *)
(***************************************************************************)
EXTENDS TrainingSystem, TLAPS

\* The two components with their theorems.
QP == INSTANCE TrainingQueueProofs
  WITH Identities <- {Identity}, plan <- [j \in Jobs |-> PlanOf(type[j])],
       runDirs <- Dirs, outcome <- trained

RP == INSTANCE RunControlProofs
  WITH WorkerRuns <- Jobs, NoRun <- NoJob, Visible <- Jobs \cup CliRuns,
       registered <- Registered, reused <- {}, Readers <- {}, reader <- <<>>,
       topic <- <<>>, seen <- <<>>, answer <- <<>>, goneAtAsk <- <<>>

-----------------------------------------------------------------------------
(* The inductive invariant: that of each component and what links them.    *)

\* The manifest of the job's directory says that this job succeeded.
Succeeded(j) == manifest[type[j]].status = "succeeded" /\ manifest[type[j]].owner = j

\* A claimed job has no run directory yet, or could not get one.
Unpublished == {"new", "locked", "staged", "leaving"}

\* How far its run has come tells the task what it has learned of it.
TaskFollowsRun(w, j) ==
  /\ worker[w] = "claimed" => pc[j] \in Unpublished /\ ~Succeeded(j)
  /\ worker[w] = "training" => pc[j] \in RP!Owning
  /\ worker[w] = "trained" =>
       pc[j] \in {"leaving", "over"} /\ Succeeded(j) /\ type[j] \in checkpoints
  /\ worker[w] = "failing" =>
       /\ pc[j] \in {"new", "over"}
       /\ row[j] = "RUNNING" /\ j \notin faulted => ~Succeeded(j)

TaskInv == \A w \in Workers, j \in Jobs : QP!Executes(w, j) => TaskFollowsRun(w, j)

\* A run starts after the claim, and a terminal row agrees with the manifest.
RowInv ==
  \A j \in Jobs :
    /\ row[j] \in {"ABSENT", "QUEUED"} => pc[j] = "new"
    /\ row[j] = "SUCCEEDED" => Succeeded(j) /\ type[j] \in checkpoints
    /\ row[j] = "FAILED" /\ j \notin faulted => ~Succeeded(j)

Link == TaskInv /\ RowInv

IInv == QP!IInv /\ RP!IInv /\ RP!PlatformInv /\ Link

-----------------------------------------------------------------------------
(* One action, two names: the proof modules are instances of their own.    *)

LEMMA Assumptions == RP!RunAssumption /\ QP!ConstantsAssumption
BY SystemAssumption DEF RP!RunAssumption, RP!Runs, QP!ConstantsAssumption

LEMMA QueueActions ==
  ASSUME NEW j
  PROVE  /\ Queue!RefuseRequest(j) => QP!RefuseRequest(j)
         /\ Queue!HandlerStep(j) => QP!HandlerStep(j)
         /\ Queue!ApiCrash(j) => QP!ApiCrash(j)
         /\ Queue!Redeliver(j) => QP!Redeliver(j)
<1> USE DEF Queue!api, QP!api, Queue!broker, QP!broker, Queue!workers, QP!workers,
            Queue!history, QP!history, Queue!Answer, QP!Answer
<1>1. Queue!RefuseRequest(j) => QP!RefuseRequest(j)
  BY DEF Queue!RefuseRequest, QP!RefuseRequest
<1>2. Queue!CheckTarget(j) => QP!CheckTarget(j)
  BY DEF Queue!CheckTarget, QP!CheckTarget
<1>3. Queue!CreateQueued(j) => QP!CreateQueued(j)
  BY DEF Queue!CreateQueued, QP!CreateQueued, Queue!IdentityTaken, QP!IdentityTaken
<1>4. Queue!ReadBack(j) => QP!ReadBack(j)
  BY DEF Queue!ReadBack, QP!ReadBack
<1>5. Queue!Enqueue(j) => QP!Enqueue(j)
  BY DEF Queue!Enqueue, QP!Enqueue
<1>6. Queue!Withdraw(j) => QP!Withdraw(j)
  BY DEF Queue!Withdraw, QP!Withdraw, Queue!Deletable, QP!Deletable
<1>7. Queue!ApiCrash(j) => QP!ApiCrash(j)
  BY DEF Queue!ApiCrash, QP!ApiCrash, Queue!InFlight, QP!InFlight
<1>8. Queue!Redeliver(j) => QP!Redeliver(j)
  BY DEF Queue!Redeliver, QP!Redeliver
<1>. QED
  BY <1>1, <1>2, <1>3, <1>4, <1>5, <1>6, <1>7, <1>8 DEF Queue!HandlerStep, QP!HandlerStep

LEMMA WorkerActions ==
  ASSUME NEW w, NEW j
  PROVE  /\ Queue!Executes(w, j) <=> QP!Executes(w, j)
         /\ Queue!Deliver(w, j) => QP!Deliver(w, j)
         /\ Queue!Claim(w, j) => QP!Claim(w, j)
         /\ Queue!CreateRun(w, j) => QP!CreateRun(w, j)
         /\ Queue!Train(w, j) => QP!Train(w, j)
         /\ Queue!MarkSucceeded(w, j) => QP!MarkSucceeded(w, j)
         /\ Queue!MarkFailed(w, j) => QP!MarkFailed(w, j)
         /\ Queue!Ack(w, j) => QP!Ack(w, j)
         /\ Queue!WorkerCrash(w, j) => QP!WorkerCrash(w, j)
         /\ Queue!ChildKilled(w, j) => QP!ChildKilled(w, j)
         /\ Queue!Restart(w) => QP!Restart(w)
<1> USE DEF Queue!api, QP!api, Queue!broker, QP!broker, Queue!workers, QP!workers,
            Queue!history, QP!history, Queue!Goto, QP!Goto, Queue!Executing, QP!Executing,
            Queue!FromRunning, QP!FromRunning
<1>1. Queue!Executes(w, j) <=> QP!Executes(w, j)
  BY DEF Queue!Executes, QP!Executes
<1>2. Queue!Deliver(w, j) => QP!Deliver(w, j)
  BY DEF Queue!Deliver, QP!Deliver, Queue!UnackedOnDelivery, QP!UnackedOnDelivery
<1>3. Queue!Claim(w, j) => QP!Claim(w, j)
  BY DEF Queue!Claim, QP!Claim, Queue!Claimable, QP!Claimable
<1>4. Queue!CreateRun(w, j) => QP!CreateRun(w, j)
  BY DEF Queue!CreateRun, QP!CreateRun
<1>5. Queue!Train(w, j) => QP!Train(w, j)
  BY DEF Queue!Train, QP!Train
<1>6. Queue!MarkSucceeded(w, j) => QP!MarkSucceeded(w, j)
  BY DEF Queue!MarkSucceeded, QP!MarkSucceeded
<1>7. Queue!MarkFailed(w, j) => QP!MarkFailed(w, j)
  BY DEF Queue!MarkFailed, QP!MarkFailed
<1>8. Queue!Ack(w, j) => QP!Ack(w, j)
  BY DEF Queue!Ack, QP!Ack
<1>9. Queue!WorkerCrash(w, j) => QP!WorkerCrash(w, j)
  BY DEF Queue!WorkerCrash, QP!WorkerCrash
<1>10. Queue!ChildKilled(w, j) => QP!ChildKilled(w, j)
  BY DEF Queue!ChildKilled, QP!ChildKilled
<1>11. Queue!Restart(w) => QP!Restart(w)
  BY DEF Queue!Restart, QP!Restart
<1>. QED
  BY <1>1, <1>2, <1>3, <1>4, <1>5, <1>6, <1>7, <1>8, <1>9, <1>10, <1>11

LEMMA RunActions ==
  ASSUME NEW p
  PROVE  /\ Runs!RunStep(p) <=> RP!RunStep(p)
         /\ Runs!SaveCheckpoint(p) <=> RP!SaveCheckpoint(p)
         /\ Runs!Crash(p) <=> RP!Crash(p)
<1> USE DEF Runs!disk, RP!disk, Runs!procs, RP!procs, Runs!env, RP!env, Runs!polling, RP!polling,
            Runs!Goto, RP!Goto, Runs!AfterError, RP!AfterError, Runs!Put, RP!Put,
            Runs!Mark, RP!Mark, Runs!MarkRunning, RP!MarkRunning, Runs!Statuses, RP!Statuses,
            Runs!DirExists, RP!DirExists
<1>1. Runs!Acquire(p) <=> RP!Acquire(p)
  BY DEF Runs!Acquire, RP!Acquire, Runs!LockFree, RP!LockFree
<1>2. Runs!Reserve(p) <=> RP!Reserve(p)
  BY DEF Runs!Reserve, RP!Reserve
<1>3. Runs!Publish(p) <=> RP!Publish(p)
  BY DEF Runs!Publish, RP!Publish
<1>4. Runs!ReadManifest(p) <=> RP!ReadManifest(p)
  BY DEF Runs!ReadManifest, RP!ReadManifest
<1>5. Runs!WriteManifest(p) <=> RP!WriteManifest(p)
  BY DEF Runs!WriteManifest, RP!WriteManifest
<1>6. Runs!Announce(p) <=> RP!Announce(p)
  BY DEF Runs!Announce, RP!Announce
<1>7. Runs!EndTraining(p) <=> RP!EndTraining(p)
  BY DEF Runs!EndTraining, RP!EndTraining
<1>8. Runs!Conclude(p) <=> RP!Conclude(p)
  BY DEF Runs!Conclude, RP!Conclude, Runs!Validated, RP!Validated
<1>9. Runs!MarkFailed(p) <=> RP!MarkFailed(p)
  BY DEF Runs!MarkFailed, RP!MarkFailed
<1>10. Runs!Release(p) <=> RP!Release(p)
  BY DEF Runs!Release, RP!Release
<1>11. Runs!MarkLate(p) <=> RP!MarkLate(p)
  BY DEF Runs!MarkLate, RP!MarkLate
<1>12. Runs!SaveCheckpoint(p) <=> RP!SaveCheckpoint(p)
  BY DEF Runs!SaveCheckpoint, RP!SaveCheckpoint
<1>13. Runs!Crash(p) <=> RP!Crash(p)
  BY DEF Runs!Crash, RP!Crash, Runs!LockAfterCrash, RP!LockAfterCrash, Runs!Ended, RP!Ended
<1>. QED
  BY <1>1, <1>2, <1>3, <1>4, <1>5, <1>6, <1>7, <1>8, <1>9, <1>10, <1>11, <1>12, <1>13
     DEF Runs!RunStep, RP!RunStep

-----------------------------------------------------------------------------
(* What one step of a run does.                                            *)

LEMMA PlanOfInjective ==
  ASSUME NEW t \in ModelTypes
  PROVE  PlanOf(t) \in Dirs <=> manifest[t].status # "none"
BY DEF PlanOf, Dirs

\* The path of a job's run, which takes no step once it is over.
LEMMA RunPath ==
  ASSUME RP!IInv, NEW j \in Jobs, RP!RunStep(j)
  PROVE  /\ type' = type
         /\ \A q \in RP!Runs \ {j} : pc'[q] = pc[q]
         /\ pc[j] \in {"new", "locked", "staged"} =>
              \/ pc'[j] \in {"locked", "staged", "leaving", "over"}
              \/ pc[j] = "staged" /\ pc'[j] = "starting"
         /\ pc[j] = "leaving" => pc'[j] = "over"
         /\ pc[j] \in RP!Owning =>
              \/ pc'[j] \in (RP!Owning \ {"starting"}) \cup {"over"}
              \/ pc[j] = "put_succeeded" /\ pc'[j] = "leaving"
         /\ pc[j] # "over"
<1> USE DEF RP!Goto, RP!AfterError, RP!Owning, RP!Reading, RP!Writing, RP!IInv, RP!TypeOK, RP!Runs
<1>1. CASE RP!Acquire(j) \/ RP!Reserve(j) \/ RP!Publish(j)
  BY <1>1 DEF RP!Acquire, RP!Reserve, RP!Publish
<1>2. CASE RP!ReadManifest(j)
  BY <1>2 DEF RP!ReadManifest
<1>3. CASE RP!WriteManifest(j)
  BY <1>3 DEF RP!WriteManifest
<1>4. CASE RP!Announce(j) \/ RP!EndTraining(j) \/ RP!Conclude(j)
  BY <1>4 DEF RP!Announce, RP!EndTraining, RP!Conclude
<1>5. CASE RP!MarkFailed(j)
  BY <1>5, SystemAssumption DEF RP!MarkFailed
<1>6. CASE RP!Release(j) \/ RP!MarkLate(j)
  BY <1>6 DEF RP!Release, RP!MarkLate
<1>. QED
  BY <1>1, <1>2, <1>3, <1>4, <1>5, <1>6 DEF RP!RunStep

\* A run publishes its directory once and then writes to no other, and no more
\* once the manifest says "succeeded".
LEMMA RunWrites ==
  ASSUME RP!IInv, RP!SucceededIsPast, NEW p \in RP!Runs, RP!RunStep(p)
  PROVE  /\ type' = type /\ type[p] \in ModelTypes
         /\ \A t \in ModelTypes \ {type[p]} : manifest'[t] = manifest[t]
         /\ \/ /\ pc[p] = "staged" /\ pc'[p] = "starting"
               /\ manifest[type[p]].status = "none" /\ manifest'[type[p]].status # "none"
            \/ pc'[p] # "starting" /\ UNCHANGED manifest
            \/ /\ pc'[p] # "starting"
               /\ manifest[type[p]].status \notin {"none", "succeeded"}
               /\ manifest'[type[p]].status # "none"
<1>1. type' = type /\ type[p] \in ModelTypes
  BY DEF RP!IInv, RP!TypeOK, RP!RunStep, RP!Acquire, RP!Reserve, RP!Publish, RP!ReadManifest,
     RP!WriteManifest, RP!Announce, RP!EndTraining, RP!Conclude, RP!MarkFailed, RP!Release,
     RP!MarkLate
<1>2. CASE RP!Publish(p)
  BY <1>1, <1>2 DEF RP!Publish, RP!Goto, RP!DirExists, RP!IInv, RP!TypeOK
<1>3. ASSUME pc[p] \in RP!Writing \cup {"put_late"}
      PROVE  manifest[type[p]].status \notin {"none", "succeeded"}
  BY <1>3 DEF RP!IInv, RP!OwnerInv, RP!Owning, RP!Writing, RP!SucceededIsPast, RP!Closing, RP!Ended,
     RP!TypeOK
<1>4. CASE RP!WriteManifest(p)
  <2>1. pc[p] \in RP!Writing /\ pc'[p] # "starting"
    BY <1>4 DEF RP!WriteManifest, RP!Goto, RP!Writing, RP!AfterError, RP!IInv, RP!TypeOK
  <2>2. \/ UNCHANGED manifest
        \/ /\ \A t \in ModelTypes \ {type[p]} : manifest'[t] = manifest[t]
           /\ manifest'[type[p]].status \in {"running", "succeeded", "failed"}
    BY <1>4, RP!WriteFields, Assumptions DEF RP!IInv
  <2>. QED
    BY <1>1, <1>3, <2>1, <2>2
<1>5. CASE RP!MarkLate(p)
  <2>1. pc'[p] # "starting"
    BY <1>5 DEF RP!MarkLate, RP!Goto, RP!IInv, RP!TypeOK
  <2>2. \/ UNCHANGED manifest
        \/ /\ \A t \in ModelTypes \ {type[p]} : manifest'[t] = manifest[t]
           /\ manifest'[type[p]].status = "failed" /\ pc[p] = "put_late"
    BY <1>5, RP!LateFields, Assumptions DEF RP!IInv
  <2>. QED
    BY <1>1, <1>3, <2>1, <2>2
<1>6. CASE UNCHANGED manifest /\ pc'[p] # "starting"
  BY <1>1, <1>6
<1>7. \/ RP!Publish(p) \/ RP!WriteManifest(p) \/ RP!MarkLate(p)
      \/ UNCHANGED manifest /\ pc'[p] # "starting"
  BY DEF RP!RunStep, RP!Acquire, RP!Reserve, RP!ReadManifest, RP!Announce, RP!EndTraining,
     RP!Conclude, RP!MarkFailed, RP!Release, RP!Goto, RP!AfterError, RP!disk, RP!IInv, RP!TypeOK
<1>. QED
  BY <1>2, <1>4, <1>5, <1>6, <1>7

-----------------------------------------------------------------------------
(* Every step is a step of the queue and a step of the run directories.    *)

\* The directories change when a run publishes its own and not otherwise.
LEMMA RunDirs ==
  ASSUME RP!IInv, RP!SucceededIsPast, NEW p \in RP!Runs, RP!RunStep(p)
  PROVE  \/ /\ pc[p] = "staged" /\ pc'[p] = "starting"
            /\ PlanOf(type[p]) \notin Dirs /\ Dirs' = Dirs \cup {PlanOf(type[p])}
         \/ pc'[p] # "starting" /\ Dirs' = Dirs
<1>1. \A t \in ModelTypes \ {type[p]} : manifest'[t] = manifest[t]
  BY RunWrites
<1>2. type[p] \in ModelTypes
  BY RunWrites
<1>3. CASE /\ pc[p] = "staged" /\ pc'[p] = "starting"
           /\ manifest[type[p]].status = "none" /\ manifest'[type[p]].status # "none"
  <2>1. PlanOf(type[p]) \notin Dirs
    BY <1>2, <1>3, PlanOfInjective
  <2>2. {t \in ModelTypes : manifest'[t].status # "none"} =
           {t \in ModelTypes : manifest[t].status # "none"} \cup {type[p]}
    BY <1>1, <1>2, <1>3
  <2>. QED
    BY <1>3, <2>1, <2>2 DEF Dirs
<1>4. CASE \/ pc'[p] # "starting" /\ UNCHANGED manifest
           \/ /\ pc'[p] # "starting"
              /\ manifest[type[p]].status \notin {"none", "succeeded"}
              /\ manifest'[type[p]].status # "none"
  <2>1. {t \in ModelTypes : manifest'[t].status # "none"} =
           {t \in ModelTypes : manifest[t].status # "none"}
    BY <1>1, <1>2, <1>4
  <2>. QED
    BY <1>4, <2>1 DEF Dirs
<1>. QED
  BY <1>3, <1>4, RunWrites

LEMMA SameQueue ==
  ASSUME UNCHANGED queue, type' = type, Dirs' = Dirs
  PROVE  UNCHANGED QP!vars /\ UNCHANGED Queue!vars
BY DEF queue, PlanOf, QP!vars, QP!api, QP!broker, QP!workers, QP!history,
   Queue!vars, Queue!api, Queue!broker, Queue!workers, Queue!history

LEMMA QueueRefined ==
  IInv /\ [Next]_vars => [QP!Next]_(QP!vars) /\ [Queue!Next]_(Queue!vars)
<1> DEFINE QueueNext == QP!Next /\ Queue!Next
           Stutters == UNCHANGED QP!vars /\ UNCHANGED Queue!vars
<1> SUFFICES ASSUME IInv, [Next]_vars PROVE QueueNext \/ Stutters
  OBVIOUS
<1> USE DEF IInv, RP!PlatformInv
<1>1. CASE UNCHANGED vars
  BY <1>1, SameQueue DEF vars, runs, Dirs
<1>2. CASE QueueStep
  BY <1>2, QueueActions, WorkerActions DEF QueueStep, QP!Next, Queue!Next
<1>3. ASSUME NEW w \in Workers, NEW j \in Jobs, InvalidPlan(w, j) \/ OwnStep(w, j) \/ Die(w, j)
      PROVE  QueueNext
  BY <1>3, WorkerActions DEF InvalidPlan, OwnStep, Die, QP!Next, QP!TaskStep,
     Queue!Next, Queue!TaskStep
<1>4. ASSUME NEW w \in Workers, NEW j \in Jobs, ExecuteTask(w, j)
      PROVE  QueueNext \/ Stutters
  <2>1. CASE Queue!CreateRun(w, j) \/ Queue!Train(w, j)
    BY <2>1, WorkerActions DEF QP!Next, QP!TaskStep, Queue!Next, Queue!TaskStep
  <2>2. CASE UNCHANGED queue /\ (worker[w] = "claimed" => pc'[j] \notin {"starting", "over"})
    <3>1. RP!RunStep(j) /\ QP!Executes(w, j) /\ worker[w] \in {"claimed", "training", "trained"}
      BY <1>4, RunActions, WorkerActions DEF ExecuteTask, TaskLearns
    <3>2. pc'[j] # "starting"
      BY <2>2, <3>1, RunPath DEF Link, TaskInv, TaskFollowsRun
    <3>3. Dirs' = Dirs /\ type' = type
      BY <3>1, <3>2, RunDirs, RunPath DEF RP!Runs
    <3>. QED
      BY <2>2, <3>3, SameQueue
  <2>. QED
    BY <1>4, <2>1, <2>2 DEF ExecuteTask, TaskLearns
<1>5. ASSUME NEW c \in CliRuns, CliStep(c)
      PROVE  QueueNext \/ Stutters
  <2>1. c \in RP!Runs /\ RP!RunStep(c) /\ UNCHANGED queue
    BY <1>5, RunActions DEF CliStep, RP!Runs
  <2>2. type' = type /\ type[c] \in ModelTypes
    BY <2>1, RunWrites
  <2>3. CASE PlanOf(type[c]) \notin Dirs /\ Dirs' = Dirs \cup {PlanOf(type[c])}
    <3>1. QP!CliRun(PlanOf(type[c])) /\ Queue!CliRun(PlanOf(type[c]))
      BY <2>1, <2>2, <2>3 DEF queue, PlanOf, QP!CliRun, QP!api, QP!broker, QP!workers, QP!history,
         Queue!CliRun, Queue!api, Queue!broker, Queue!workers, Queue!history
    <3>2. PlanOf(type[c]) \in QP!Plan /\ PlanOf(type[c]) \in Queue!Plan
      BY <2>2 DEF PlanOf, QP!Plan, Queue!Plan
    <3>. QED
      BY <3>1, <3>2 DEF QP!Next, Queue!Next
  <2>. QED
    BY <2>1, <2>2, <2>3, RunDirs, SameQueue
<1>6. CASE ProcessStep
  BY <1>6, SameQueue DEF ProcessStep, Runs!SaveCheckpoint, Runs!Crash, Runs!procs, Runs!disk, Dirs
<1>7. ASSUME NEW w \in Workers, NEW j \in Jobs, SaveCheckpoint(w, j)
      PROVE  Stutters
  BY <1>7, SameQueue DEF SaveCheckpoint, Runs!SaveCheckpoint, Runs!procs, Dirs
<1>. QED
  BY <1>1, <1>2, <1>3, <1>4, <1>5, <1>6, <1>7 DEF Next, TaskStep

\* How a step of the queue changes the row of a job.
LEMMA RowMoves ==
  ASSUME QP!IInv, [QP!Next]_(QP!vars), NEW j \in Jobs
  PROVE  \/ row'[j] = row[j]
         \/ row[j] = "ABSENT" /\ row'[j] = "QUEUED"
         \/ row[j] = "QUEUED" /\ row'[j] \in {"ABSENT", "RUNNING"}
         \/ row[j] = "RUNNING" /\ row'[j] \in {"SUCCEEDED", "FAILED"}
<1>0. row \in [Jobs -> QP!RowStatus]
  BY DEF QP!IInv, QP!TypeOK
<1>1. CASE UNCHANGED row
  BY <1>1
<1>2. ASSUME NEW k \in Jobs, QP!CreateQueued(k)
      PROVE  \/ row' = row
             \/ row[k] = "ABSENT" /\ row' = [row EXCEPT ![k] = "QUEUED"]
  BY <1>2 DEF QP!CreateQueued, QP!Answer, QP!HandlerInv, QP!IInv
<1>3. ASSUME NEW k \in Jobs, QP!Withdraw(k)
      PROVE  \/ row' = row
             \/ row[k] = "QUEUED" /\ row' = [row EXCEPT ![k] = "ABSENT"]
  BY <1>0, <1>3 DEF QP!Withdraw, QP!Deletable
<1>4. ASSUME NEW w \in Workers, NEW k \in Jobs, QP!Claim(w, k)
      PROVE  \/ row' = row
             \/ row[k] = "QUEUED" /\ row' = [row EXCEPT ![k] = "RUNNING"]
  BY <1>4 DEF QP!Claim, QP!Claimable
<1>5. ASSUME NEW w \in Workers, NEW k \in Jobs, QP!MarkSucceeded(w, k) \/ QP!MarkFailed(w, k)
      PROVE  \/ row' = row
             \/ row[k] = "RUNNING" /\ row' = [row EXCEPT ![k] = "SUCCEEDED"]
             \/ row[k] = "RUNNING" /\ row' = [row EXCEPT ![k] = "FAILED"]
  BY <1>5 DEF QP!MarkSucceeded, QP!MarkFailed, QP!FromRunning
<1>6. \/ UNCHANGED row
      \/ \E k \in Jobs : QP!CreateQueued(k) \/ QP!Withdraw(k)
      \/ \E w \in Workers, k \in Jobs :
           QP!Claim(w, k) \/ QP!MarkSucceeded(w, k) \/ QP!MarkFailed(w, k)
  BY DEF QP!Next, QP!HandlerStep, QP!TaskStep, QP!RefuseRequest, QP!CheckTarget, QP!ReadBack,
     QP!Enqueue, QP!ApiCrash, QP!Redeliver, QP!Deliver, QP!CreateRun, QP!Train, QP!Ack,
     QP!WorkerCrash, QP!ChildKilled, QP!Restart, QP!CliRun, QP!vars
<1>. QED
  BY <1>0, <1>1, <1>2, <1>3, <1>4, <1>5, <1>6

\* A step of the queue alone leaves the run directories as they are, and the
\* ModelInfoID loses its last row only while no run has started.
LEMMA RowAppearsAndGoes ==
  ASSUME IInv, UNCHANGED runs, [QP!Next]_(QP!vars)
  PROVE  [RP!Next]_(RP!vars) /\ [Runs!Next]_(Runs!vars)
<1> USE DEF runs, RP!vars, RP!disk, RP!procs, RP!env, RP!polling, Runs!vars, Runs!disk,
            Runs!procs, Runs!env, Runs!polling
<1>1. CASE Registered' = Registered
  BY <1>1
<1>2. CASE ~Registered /\ Registered'
  BY <1>2 DEF RP!Register, RP!Next, Runs!Register, Runs!Next, Registered
<1>3. CASE Registered /\ ~Registered'
  <2>1. \A j \in Jobs : pc[j] = "new"
    BY <1>3, RowMoves DEF Registered, IInv, Link, RowInv
  <2>. QED
    BY <1>3, <2>1 DEF RP!Unregister, RP!Next, Runs!Unregister, Runs!Next, Registered
<1>. QED
  BY <1>1, <1>2, <1>3 DEF Registered

LEMMA RunsRefined ==
  IInv /\ [Next]_vars => [RP!Next]_(RP!vars) /\ [Runs!Next]_(Runs!vars)
<1> SUFFICES ASSUME IInv, [Next]_vars
             PROVE  [RP!Next]_(RP!vars) /\ [Runs!Next]_(Runs!vars)
  OBVIOUS
<1>1. CASE UNCHANGED runs
  BY <1>1, QueueRefined, RowAppearsAndGoes DEF IInv
<1>2. ASSUME NEW p \in RP!Runs, Runs!RunStep(p) \/ Runs!SaveCheckpoint(p) \/ Runs!Crash(p)
      PROVE  RP!Next /\ Runs!Next
  BY <1>2, RunActions DEF RP!Next, RP!Runs, Runs!Next, Runs!Runs
<1>. QED
  BY <1>1, <1>2 DEF Next, QueueStep, ProcessStep, TaskStep, ExecuteTask, InvalidPlan, OwnStep,
     SaveCheckpoint, Die, CliStep, RP!Runs, vars

-----------------------------------------------------------------------------
(* The link between the two is kept.                                       *)

\* Without status requests nothing replaces a manifest that says "succeeded".
LEMMA SuccessStays ==
  ASSUME IInv, [Next]_vars, NEW j \in Jobs
  PROVE  /\ type' = type /\ checkpoints \subseteq checkpoints'
         /\ Succeeded(j) => Succeeded(j)'
<1>1. type' = type /\ checkpoints \subseteq checkpoints'
  BY RunsRefined, RP!Moving, Assumptions DEF IInv, RP!IInv, RP!Moves
<1>2. type[j] \in ModelTypes
  BY DEF IInv, RP!IInv, RP!TypeOK, RP!Runs
<1>3. ASSUME NEW p \in RP!Runs, Runs!RunStep(p), Succeeded(j)
      PROVE  manifest'[type[j]] = manifest[type[j]]
  <2>1. RP!RunStep(p)
    BY <1>3, RunActions
  <2>. QED
    BY <1>2, <1>3, <2>1, RunWrites DEF IInv, RP!PlatformInv, Succeeded
<1>4. ASSUME NEW p \in RP!Runs, Runs!SaveCheckpoint(p) \/ Runs!Crash(p)
      PROVE  manifest' = manifest
  BY <1>4 DEF Runs!SaveCheckpoint, Runs!Crash, Runs!disk
<1>5. UNCHANGED runs => manifest' = manifest
  BY DEF runs
<1>6. \/ UNCHANGED runs
      \/ \E p \in RP!Runs : Runs!RunStep(p) \/ Runs!SaveCheckpoint(p) \/ Runs!Crash(p)
  BY DEF Next, QueueStep, ProcessStep, TaskStep, ExecuteTask, InvalidPlan, OwnStep,
     SaveCheckpoint, Die, CliStep, RP!Runs, vars
<1>. QED
  BY <1>1, <1>3, <1>4, <1>5, <1>6 DEF Succeeded

\* A manifest comes to say "succeeded" only by the last write of its own run.
LEMMA SuccessIsOwn ==
  ASSUME IInv, [Next]_vars, NEW j \in Jobs, Succeeded(j)', ~Succeeded(j)
  PROVE  pc[j] = "put_succeeded" /\ pc'[j] = "leaving"
<1>1. RP!SuccessesWritten
  BY RunsRefined, RP!SuccessWritten, Assumptions DEF IInv, RP!IInv
<1>2. type' = type /\ type[j] \in ModelTypes
  BY SuccessStays DEF IInv, RP!IInv, RP!TypeOK, RP!Runs
<1>. QED
  BY <1>1, <1>2 DEF RP!SuccessesWritten, Succeeded

\* It is enough to look at the jobs whose run, row or worker has moved.
LEMMA RunAlone ==
  ASSUME IInv, [Next]_vars, UNCHANGED queue, \A j \in Jobs : pc'[j] = pc[j]
  PROVE  Link'
<1>1. \A j \in Jobs : /\ Succeeded(j)' <=> Succeeded(j)
                     /\ type' = type /\ checkpoints \subseteq checkpoints'
  BY SuccessStays, SuccessIsOwn
<1>. QED
  BY <1>1 DEF IInv, Link, TaskInv, TaskFollowsRun, RowInv, QP!Executes, queue, RP!Owning,
     RP!Reading, RP!Writing

\* A step of the queue alone keeps whatever it does not disturb.
LEMMA QueueAlone ==
  ASSUME IInv, [Next]_vars, UNCHANGED runs,
         \A w \in Workers, j \in Jobs :
           QP!Executes(w, j)' => QP!Executes(w, j) /\ worker'[w] = worker[w],
         faulted \subseteq faulted',
         \A j \in Jobs : row'[j] = row[j] \/ {row[j], row'[j]} \subseteq {"ABSENT", "QUEUED"}
  PROVE  Link'
<1>1. \A j \in Jobs : Succeeded(j)' <=> Succeeded(j)
  BY DEF runs, Succeeded
<1>2. TaskInv'
  BY <1>1 DEF IInv, Link, TaskInv, TaskFollowsRun, runs
<1>3. RowInv'
  BY <1>1 DEF IInv, Link, RowInv, runs
<1>. QED
  BY <1>2, <1>3 DEF Link

LEMMA QueueStepLinks ==
  ASSUME IInv, [Next]_vars, QueueStep
  PROVE  Link'
<1> USE DEF QP!Executes, QP!Executing, QP!api, QP!broker, QP!workers, QP!history
<1>0. row \in [Jobs -> QP!RowStatus]
  BY DEF IInv, QP!IInv, QP!TypeOK
<1>1. ASSUME NEW j \in Jobs, \/ QP!RefuseRequest(j) \/ QP!HandlerStep(j)
                             \/ QP!ApiCrash(j) \/ QP!Redeliver(j)
      PROVE  /\ UNCHANGED <<worker, task>>
             /\ faulted \subseteq faulted'
             /\ \A k \in Jobs : row'[k] = row[k] \/ {row[k], row'[k]} \subseteq {"ABSENT", "QUEUED"}
  <2>1. CASE QP!CreateQueued(j)
    BY <1>0, <2>1 DEF QP!CreateQueued, QP!Answer, IInv, QP!IInv, QP!HandlerInv
  <2>2. CASE QP!Withdraw(j)
    BY <1>0, <2>2 DEF QP!Withdraw, QP!Answer, QP!Deletable
  <2>3. CASE QP!CheckTarget(j) \/ QP!ReadBack(j) \/ QP!Enqueue(j)
    BY <2>3 DEF QP!CheckTarget, QP!ReadBack, QP!Enqueue
  <2>4. CASE QP!RefuseRequest(j) \/ QP!ApiCrash(j) \/ QP!Redeliver(j)
    BY <2>4 DEF QP!RefuseRequest, QP!ApiCrash, QP!Redeliver
  <2>. QED
    BY <1>1, <2>1, <2>2, <2>3, <2>4 DEF QP!HandlerStep
<1>2. ASSUME NEW w \in Workers, QP!Restart(w) \/ \E j \in Jobs : QP!Deliver(w, j)
      PROVE  /\ \A v \in Workers : worker'[v] \in QP!Executing =>
                  worker'[v] = worker[v] /\ task'[v] = task[v]
             /\ UNCHANGED <<row, faulted>>
  BY <1>2 DEF QP!Restart, QP!Deliver, IInv, QP!IInv, QP!TypeOK
<1>. QED
  BY <1>1, <1>2, QueueActions, WorkerActions, QueueAlone DEF QueueStep

LEMMA InvalidPlanLinks ==
  ASSUME IInv, [Next]_vars, NEW w \in Workers, NEW j \in Jobs, InvalidPlan(w, j)
  PROVE  Link'
<1>1. /\ QP!Executes(w, j) /\ worker[w] = "claimed" /\ pc[j] = "new"
      /\ worker' = [worker EXCEPT ![w] = "failing"]
      /\ UNCHANGED <<runs, row, task, faulted>>
  BY DEF InvalidPlan, Queue!CreateRun, Queue!Goto, QP!Executes, QP!Executing, IInv, QP!IInv, QP!TypeOK
<1>2. \A k \in Jobs : Succeeded(k)' <=> Succeeded(k)
  BY <1>1 DEF runs, Succeeded
<1>3. ASSUME NEW v \in Workers, NEW k \in Jobs, QP!Executes(v, k)'
      PROVE  TaskFollowsRun(v, k)'
  <2>1. CASE v = w
    <3>1. k = j /\ worker'[v] = "failing"
      BY <1>1, <1>3, <2>1 DEF QP!Executes, IInv, QP!IInv, QP!TypeOK
    <3>. QED
      BY <1>1, <1>2, <3>1 DEF IInv, Link, TaskInv, TaskFollowsRun, runs
  <2>2. CASE v # w
    <3>1. QP!Executes(v, k) /\ worker'[v] = worker[v]
      BY <1>1, <1>3, <2>2 DEF QP!Executes, IInv, QP!IInv, QP!TypeOK
    <3>. QED
      BY <1>1, <1>2, <3>1 DEF IInv, Link, TaskInv, TaskFollowsRun, runs
  <2>. QED
    BY <2>1, <2>2
<1>4. RowInv'
  BY <1>1, <1>2 DEF IInv, Link, RowInv, runs
<1>. QED
  BY <1>3, <1>4 DEF Link, TaskInv

\* A claimed job has no run yet; a worker marks its row once the run is over.
LEMMA OwnStepLinks ==
  ASSUME IInv, [Next]_vars, NEW w \in Workers, NEW j \in Jobs, OwnStep(w, j)
  PROVE  Link'
<1> USE DEF QP!Executes, QP!Executing
<1>0. /\ row \in [Jobs -> QP!RowStatus] /\ worker \in [Workers -> QP!WorkerState]
      /\ task \in [Workers -> Jobs \cup {NoJob}]
  BY DEF IInv, QP!IInv, QP!TypeOK
<1>1. UNCHANGED runs /\ \A k \in Jobs : Succeeded(k)' <=> Succeeded(k)
  BY DEF OwnStep, runs, Succeeded
<1>2. faulted \subseteq faulted' /\ \A v \in Workers \ {w} : worker'[v] = worker[v] /\ task'[v] = task[v]
  BY <1>0 DEF OwnStep, Queue!Claim, Queue!MarkSucceeded, Queue!MarkFailed, Queue!Ack, Queue!Goto,
     Queue!history
<1>3. \A k \in Jobs \ {j} : row'[k] = row[k]
  BY <1>0 DEF OwnStep, Queue!Claim, Queue!MarkSucceeded, Queue!MarkFailed, Queue!Ack,
     Queue!FromRunning
<1>4. \/ /\ row[j] = "QUEUED" /\ row'[j] = "RUNNING"
         /\ worker'[w] \in {"claimed", "acking"} /\ task'[w] = j
      \/ /\ UNCHANGED row /\ worker'[w] \in {"acking", "idle"}
      \/ /\ worker[w] = "trained" /\ task[w] = j /\ pc[j] = "over" /\ row'[j] = "SUCCEEDED"
         /\ worker'[w] \in {"acking", "failing"} /\ task'[w] = j
      \/ /\ worker[w] = "trained" /\ task[w] = j /\ pc[j] = "over" /\ UNCHANGED row
         /\ worker'[w] = "failing" /\ task'[w] = j /\ j \in faulted'
      \/ /\ worker[w] = "failing" /\ task[w] = j /\ row[j] = "RUNNING" /\ row'[j] = "FAILED"
         /\ worker'[w] = "acking" /\ faulted' = faulted
  <2>1. CASE Queue!Claim(w, j)
    BY <1>0, <2>1 DEF Queue!Claim, Queue!Goto, Queue!Claimable
  <2>2. CASE pc[j] = "over" /\ Queue!MarkSucceeded(w, j)
    BY <1>0, <2>2 DEF Queue!MarkSucceeded, Queue!Goto, Queue!FromRunning
  <2>3. CASE Queue!MarkFailed(w, j)
    BY <1>0, <2>3 DEF Queue!MarkFailed, Queue!Goto, Queue!FromRunning
  <2>4. CASE Queue!Ack(w, j)
    BY <1>0, <2>4 DEF Queue!Ack
  <2>. QED
    BY <2>1, <2>2, <2>3, <2>4 DEF OwnStep
<1>5. ASSUME row[j] = "QUEUED"
      PROVE  pc[j] = "new" /\ ~Succeeded(j) /\ \A v \in Workers : ~QP!Executes(v, j)
  <2>1. pc[j] = "new"
    BY <1>5 DEF IInv, Link, RowInv
  <2>2. ~Succeeded(j)
    BY <2>1 DEF IInv, RP!PlatformInv, RP!SucceededIsPast, RP!Closing, RP!Ended, Succeeded, RP!IInv,
       RP!TypeOK, RP!Runs
  <2>. QED
    BY <1>5, <2>1, <2>2 DEF IInv, QP!IInv, QP!ExecutorInv, QP!Owns
<1>6. ASSUME NEW v \in Workers, NEW k \in Jobs, QP!Executes(v, k)'
      PROVE  TaskFollowsRun(v, k)'
  <2>1. CASE v # w
    <3>1. QP!Executes(v, k) /\ worker'[v] = worker[v] /\ TaskFollowsRun(v, k)
      BY <1>2, <1>6, <2>1 DEF IInv, Link, TaskInv
    <3>2. row'[k] = "RUNNING" => row[k] = "RUNNING"
      BY <1>3, <1>4, <1>5, <3>1
    <3>. QED
      BY <1>1, <1>2, <3>1, <3>2 DEF TaskFollowsRun, runs
  <2>2. CASE v = w
    BY <1>0, <1>1, <1>2, <1>4, <1>5, <1>6, <2>2 DEF TaskFollowsRun, runs, Unpublished, IInv, Link, TaskInv
  <2>. QED
    BY <2>1, <2>2
<1>7. ASSUME NEW k \in Jobs
      PROVE  /\ row'[k] \in {"ABSENT", "QUEUED"} => pc'[k] = "new"
             /\ row'[k] = "SUCCEEDED" => Succeeded(k)' /\ type'[k] \in checkpoints'
             /\ row'[k] = "FAILED" /\ k \notin faulted' => ~Succeeded(k)'
  <2>1. CASE row'[k] = row[k]
    BY <1>1, <1>2, <2>1 DEF IInv, Link, RowInv, runs
  <2>2. CASE k = j /\ row'[k] = "RUNNING"
    BY <2>2
  <2>3. CASE /\ k = j /\ task[w] = j
             /\ \/ worker[w] = "trained" /\ row'[j] = "SUCCEEDED"
                \/ /\ worker[w] = "failing" /\ row[j] = "RUNNING" /\ row'[j] = "FAILED"
                   /\ faulted' = faulted
    <3>1. TaskFollowsRun(w, j)
      BY <2>3 DEF IInv, Link, TaskInv
    <3>. QED
      BY <1>1, <2>3, <3>1 DEF TaskFollowsRun, runs
  <2>. QED
    BY <1>3, <1>4, <2>1, <2>2, <2>3
<1>. QED
  BY <1>6, <1>7 DEF Link, TaskInv, RowInv

\* Nobody executes the job of a worker that died.
LEMMA DieLinks ==
  ASSUME IInv, [Next]_vars, NEW w \in Workers, NEW j \in Jobs, Die(w, j)
  PROVE  Link'
<1>0. /\ worker \in [Workers -> QP!WorkerState] /\ task \in [Workers -> Jobs \cup {NoJob}]
      /\ pc \in [RP!Runs -> RP!RunState]
  BY DEF IInv, QP!IInv, QP!TypeOK, RP!IInv, RP!TypeOK
<1>1. /\ row' = row /\ faulted \subseteq faulted'
      /\ worker'[w] \notin QP!Executing
      /\ \A v \in Workers \ {w} : worker'[v] = worker[v] /\ task'[v] = task[v]
  BY <1>0 DEF Die, Queue!WorkerCrash, Queue!ChildKilled, Queue!Goto, QP!Executing
<1>2. /\ \A k \in RP!Runs \ {j} : pc'[k] = pc[k]
      /\ pc'[j] = pc[j] \/ (QP!Executes(w, j) /\ pc[j] # "new" /\ pc'[j] = "dead")
  <2>1. CASE UNCHANGED runs
    BY <2>1 DEF runs
  <2>2. CASE Runs!Crash(j) /\ Queue!Executes(w, j) /\ pc[j] # "new"
    BY <1>0, <2>2, WorkerActions DEF Runs!Crash, RP!Runs
  <2>. QED
    BY <2>1, <2>2 DEF Die
<1>3. ASSUME NEW k \in Jobs
      PROVE  /\ Succeeded(k)' <=> Succeeded(k)
             /\ type' = type /\ checkpoints \subseteq checkpoints'
  BY <1>2, SuccessStays, SuccessIsOwn DEF RP!Runs
<1>4. ASSUME NEW v \in Workers, NEW k \in Jobs, QP!Executes(v, k)'
      PROVE  TaskFollowsRun(v, k)'
  <2>1. v # w /\ QP!Executes(v, k) /\ worker'[v] = worker[v] /\ TaskFollowsRun(v, k)
    BY <1>1, <1>4 DEF QP!Executes, IInv, Link, TaskInv
  <2>2. pc'[k] = pc[k]
    BY <1>2, <2>1 DEF IInv, QP!IInv, QP!AtMostOnce, RP!Runs
  <2>. QED
    BY <1>1, <1>3, <2>1, <2>2 DEF TaskFollowsRun, RP!Owning, RP!Reading, RP!Writing
<1>5. ASSUME NEW k \in Jobs, row[k] \in {"ABSENT", "QUEUED"}
      PROVE  pc'[k] = "new"
  BY <1>2, <1>5 DEF IInv, Link, RowInv, RP!Runs
<1>6. RowInv'
  BY <1>1, <1>3, <1>5 DEF IInv, Link, RowInv
<1>. QED
  BY <1>4, <1>6 DEF Link, TaskInv

\* What the task learns is what its run has come to.
LEMMA ExecuteTaskLinks ==
  ASSUME IInv, IInv, [Next]_vars, NEW w \in Workers, NEW j \in Jobs, ExecuteTask(w, j), RP!IInv'
  PROVE  Link'
<1>0. /\ worker \in [Workers -> QP!WorkerState] /\ task \in [Workers -> Jobs \cup {NoJob}]
      /\ pc \in [RP!Runs -> RP!RunState] /\ j \in RP!Runs
  BY DEF IInv, QP!IInv, QP!TypeOK, RP!IInv, RP!TypeOK, RP!Runs
<1>1. /\ RP!RunStep(j) /\ QP!Executes(w, j) /\ task[w] = j /\ TaskFollowsRun(w, j)
      /\ UNCHANGED row
  BY RunActions, WorkerActions DEF ExecuteTask, QP!Executes, IInv, Link, TaskInv
<1>2. \A k \in Jobs \ {j} : pc'[k] = pc[k] /\ (Succeeded(k)' <=> Succeeded(k))
  BY <1>1, RunPath, SuccessStays, SuccessIsOwn DEF IInv, RP!Runs
<1>3. type' = type /\ checkpoints \subseteq checkpoints' /\ (Succeeded(j) => Succeeded(j)')
  BY SuccessStays
<1>4. /\ UNCHANGED <<task, faulted>> /\ \A v \in Workers \ {w} : worker'[v] = worker[v]
      /\ \/ /\ worker[w] = "claimed"
            /\ \/ pc'[j] = "starting" /\ worker'[w] = "training"
               \/ pc'[j] = "over" /\ worker'[w] = "failing"
               \/ pc'[j] \notin {"starting", "over"} /\ worker'[w] = "claimed"
         \/ /\ worker[w] = "training"
            /\ \/ Result(j) /\ worker'[w] = "trained"
               \/ pc'[j] = "over" /\ worker'[w] = "failing"
               \/ ~Result(j) /\ pc'[j] # "over" /\ worker'[w] = "training"
         \/ worker[w] = "trained" /\ worker'[w] = "trained"
  BY <1>0, <1>1 DEF ExecuteTask, TaskLearns, Queue!CreateRun, Queue!Train, Queue!Goto, queue
<1>5. Result(j) => Succeeded(j)' /\ type[j] \in checkpoints
  <2> SUFFICES ASSUME Result(j) PROVE Succeeded(j)' /\ type[j] \in checkpoints
    OBVIOUS
  <2>1. type[j] \in checkpoints
    BY DEF Result, IInv, RP!IInv, RP!OutcomeInv, RP!OutcomeByPc, RP!Runs
  <2>2. RP!Put(j, "succeeded") /\ buf[j].owner = j
    BY <1>0, <1>1, SystemAssumption DEF Result, RP!RunStep, RP!Acquire, RP!Reserve, RP!Publish,
       RP!ReadManifest, RP!WriteManifest, RP!Announce, RP!EndTraining, RP!Conclude, RP!MarkFailed,
       RP!Release, RP!MarkLate, RP!Goto, RP!AfterError, IInv, RP!IInv, RP!OwnerInv, RP!Writing
  <2>3. "succeeded" \in RP!Unfinished \cup RP!Finished
    BY DEF RP!Finished
  <2>4. manifest'[type[j]].status = "succeeded" /\ manifest'[type[j]].owner = j
    BY <1>0, <2>2, <2>3, RP!PutFields, Assumptions DEF IInv, RP!IInv
  <2>. QED
    BY <1>3, <2>1, <2>4 DEF Succeeded
<1>6. ~Result(j) /\ ~Succeeded(j) => ~Succeeded(j)'
  BY SuccessIsOwn DEF Result
<1>7. worker[w] = "training" => ~Succeeded(j)
  BY <1>0, <1>1 DEF TaskFollowsRun, IInv, RP!PlatformInv, RP!SucceededIsPast, RP!Closing, RP!Ended,
     RP!Owning, RP!Reading, RP!Writing, RP!IInv, RP!TypeOK, Succeeded
<1>8. pc[j] \in RP!Owning => pc'[j] \in RP!Owning \/ pc'[j] = "over" \/ Result(j)
  BY <1>1, RunPath DEF IInv, Result
<1>9. pc'[j] = "starting" => pc'[j] \in RP!Owning
  BY DEF RP!Owning, RP!Reading
<1>10. pc[j] \in Unpublished => pc'[j] \in Unpublished \cup {"over", "starting"} /\ ~Result(j)
  BY <1>1, RunPath DEF IInv, Unpublished, Result
<1>11. TaskFollowsRun(w, j)'
  <2>1. CASE worker[w] = "claimed"
    BY <1>1, <1>4, <1>6, <1>9, <1>10, <2>1 DEF TaskFollowsRun
  <2>2. CASE worker[w] = "training"
    <3>1. CASE Result(j) /\ worker'[w] = "trained"
      BY <1>3, <1>5, <3>1 DEF TaskFollowsRun, Result
    <3>2. CASE pc'[j] = "over" /\ worker'[w] = "failing"
      BY <1>6, <1>7, <2>2, <3>2 DEF TaskFollowsRun, Result
    <3>3. CASE ~Result(j) /\ pc'[j] # "over" /\ worker'[w] = "training"
      BY <1>1, <1>8, <2>2, <3>3 DEF TaskFollowsRun
    <3>. QED
      BY <1>4, <2>2, <3>1, <3>2, <3>3
  <2>3. CASE worker[w] = "trained" /\ worker'[w] = "trained"
    <3>1. pc'[j] = "over"
      BY <1>1, <2>3, RunPath DEF TaskFollowsRun, IInv
    <3>. QED
      BY <1>1, <1>3, <2>3, <3>1 DEF TaskFollowsRun
  <2>. QED
    BY <1>4, <2>1, <2>2, <2>3
<1>12. ASSUME NEW v \in Workers, NEW k \in Jobs, QP!Executes(v, k)'
       PROVE  TaskFollowsRun(v, k)'
  <2>1. CASE v = w
    BY <1>1, <1>4, <1>11, <1>12, <2>1 DEF QP!Executes
  <2>2. CASE v # w
    <3>1. QP!Executes(v, k) /\ worker'[v] = worker[v]
      BY <1>4, <1>12, <2>2 DEF QP!Executes
    <3>2. k # j
      BY <1>1, <2>2, <3>1 DEF IInv, QP!IInv, QP!AtMostOnce
    <3>. QED
      BY <1>1, <1>2, <1>3, <1>4, <3>1, <3>2 DEF IInv, Link, TaskInv, TaskFollowsRun, RP!Owning,
         RP!Reading, RP!Writing
  <2>. QED
    BY <2>1, <2>2
<1>13. row[j] = "RUNNING" \/ row[j] = "SUCCEEDED"
  BY <1>1 DEF IInv, QP!IInv, QP!ExecutorInv, QP!Owns
<1>14. RowInv'
  BY <1>1, <1>2, <1>3, <1>4, <1>13 DEF IInv, Link, RowInv
<1>. QED
  BY <1>12, <1>14 DEF Link, TaskInv

LEMMA LinkStep == IInv /\ [Next]_vars /\ RP!IInv' => Link'
<1> SUFFICES ASSUME IInv, [Next]_vars, RP!IInv' PROVE Link'
  OBVIOUS
<1>1. CASE UNCHANGED vars
  BY <1>1, RunAlone DEF vars, runs
<1>2. CASE QueueStep
  BY <1>2, QueueStepLinks
<1>3. ASSUME NEW w \in Workers, NEW j \in Jobs, TaskStep(w, j) PROVE Link'
  BY <1>3, ExecuteTaskLinks, InvalidPlanLinks, OwnStepLinks DEF TaskStep
<1>4. ASSUME NEW w \in Workers, NEW j \in Jobs, Die(w, j) PROVE Link'
  BY <1>4, DieLinks
<1>5. ASSUME NEW w \in Workers, NEW j \in Jobs, SaveCheckpoint(w, j) PROVE Link'
  BY <1>5, RunAlone DEF SaveCheckpoint, Runs!SaveCheckpoint, Runs!procs
<1>6. ASSUME NEW c \in CliRuns, CliStep(c) PROVE Link'
  <2>1. RP!RunStep(c) /\ c \in RP!Runs \ Jobs
    BY <1>6, RunActions, SystemAssumption DEF CliStep, RP!Runs
  <2>2. \A j \in Jobs : pc'[j] = pc[j]
    BY <2>1 DEF RP!RunStep, RP!Acquire, RP!Reserve, RP!Publish, RP!ReadManifest, RP!WriteManifest,
       RP!Announce, RP!EndTraining, RP!Conclude, RP!MarkFailed, RP!Release, RP!MarkLate, RP!Goto,
       IInv, RP!IInv, RP!TypeOK, RP!Runs
  <2>. QED
    BY <1>6, <2>2, RunAlone DEF CliStep
<1>7. CASE ProcessStep
  <2>1. \A j \in Jobs : pc'[j] = pc[j]
    BY <1>7, SystemAssumption DEF ProcessStep, Runs!SaveCheckpoint, Runs!Crash, Runs!procs, IInv,
       RP!IInv, RP!TypeOK, RP!Runs
  <2>. QED
    BY <1>7, <2>1, RunAlone DEF ProcessStep
<1>. QED
  BY <1>1, <1>2, <1>3, <1>4, <1>5, <1>6, <1>7 DEF Next

LEMMA IInvStep == IInv /\ [Next]_vars => IInv'
<1> SUFFICES ASSUME IInv, [Next]_vars PROVE IInv'
  OBVIOUS
<1>1. QP!IInv'
  BY QueueRefined, QP!Inductive, Assumptions DEF IInv
<1>2. RP!IInv' /\ RP!PlatformInv'
  BY RunsRefined, RP!IInvStep, RP!PlatformStep, Assumptions DEF IInv
<1>3. Link'
  BY <1>2, LinkStep
<1>. QED
  BY <1>1, <1>2, <1>3 DEF IInv

LEMMA InitIInv == Init => IInv /\ QP!Init /\ RP!Init
<1> SUFFICES ASSUME Init PROVE IInv /\ QP!Init /\ RP!Init
  OBVIOUS
<1>1. QP!Init
  BY DEF Init, Queue!Init, QP!Init, Queue!Plan, QP!Plan
<1>2. RP!Init
  BY DEF Init, Runs!Init, RP!Init, Runs!Runs, RP!Runs, Runs!NoManifest, RP!NoManifest
<1>3. QP!IInv /\ RP!IInv
  BY <1>1, <1>2, QP!InitIInv, RP!InitIInv, Assumptions
<1>4. RP!PlatformInv
  BY <1>2 DEF RP!Init, RP!PlatformInv, RP!SucceededIsPast, RP!FailureFollowsTrainer,
     RP!PlatformTellsTruth, RP!Failing, RP!NoManifest
<1>5. Link
  BY <1>1, <1>2 DEF QP!Init, RP!Init, Link, TaskInv, RowInv, QP!Executes, QP!Executing, RP!Runs
<1>. QED
  BY <1>1, <1>2, <1>3, <1>4, <1>5 DEF IInv

LEMMA Invariance == Spec => []IInv
BY InitIInv, IInvStep, PTL DEF Spec

-----------------------------------------------------------------------------
(* Theorems.                                                               *)

\* The variables of queue and run directories keep their types.
THEOREM SystemTypes == Spec => [](Queue!TypeOK /\ Runs!TypeOK)
<1>1. QP!TypeOK => Queue!TypeOK
  BY DEF QP!TypeOK, Queue!TypeOK, QP!Plan, Queue!Plan, QP!RowStatus, Queue!RowStatus,
     QP!HandlerState, Queue!HandlerState, QP!WorkerState, Queue!WorkerState, QP!Terminal,
     Queue!Terminal, QP!InFlight, Queue!InFlight, QP!Answered, Queue!Answered, QP!Executing,
     Queue!Executing
<1>2. RP!TypeOK => Runs!TypeOK
  BY DEF RP!TypeOK, Runs!TypeOK, RP!Runs, Runs!Runs, RP!RunState, Runs!RunState, RP!Manifest,
     Runs!Manifest, RP!ReaderState, Runs!ReaderState, RP!Answer, Runs!Answer, RP!Locked,
     Runs!Locked, RP!Ended, Runs!Ended, RP!Reading, Runs!Reading, RP!Writing, Runs!Writing,
     RP!Unfinished, Runs!Unfinished, RP!Finished, Runs!Finished, RP!Statuses, Runs!Statuses
<1>3. IInv => Queue!TypeOK /\ Runs!TypeOK
  BY <1>1, <1>2 DEF IInv, QP!IInv, RP!IInv
<1>. QED
  BY <1>3, Invariance, PTL

\* The row of a job and the manifest of its run tell one story, whatever dies in
\* between (mark_succeeded, mark_failed, execute_training_plan).
THEOREM OneStory == Spec => []RowAndManifestAgree
<1>1. IInv => RowAndManifestAgree
  BY DEF IInv, Link, RowInv, Succeeded, RowAndManifestAgree
<1>. QED
  BY <1>1, Invariance, PTL

\* The queue and its workers are what RunControl takes them for: no row is
\* withdrawn from under a run (delete_queued, claim).
THEOREM RunsImplemented == Spec => ImplementsRuns
<1>1. Init => Runs!Init
  BY DEF Init
<1>. QED
  BY <1>1, RunsRefined, Invariance, PTL DEF Spec, ImplementsRuns, Runs!Spec

\* Every step of the system is one that TrainingQueue allows: executions of the
\* training stand for its CreateRun and Train, CLI trainings for its CliRun.
THEOREM QueueImplemented == Spec => Queue!Spec
<1>1. Init => Queue!Init
  BY DEF Init
<1>. QED
  BY <1>1, QueueRefined, Invariance, PTL DEF Spec, Queue!Spec

LEMMA SpecsImplemented == Spec => QP!Spec /\ RP!Spec
BY InitIInv, QueueRefined, RunsRefined, Invariance, PTL DEF Spec, QP!Spec, RP!Spec

\* A ModelInfoID is trained by one asynchronous job at most: of the jobs that
\* race for it, whatever their model types and although a queued row may be
\* withdrawn and another take its place, only one ever leaves a run directory.
OneDirectoryByQueue ==
  LET left == {t \in ModelTypes : manifest[t].status # "none" /\ manifest[t].owner \in Jobs}
  IN \A t, u \in left : t = u

\* Of all jobs of a ModelInfoID only one ever leaves a run directory (the unique
\* key of dbo.training_jobs, delete_queued, claim).
THEOREM OneDirectory == Spec => []OneDirectoryByQueue
<1>1. ASSUME IInv, NEW t \in ModelTypes, manifest[t].status # "none", manifest[t].owner \in Jobs
      PROVE  /\ type[manifest[t].owner] = t
             /\ row[manifest[t].owner] # "ABSENT"
  BY <1>1 DEF IInv, RP!IInv, RP!OwnerInv, Link, RowInv
<1>2. ASSUME IInv, NEW j \in Jobs, NEW k \in Jobs, row[j] # "ABSENT", row[k] # "ABSENT"
      PROVE  j = k
  BY <1>2 DEF IInv, QP!IInv, QP!UniqueKey, PlanOf
<1>3. IInv => OneDirectoryByQueue
  BY <1>1, <1>2 DEF OneDirectoryByQueue
<1>. QED
  BY <1>3, Invariance, PTL

\* What TrainingQueue promises holds with real runs behind its workers: no job
\* trained twice, one job per ModelInfoID, no silent orphan, true rows and true
\* answers.
THEOREM QueuePromises ==
  Spec => [](/\ Queue!AtMostOnce /\ Queue!OneRunPerIdentity /\ Queue!NoSilentOrphan
             /\ Queue!OutcomeMatchesRow /\ Queue!AnswersHold)
<1>1. QP!AtMostOnce /\ QP!OneRunPerIdentity => Queue!AtMostOnce /\ Queue!OneRunPerIdentity
  BY DEF QP!AtMostOnce, Queue!AtMostOnce, QP!OneRunPerIdentity, Queue!OneRunPerIdentity,
     QP!Executes, Queue!Executes, QP!Executing, Queue!Executing
<1>2. /\ QP!NoSilentOrphan => Queue!NoSilentOrphan
      /\ QP!OutcomeMatchesRow => Queue!OutcomeMatchesRow
      /\ QP!AnswersHold => Queue!AnswersHold
  BY DEF QP!NoSilentOrphan, Queue!NoSilentOrphan, QP!OutcomeMatchesRow, Queue!OutcomeMatchesRow,
     QP!AnswersHold, Queue!AnswersHold, QP!Executes, Queue!Executes, QP!Executing, Queue!Executing,
     QP!Answered, Queue!Answered
<1>3. QP!Spec => [](/\ QP!AtMostOnce /\ QP!OneRunPerIdentity /\ QP!NoSilentOrphan
                    /\ QP!OutcomeMatchesRow /\ QP!AnswersHold)
  BY QP!TrainedAtMostOnce, QP!ModelInfoIDConsumed, QP!NoOrphanWithoutFault, QP!TerminalRowsTrue,
     QP!AnswersStayTrue, Assumptions, PTL
<1>. QED
  BY <1>1, <1>2, <1>3, SpecsImplemented, PTL

\* What RunControl promises holds with a real queue in front of it: one training
\* at a time, no directory given away, "succeeded" and the platform's table true.
THEOREM RunPromises ==
  Spec => /\ [](Runs!OneAtATime /\ Runs!SucceededIsReal /\ Runs!PlatformTellsTruth)
          /\ Runs!DirectoryKeepsOwner
<1>1. /\ RP!OneAtATime => Runs!OneAtATime
      /\ RP!SucceededIsReal => Runs!SucceededIsReal
      /\ RP!PlatformTellsTruth => Runs!PlatformTellsTruth
  BY DEF RP!OneAtATime, Runs!OneAtATime, RP!SucceededIsReal, Runs!SucceededIsReal,
     RP!PlatformTellsTruth, Runs!PlatformTellsTruth, RP!Runs, Runs!Runs, RP!Locked, Runs!Locked,
     RP!Reading, Runs!Reading, RP!Writing, Runs!Writing, RP!Past, Runs!Past, RP!Ended, Runs!Ended
<1>2. RP!Spec => [](RP!OneAtATime /\ RP!SucceededIsReal /\ RP!PlatformTellsTruth)
  BY RP!OneTrainingAtATime, RP!SucceededIsTrue, RP!PlatformIsTrue, Assumptions, PTL
<1>3. RP!DirectoryKeepsOwner => Runs!DirectoryKeepsOwner
  <2> DEFINE Kept == \A t \in ModelTypes :
               manifest[t].status # "none" => manifest'[t].owner = manifest[t].owner
  <2>1. [Kept]_(RP!vars) => [Kept]_(Runs!vars)
    BY DEF RP!vars, RP!disk, RP!procs, RP!env, RP!polling, Runs!vars, Runs!disk, Runs!procs,
       Runs!env, Runs!polling
  <2>. QED
    BY <2>1, PTL DEF RP!DirectoryKeepsOwner, Runs!DirectoryKeepsOwner
<1>. QED
  BY <1>1, <1>2, <1>3, RP!OwnerForGood, SpecsImplemented, Assumptions, PTL

\* The job table of the whole system keeps the public life cycle.
THEOREM LifecycleImplemented == Spec => QP!ImplementsJobLifecycle
BY QP!TableImplementsLifecycle, SpecsImplemented, Assumptions, PTL
=============================================================================
