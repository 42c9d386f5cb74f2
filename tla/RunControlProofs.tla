-------------------------- MODULE RunControlProofs --------------------------
(* What RunControl promises for any number of processes, model types and    *)
(* status requests, from one inductive invariant in four parts.             *)
EXTENDS RunControl, TLAPS

\* From the reservation on, until a process has nothing left to write.
Owning == {"running", "training", "returned", "raised", "marked", "aborting",
           "late", "put_late"} \cup Reading \cup Writing

\* The lock is held exactly between Acquire and Release, by one process.
LockInv ==
  /\ lock = {p \in Runs : pc[p] \in Locked}
  /\ \A p, q \in lock : p = q

\* A run directory names its creator, whose model type it has, and an owning
\* process finds itself there and in the manifest it writes back.
OwnerInv ==
  /\ \A p \in Runs : pc[p] \in Owning =>
       manifest[type[p]].status # "none" /\ manifest[type[p]].owner = p
  /\ \A p \in Runs : pc[p] \in Writing \cup {"put_late"} => buf[p].owner = p
  /\ \A t \in ModelTypes : manifest[t].status # "none" =>
       /\ manifest[t].owner \in Runs
       /\ type[manifest[t].owner] = t
       /\ pc[manifest[t].owner] \notin {"new", "locked", "staged"}

\* How far a process is tells what its trainer has come to.
OutcomeByPc ==
  \A p \in Runs :
    /\ pc[p] \in {"new", "locked", "staged", "starting", "put_running", "running",
                  "training"} => outcome[p] = "none"
    /\ pc[p] \in {"returned", "finishing", "put_succeeded"} => outcome[p] = "returned"
    /\ pc[p] \in {"finishing", "put_succeeded"} /\ p \in WorkerRuns => type[p] \in checkpoints

FailedIsPast ==
  \A t \in ModelTypes : manifest[t].status = "failed" => pc[manifest[t].owner] \in Past

\* A final status tells how far its process is.
OutcomeInv == OutcomeByPc /\ SucceededIsReal /\ FailedIsPast

\* A request that has seen an unfinished manifest knows its owner.
ReaderInv ==
  /\ \A r \in Readers : goneAtAsk[r] \subseteq {p \in Runs : pc[p] \in Ended}
  /\ \A r \in Readers : reader[r] \in {"checking", "rereading", "writing"} =>
       /\ manifest[topic[r]].status # "none"
       /\ seen[r].owner = manifest[topic[r]].owner
  /\ \A r \in Readers : answer[r] \in {"RUNNING", "SUCCEEDED", "FAILED"} =>
       manifest[topic[r]].status # "none"

\* A request about to write "interrupted" has seen that the owner is gone.
SeenGone ==
  \A r \in Readers : reader[r] \in {"rereading", "writing"} => pc[seen[r].owner] \in Ended

\* What the PID check concludes: needs an API that sees the processes.
GoneInv ==
  /\ SeenGone
  /\ InterruptedMeansGone
  /\ AnswerIsTrue

IInv == TypeOK /\ LockInv /\ OwnerInv /\ OutcomeInv /\ ReaderInv

\* A manifest keeps its type when its status changes.
LEMMA StatusChange ==
  ASSUME NEW m \in Manifest, NEW s \in Unfinished \cup Finished
  PROVE  [m EXCEPT !.status = s] \in Manifest
BY DEF Manifest

LEMMA PublicStatusType ==
  ASSUME NEW m \in Manifest
  PROVE  PublicStatus(m.status) \in Answer
BY DEF Manifest, PublicStatus, Answer, Unfinished, Finished

LEMMA NoManifestType == NoManifest \in Manifest
BY DEF NoManifest, Manifest

LEMMA PutTypes ==
  ASSUME TypeOK, NEW p \in Runs, NEW s \in Unfinished \cup Finished, Put(p, s)
  PROVE  manifest' \in [ModelTypes -> Manifest]
<1>1. [buf[p] EXCEPT !.status = s] \in Manifest
  BY StatusChange DEF TypeOK
<1>2. type[p] \in ModelTypes
  BY DEF TypeOK
<1>. QED
  BY <1>1, <1>2 DEF Put, TypeOK

\* Every action keeps the types.
LEMMA TypeStep ==
  TypeOK /\ [Next]_vars => TypeOK'
<1> SUFFICES ASSUME TypeOK, [Next]_vars PROVE TypeOK'
  OBVIOUS
<1> USE NoManifestType DEF RunState, ReaderState, Answer, Unfinished, Finished, Reading,
             Writing, Locked, Ended
<1>1. CASE Register
  BY <1>1 DEF Register, disk, procs, env, polling, TypeOK
<1>2. CASE Unregister
  BY <1>2 DEF Unregister, disk, procs, env, polling, TypeOK
<1>3. ASSUME NEW p \in Runs, Acquire(p) PROVE TypeOK'
  BY <1>3 DEF Acquire, disk, procs, env, polling, Goto, LockFree, TypeOK
<1>4. ASSUME NEW p \in Runs, Reserve(p) PROVE TypeOK'
  BY <1>4 DEF Reserve, disk, procs, env, polling, Goto, DirExists, TypeOK
<1>5. ASSUME NEW p \in Runs, Publish(p) PROVE TypeOK'
  <2>1. pc' \in [Runs -> RunState]
    BY <1>5 DEF Publish, Goto, TypeOK
  <2>2. manifest' \in [ModelTypes -> Manifest]
    <3>1. type[p] \in ModelTypes /\ [status |-> "reserved", owner |-> p] \in Manifest
      BY DEF Manifest, TypeOK
    <3>. QED
      BY <1>5, <3>1 DEF Publish, TypeOK
  <2>. QED
    BY <1>5, <2>1, <2>2 DEF TypeOK, Publish,
       disk, procs, env, polling
<1>6. ASSUME NEW p \in Runs, ReadManifest(p) PROVE TypeOK'
  <2>1. pc' \in [Runs -> RunState]
    BY <1>6 DEF ReadManifest, Goto, AfterError, TypeOK
  <2>2. buf' \in [Runs -> Manifest]
    BY <1>6 DEF ReadManifest, TypeOK
  <2>. QED
    BY <1>6, <2>1, <2>2 DEF TypeOK, ReadManifest,
       disk, procs, env, polling
<1>7. ASSUME NEW p \in Runs, WriteManifest(p) PROVE TypeOK'
  <2>1. pc' \in [Runs -> RunState]
    BY <1>7 DEF WriteManifest, Goto, AfterError, TypeOK
  <2>2. manifest' \in [ModelTypes -> Manifest]
    <3>1. CASE Put(p, "running")
      BY <3>1, PutTypes
    <3>2. CASE Put(p, "succeeded")
      BY <3>2, PutTypes
    <3>3. CASE Put(p, "failed")
      BY <3>3, PutTypes
    <3>4. CASE UNCHANGED manifest
      BY <3>4 DEF TypeOK
    <3>. QED
      BY <1>7, <3>1, <3>2, <3>3, <3>4 DEF WriteManifest
  <2>. QED
    BY <1>7, <2>1, <2>2 DEF TypeOK, WriteManifest,
       disk, procs, env, polling
<1>8. ASSUME NEW p \in Runs, Announce(p) PROVE TypeOK'
  BY <1>8 DEF Announce, disk, procs, env, polling, Goto, MarkRunning, Statuses, TypeOK
<1>9. ASSUME NEW p \in Runs, EndTraining(p) PROVE TypeOK'
  BY <1>9 DEF EndTraining, disk, procs, env, polling, Goto, TypeOK
<1>10. ASSUME NEW p \in Runs, Conclude(p) PROVE TypeOK'
  BY <1>10 DEF Conclude, disk, procs, env, polling, Goto, Mark, Validated, TypeOK
<1>11. ASSUME NEW p \in Runs, MarkFailed(p) PROVE TypeOK'
  BY <1>11 DEF MarkFailed, disk, procs, env, polling, Goto, Mark, TypeOK
<1>12. ASSUME NEW p \in Runs, Release(p) PROVE TypeOK'
  BY <1>12 DEF Release, disk, procs, env, polling, Goto, TypeOK
<1>13. ASSUME NEW p \in Runs, MarkLate(p) PROVE TypeOK'
  <2>1. pc' \in [Runs -> RunState]
    BY <1>13 DEF MarkLate, Goto, TypeOK
  <2>2. buf' \in [Runs -> Manifest]
    BY <1>13 DEF MarkLate, TypeOK
  <2>3. manifest' \in [ModelTypes -> Manifest]
    <3>1. CASE Put(p, "failed")
      BY <3>1, PutTypes
    <3>2. CASE UNCHANGED manifest
      BY <3>2 DEF TypeOK
    <3>. QED
      BY <1>13, <3>1, <3>2 DEF MarkLate
  <2>. QED
    BY <1>13, <2>1, <2>2, <2>3 DEF TypeOK, MarkLate,
       disk, procs, env, polling
<1>14. ASSUME NEW p \in Runs, SaveCheckpoint(p) PROVE TypeOK'
  BY <1>14 DEF SaveCheckpoint, disk, procs, env, polling, TypeOK
<1>15. ASSUME NEW p \in Runs, Exit(p) PROVE TypeOK'
  BY <1>15 DEF Exit, disk, procs, env, polling, Goto, TypeOK
<1>16. ASSUME NEW p \in Runs, Crash(p) PROVE TypeOK'
  BY <1>16 DEF Crash, disk, procs, env, polling, LockAfterCrash, TypeOK
<1>17. ASSUME NEW p \in Runs, ReusePid(p) PROVE TypeOK'
  BY <1>17 DEF ReusePid, disk, procs, env, polling, TypeOK
<1>18. ASSUME NEW r \in Readers, ReadStatus(r) PROVE TypeOK'
  <2>1. topic[r] \in ModelTypes /\ manifest[topic[r]] \in Manifest
    BY DEF TypeOK
  <2>2. answer' \in [Readers -> Answer]
    BY <1>18, <2>1, PublicStatusType DEF ReadStatus, Reply, TypeOK
  <2>3. reader' \in [Readers -> ReaderState] /\ seen' \in [Readers -> Manifest]
    BY <1>18, <2>1 DEF ReadStatus, Reply, TypeOK
  <2>. QED
    BY <1>18, <2>1, <2>2, <2>3 DEF TypeOK, ReadStatus,
       disk, procs, env, polling
<1>19. ASSUME NEW r \in Readers, CheckOwner(r) PROVE TypeOK'
  BY <1>19 DEF CheckOwner, disk, procs, env, polling, Reply, Gone, TypeOK
<1>20. ASSUME NEW r \in Readers, Reread(r) PROVE TypeOK'
  BY <1>20 DEF Reread, disk, procs, env, polling, TypeOK
<1>21. ASSUME NEW r \in Readers, WriteInterrupted(r) PROVE TypeOK'
  <2>1. manifest' \in [ModelTypes -> Manifest]
    <3>1. topic[r] \in ModelTypes /\ seen[r] \in Manifest
      BY DEF TypeOK
    <3>2. [seen[r] EXCEPT !.status = "interrupted"] \in Manifest
      BY <3>1, StatusChange
    <3>. QED
      BY <1>21, <3>1, <3>2 DEF WriteInterrupted, TypeOK
  <2>2. reader' \in [Readers -> ReaderState] /\ answer' \in [Readers -> Answer]
    BY <1>21 DEF WriteInterrupted, Reply, TypeOK
  <2>. QED
    BY <1>21, <2>1, <2>2 DEF TypeOK, WriteInterrupted,
       disk, procs, env, polling
<1>22. ASSUME NEW r \in Readers, StatusError(r) PROVE TypeOK'
  BY <1>22 DEF StatusError, disk, procs, env, polling, Reply, TypeOK
<1>23. ASSUME NEW r \in Readers, NEW t \in ModelTypes, Ask(r, t) PROVE TypeOK'
  BY <1>23 DEF Ask, disk, procs, env, polling, TypeOK
<1>24. CASE UNCHANGED vars
  BY <1>24 DEF vars, disk, procs, env, polling, TypeOK
<1>. QED
  BY <1>1, <1>2, <1>3, <1>4, <1>5, <1>6, <1>7, <1>8, <1>9, <1>10, <1>11, <1>12,
     <1>13, <1>14, <1>15, <1>16, <1>17, <1>18, <1>19, <1>20, <1>21, <1>22, <1>23, <1>24 DEF
          Next, RunStep, ReaderStep

\* The lock follows the program counters.
LEMMA LockStep ==
  TypeOK /\ LockInv /\ [Next]_vars => LockInv'
<1> SUFFICES ASSUME TypeOK, LockInv, [Next]_vars PROVE LockInv'
  OBVIOUS
<1> USE DEF Reading, Writing, Locked, Ended
<1>1. CASE Register
  BY <1>1 DEF Register, disk, procs, env, polling, LockInv, TypeOK
<1>2. CASE Unregister
  BY <1>2 DEF Unregister, disk, procs, env, polling, LockInv, TypeOK
<1>3. ASSUME NEW p \in Runs, Acquire(p) PROVE LockInv'
  BY <1>3 DEF Acquire, disk, procs, env, polling, Goto, LockFree, LockInv, TypeOK
<1>4. ASSUME NEW p \in Runs, Reserve(p) PROVE LockInv'
  BY <1>4 DEF Reserve, disk, procs, env, polling, Goto, DirExists, LockInv, TypeOK
<1>5. ASSUME NEW p \in Runs, Publish(p) PROVE LockInv'
  BY <1>5 DEF Publish, disk, procs, env, polling, Goto, DirExists, LockInv, TypeOK
<1>6. ASSUME NEW p \in Runs, ReadManifest(p) PROVE LockInv'
  BY <1>6 DEF ReadManifest, disk, procs, env, polling, Goto, AfterError, LockInv, TypeOK
<1>7. ASSUME NEW p \in Runs, WriteManifest(p) PROVE LockInv'
  BY <1>7 DEF WriteManifest, disk, procs, env, polling, Goto, Put, AfterError, LockInv, TypeOK
<1>8. ASSUME NEW p \in Runs, Announce(p) PROVE LockInv'
  BY <1>8 DEF Announce, disk, procs, env, polling, Goto, MarkRunning, LockInv, TypeOK
<1>9. ASSUME NEW p \in Runs, EndTraining(p) PROVE LockInv'
  BY <1>9 DEF EndTraining, disk, procs, env, polling, Goto, LockInv, TypeOK
<1>10. ASSUME NEW p \in Runs, Conclude(p) PROVE LockInv'
  BY <1>10 DEF Conclude, disk, procs, env, polling, Goto, Mark, Validated, LockInv, TypeOK
<1>11. ASSUME NEW p \in Runs, MarkFailed(p) PROVE LockInv'
  BY <1>11 DEF MarkFailed, disk, procs, env, polling, Goto, Mark, LockInv, TypeOK
<1>12. ASSUME NEW p \in Runs, Release(p) PROVE LockInv'
  BY <1>12 DEF Release, disk, procs, env, polling, Goto, LockInv, TypeOK
<1>13. ASSUME NEW p \in Runs, MarkLate(p) PROVE LockInv'
  BY <1>13 DEF MarkLate, disk, procs, env, polling, Goto, Put, LockInv, TypeOK
<1>14. ASSUME NEW p \in Runs, SaveCheckpoint(p) PROVE LockInv'
  BY <1>14 DEF SaveCheckpoint, disk, procs, env, polling, LockInv, TypeOK
<1>15. ASSUME NEW p \in Runs, Exit(p) PROVE LockInv'
  BY <1>15 DEF Exit, disk, procs, env, polling, Goto, LockInv, TypeOK
<1>16. ASSUME NEW p \in Runs, Crash(p) PROVE LockInv'
  BY <1>16 DEF Crash, disk, procs, env, polling, LockAfterCrash, LockInv, TypeOK
<1>17. ASSUME NEW p \in Runs, ReusePid(p) PROVE LockInv'
  BY <1>17 DEF ReusePid, disk, procs, env, polling, LockInv, TypeOK
<1>18. ASSUME NEW r \in Readers, ReadStatus(r) PROVE LockInv'
  BY <1>18 DEF ReadStatus, disk, procs, env, polling, Reply, PublicStatus, LockInv, TypeOK
<1>19. ASSUME NEW r \in Readers, CheckOwner(r) PROVE LockInv'
  BY <1>19 DEF CheckOwner, disk, procs, env, polling, Reply, Gone, LockInv, TypeOK
<1>20. ASSUME NEW r \in Readers, Reread(r) PROVE LockInv'
  BY <1>20 DEF Reread, disk, procs, env, polling, LockInv, TypeOK
<1>21. ASSUME NEW r \in Readers, WriteInterrupted(r) PROVE LockInv'
  BY <1>21 DEF WriteInterrupted, disk, procs, env, polling, Reply, LockInv, TypeOK
<1>22. ASSUME NEW r \in Readers, StatusError(r) PROVE LockInv'
  BY <1>22 DEF StatusError, disk, procs, env, polling, Reply, LockInv, TypeOK
<1>23. ASSUME NEW r \in Readers, NEW t \in ModelTypes, Ask(r, t) PROVE LockInv'
  BY <1>23 DEF Ask, disk, procs, env, polling, LockInv, TypeOK
<1>24. CASE UNCHANGED vars
  BY <1>24 DEF vars, disk, procs, env, polling, LockInv, TypeOK
<1>. QED
  BY <1>1, <1>2, <1>3, <1>4, <1>5, <1>6, <1>7, <1>8, <1>9, <1>10, <1>11, <1>12,
     <1>13, <1>14, <1>15, <1>16, <1>17, <1>18, <1>19, <1>20, <1>21, <1>22, <1>23, <1>24 DEF
          Next, RunStep, ReaderStep

\* A process that has gone stays gone, one that is past its training stays past it, and none
\* returns to where it has no run directory yet.
Onwards ==
  \A q \in Runs :
    /\ pc[q] \in Ended => pc'[q] \in Ended
    /\ pc[q] \in Past => pc'[q] \in Past
    /\ pc[q] \notin {"new", "locked", "staged"} => pc'[q] \notin {"new", "locked", "staged"}
    /\ outcome'[q] # outcome[q] => pc[q] = "training"

LEMMA Onward ==
  TypeOK /\ [Next]_vars => Onwards
<1> SUFFICES ASSUME TypeOK, [Next]_vars PROVE Onwards
  OBVIOUS
<1> USE DEF Past, Reading, Writing, Locked, Ended
<1>1. CASE Register
  BY <1>1 DEF Register, disk, procs, env, polling, TypeOK, Onwards
<1>2. CASE Unregister
  BY <1>2 DEF Unregister, disk, procs, env, polling, TypeOK, Onwards
<1>3. ASSUME NEW p \in Runs, Acquire(p) PROVE Onwards
  BY <1>3 DEF Acquire, disk, procs, env, polling, Goto, LockFree, TypeOK, Onwards
<1>4. ASSUME NEW p \in Runs, Reserve(p) PROVE Onwards
  BY <1>4 DEF Reserve, disk, procs, env, polling, Goto, DirExists, TypeOK, Onwards
<1>5. ASSUME NEW p \in Runs, Publish(p) PROVE Onwards
  BY <1>5 DEF Publish, disk, procs, env, polling, Goto, DirExists, TypeOK, Onwards
<1>6. ASSUME NEW p \in Runs, ReadManifest(p) PROVE Onwards
  BY <1>6 DEF ReadManifest, disk, procs, env, polling, Goto, AfterError, TypeOK, Onwards
<1>7. ASSUME NEW p \in Runs, WriteManifest(p) PROVE Onwards
  BY <1>7 DEF WriteManifest, disk, procs, env, polling, Goto, Put, AfterError, TypeOK, Onwards
<1>8. ASSUME NEW p \in Runs, Announce(p) PROVE Onwards
  BY <1>8 DEF Announce, disk, procs, env, polling, Goto, MarkRunning, Statuses, TypeOK, Onwards
<1>9. ASSUME NEW p \in Runs, EndTraining(p) PROVE Onwards
  BY <1>9 DEF EndTraining, disk, procs, env, polling, Goto, TypeOK, Onwards
<1>10. ASSUME NEW p \in Runs, Conclude(p) PROVE Onwards
  BY <1>10 DEF Conclude, disk, procs, env, polling, Goto, Mark, Validated, TypeOK, Onwards
<1>11. ASSUME NEW p \in Runs, MarkFailed(p) PROVE Onwards
  BY <1>11 DEF MarkFailed, disk, procs, env, polling, Goto, Mark, TypeOK, Onwards
<1>12. ASSUME NEW p \in Runs, Release(p) PROVE Onwards
  BY <1>12 DEF Release, disk, procs, env, polling, Goto, TypeOK, Onwards
<1>13. ASSUME NEW p \in Runs, MarkLate(p) PROVE Onwards
  BY <1>13 DEF MarkLate, disk, procs, env, polling, Goto, Put, TypeOK, Onwards
<1>14. ASSUME NEW p \in Runs, SaveCheckpoint(p) PROVE Onwards
  BY <1>14 DEF SaveCheckpoint, disk, procs, env, polling, TypeOK, Onwards
<1>15. ASSUME NEW p \in Runs, Exit(p) PROVE Onwards
  BY <1>15 DEF Exit, disk, procs, env, polling, Goto, TypeOK, Onwards
<1>16. ASSUME NEW p \in Runs, Crash(p) PROVE Onwards
  BY <1>16 DEF Crash, disk, procs, env, polling, LockAfterCrash, TypeOK, Onwards
<1>17. ASSUME NEW p \in Runs, ReusePid(p) PROVE Onwards
  BY <1>17 DEF ReusePid, disk, procs, env, polling, TypeOK, Onwards
<1>18. ASSUME NEW r \in Readers, ReadStatus(r) PROVE Onwards
  BY <1>18 DEF ReadStatus, disk, procs, env, polling, Reply, PublicStatus, TypeOK, Onwards
<1>19. ASSUME NEW r \in Readers, CheckOwner(r) PROVE Onwards
  BY <1>19 DEF CheckOwner, disk, procs, env, polling, Reply, Gone, TypeOK, Onwards
<1>20. ASSUME NEW r \in Readers, Reread(r) PROVE Onwards
  BY <1>20 DEF Reread, disk, procs, env, polling, TypeOK, Onwards
<1>21. ASSUME NEW r \in Readers, WriteInterrupted(r) PROVE Onwards
  BY <1>21 DEF WriteInterrupted, disk, procs, env, polling, Reply, TypeOK, Onwards
<1>22. ASSUME NEW r \in Readers, StatusError(r) PROVE Onwards
  BY <1>22 DEF StatusError, disk, procs, env, polling, Reply, TypeOK, Onwards
<1>23. ASSUME NEW r \in Readers, NEW t \in ModelTypes, Ask(r, t) PROVE Onwards
  BY <1>23 DEF Ask, disk, procs, env, polling, TypeOK, Onwards
<1>24. CASE UNCHANGED vars
  BY <1>24 DEF vars, disk, procs, env, polling, TypeOK, Onwards
<1>. QED
  BY <1>1, <1>2, <1>3, <1>4, <1>5, <1>6, <1>7, <1>8, <1>9, <1>10, <1>11, <1>12,
     <1>13, <1>14, <1>15, <1>16, <1>17, <1>18, <1>19, <1>20, <1>21, <1>22, <1>23, <1>24 DEF
          Next, RunStep, ReaderStep

OwnerKept ==
  \A t \in ModelTypes : manifest[t].status # "none" =>
    manifest'[t].status # "none" /\ manifest'[t].owner = manifest[t].owner

\* What a process or a status request writes back.
LEMMA PutFields ==
  ASSUME TypeOK, NEW p \in Runs, NEW s \in Unfinished \cup Finished, Put(p, s)
  PROVE  /\ type[p] \in ModelTypes
         /\ manifest'[type[p]].status = s
         /\ manifest'[type[p]].owner = buf[p].owner
         /\ \A t \in ModelTypes \ {type[p]} : manifest'[t] = manifest[t]
BY DEF Put, TypeOK, Manifest

LEMMA InterruptedFields ==
  ASSUME TypeOK, NEW r \in Readers, WriteInterrupted(r)
  PROVE  /\ topic[r] \in ModelTypes
         /\ manifest'[topic[r]].status = "interrupted"
         /\ manifest'[topic[r]].owner = seen[r].owner
         /\ \A t \in ModelTypes \ {topic[r]} : manifest'[t] = manifest[t]
BY DEF WriteInterrupted, TypeOK, Manifest

\* WriteManifest and MarkLate write the process's own manifest or leave all alone.
LEMMA WriteFields ==
  ASSUME TypeOK, NEW p \in Runs, WriteManifest(p)
  PROVE  \/ UNCHANGED manifest /\ pc'[p] \in {"marked", "aborting", "leaving"}
         \/ /\ type[p] \in ModelTypes
            /\ manifest'[type[p]].owner = buf[p].owner
            /\ \A t \in ModelTypes \ {type[p]} : manifest'[t] = manifest[t]
            /\ \/ manifest'[type[p]].status = "running" /\ pc[p] = "put_running"
               \/ manifest'[type[p]].status = "succeeded" /\ pc[p] = "put_succeeded"
               \/ manifest'[type[p]].status = "failed" /\ pc[p] = "put_failed"
<1>1. CASE Goto(p, "put_running", "running") /\ Put(p, "running")
  BY <1>1, PutFields DEF Goto, Unfinished
<1>2. CASE Goto(p, "put_succeeded", "leaving") /\ Put(p, "succeeded")
  BY <1>2, PutFields DEF Goto, Finished
<1>3. CASE Goto(p, "put_failed", "marked") /\ Put(p, "failed")
  BY <1>3, PutFields DEF Goto, Finished
<1>4. CASE UNCHANGED manifest /\ \E s \in Writing : Goto(p, s, "marked") \/ Goto(p, s,
     AfterError(p))
  BY <1>4 DEF Goto, AfterError, TypeOK
<1>. QED
  BY <1>1, <1>2, <1>3, <1>4 DEF WriteManifest, Writing

LEMMA LateFields ==
  ASSUME TypeOK, NEW p \in Runs, MarkLate(p)
  PROVE  \/ UNCHANGED manifest
         \/ /\ type[p] \in ModelTypes
            /\ manifest'[type[p]].owner = buf[p].owner
            /\ \A t \in ModelTypes \ {type[p]} : manifest'[t] = manifest[t]
            /\ manifest'[type[p]].status = "failed" /\ pc[p] = "put_late" /\ pc'[p] = "over"
<1>1. CASE Goto(p, "put_late", "over") /\ Put(p, "failed")
  BY <1>1, PutFields DEF Goto, Finished, TypeOK
<1>2. CASE UNCHANGED manifest
  BY <1>2
<1>. QED
  BY <1>1, <1>2 DEF MarkLate

\* No step takes a run directory away from its owner.
LEMMA KeepOwner ==
  TypeOK /\ OwnerInv /\ ReaderInv /\ [Next]_vars => OwnerKept
<1> SUFFICES ASSUME TypeOK, OwnerInv, ReaderInv, [Next]_vars PROVE OwnerKept
  OBVIOUS
<1> USE DEF Owning, Reading, Writing
<1>1. CASE Register
  BY <1>1 DEF Register, disk, procs, env, polling, TypeOK, OwnerInv, ReaderInv, OwnerKept
<1>2. CASE Unregister
  BY <1>2 DEF Unregister, disk, procs, env, polling, TypeOK, OwnerInv, ReaderInv, OwnerKept
<1>3. ASSUME NEW p \in Runs, Acquire(p) PROVE OwnerKept
  BY <1>3 DEF Acquire, disk, procs, env, polling, Goto, LockFree, TypeOK, OwnerInv, ReaderInv,
       OwnerKept
<1>4. ASSUME NEW p \in Runs, Reserve(p) PROVE OwnerKept
  BY <1>4 DEF Reserve, disk, procs, env, polling, Goto, DirExists, TypeOK, OwnerInv, ReaderInv,
       OwnerKept
<1>5. ASSUME NEW p \in Runs, Publish(p) PROVE OwnerKept
  BY <1>5 DEF Publish, disk, procs, env, polling, Goto, DirExists, TypeOK, OwnerInv, ReaderInv,
       OwnerKept
<1>6. ASSUME NEW p \in Runs, ReadManifest(p) PROVE OwnerKept
  BY <1>6 DEF ReadManifest, disk, procs, env, polling, Goto, AfterError, TypeOK, OwnerInv,
       ReaderInv, OwnerKept
<1>7. ASSUME NEW p \in Runs, WriteManifest(p) PROVE OwnerKept
  BY <1>7, WriteFields DEF WriteManifest, disk, procs, env, polling, Goto, Put, AfterError,
       TypeOK, OwnerInv, ReaderInv, OwnerKept
<1>8. ASSUME NEW p \in Runs, Announce(p) PROVE OwnerKept
  BY <1>8 DEF Announce, disk, procs, env, polling, Goto, MarkRunning, Statuses, TypeOK, OwnerInv, ReaderInv,
       OwnerKept
<1>9. ASSUME NEW p \in Runs, EndTraining(p) PROVE OwnerKept
  BY <1>9 DEF EndTraining, disk, procs, env, polling, Goto, TypeOK, OwnerInv, ReaderInv,
       OwnerKept
<1>10. ASSUME NEW p \in Runs, Conclude(p) PROVE OwnerKept
  BY <1>10 DEF Conclude, disk, procs, env, polling, Goto, Mark, Validated, TypeOK, OwnerInv,
       ReaderInv, OwnerKept
<1>11. ASSUME NEW p \in Runs, MarkFailed(p) PROVE OwnerKept
  BY <1>11 DEF MarkFailed, disk, procs, env, polling, Goto, Mark, TypeOK, OwnerInv, ReaderInv,
       OwnerKept
<1>12. ASSUME NEW p \in Runs, Release(p) PROVE OwnerKept
  BY <1>12 DEF Release, disk, procs, env, polling, Goto, TypeOK, OwnerInv, ReaderInv, OwnerKept
<1>13. ASSUME NEW p \in Runs, MarkLate(p) PROVE OwnerKept
  BY <1>13, LateFields DEF MarkLate, disk, procs, env, polling, Goto, Put, TypeOK, OwnerInv,
       ReaderInv, OwnerKept
<1>14. ASSUME NEW p \in Runs, SaveCheckpoint(p) PROVE OwnerKept
  BY <1>14 DEF SaveCheckpoint, disk, procs, env, polling, TypeOK, OwnerInv, ReaderInv, OwnerKept
<1>15. ASSUME NEW p \in Runs, Exit(p) PROVE OwnerKept
  BY <1>15 DEF Exit, disk, procs, env, polling, Goto, TypeOK, OwnerInv, ReaderInv, OwnerKept
<1>16. ASSUME NEW p \in Runs, Crash(p) PROVE OwnerKept
  BY <1>16 DEF Crash, disk, procs, env, polling, LockAfterCrash, TypeOK, OwnerInv, ReaderInv,
       OwnerKept
<1>17. ASSUME NEW p \in Runs, ReusePid(p) PROVE OwnerKept
  BY <1>17 DEF ReusePid, disk, procs, env, polling, TypeOK, OwnerInv, ReaderInv, OwnerKept
<1>18. ASSUME NEW r \in Readers, ReadStatus(r) PROVE OwnerKept
  BY <1>18 DEF ReadStatus, disk, procs, env, polling, Reply, PublicStatus, TypeOK, OwnerInv,
       ReaderInv, OwnerKept
<1>19. ASSUME NEW r \in Readers, CheckOwner(r) PROVE OwnerKept
  BY <1>19 DEF CheckOwner, disk, procs, env, polling, Reply, Gone, TypeOK, OwnerInv, ReaderInv,
       OwnerKept
<1>20. ASSUME NEW r \in Readers, Reread(r) PROVE OwnerKept
  BY <1>20 DEF Reread, disk, procs, env, polling, TypeOK, OwnerInv, ReaderInv, OwnerKept
<1>21. ASSUME NEW r \in Readers, WriteInterrupted(r) PROVE OwnerKept
  BY <1>21, InterruptedFields DEF WriteInterrupted, disk, procs, env, polling, Reply, TypeOK,
       OwnerInv, ReaderInv, OwnerKept
<1>22. ASSUME NEW r \in Readers, StatusError(r) PROVE OwnerKept
  BY <1>22 DEF StatusError, disk, procs, env, polling, Reply, TypeOK, OwnerInv, ReaderInv,
       OwnerKept
<1>23. ASSUME NEW r \in Readers, NEW t \in ModelTypes, Ask(r, t) PROVE OwnerKept
  BY <1>23 DEF Ask, disk, procs, env, polling, TypeOK, OwnerInv, ReaderInv, OwnerKept
<1>24. CASE UNCHANGED vars
  BY <1>24 DEF vars, disk, procs, env, polling, TypeOK, OwnerInv, ReaderInv, OwnerKept
<1>. QED
  BY <1>1, <1>2, <1>3, <1>4, <1>5, <1>6, <1>7, <1>8, <1>9, <1>10, <1>11, <1>12,
     <1>13, <1>14, <1>15, <1>16, <1>17, <1>18, <1>19, <1>20, <1>21, <1>22, <1>23, <1>24 DEF
          Next, RunStep, ReaderStep

\* Only the owner of a directory writes its own manifest back, or a request its owner's.
LEMMA OwnerStep ==
  TypeOK /\ OwnerInv /\ ReaderInv /\ [Next]_vars => OwnerInv'
<1> SUFFICES ASSUME TypeOK, OwnerInv, ReaderInv, [Next]_vars PROVE OwnerInv'
  OBVIOUS
<1> USE DEF Owning, Reading, Writing, Locked, Ended
<1>1. CASE Register
  BY <1>1 DEF Register, disk, procs, env, polling, TypeOK, OwnerInv, ReaderInv
<1>2. CASE Unregister
  BY <1>2 DEF Unregister, disk, procs, env, polling, TypeOK, OwnerInv, ReaderInv
<1>3. ASSUME NEW p \in Runs, Acquire(p) PROVE OwnerInv'
  BY <1>3 DEF Acquire, disk, procs, env, polling, Goto, LockFree, TypeOK, OwnerInv, ReaderInv
<1>4. ASSUME NEW p \in Runs, Reserve(p) PROVE OwnerInv'
  BY <1>4 DEF Reserve, disk, procs, env, polling, Goto, DirExists, TypeOK, OwnerInv, ReaderInv
<1>5. ASSUME NEW p \in Runs, Publish(p) PROVE OwnerInv'
  <2>1. CASE Goto(p, "staged", "leaving") /\ UNCHANGED manifest
    BY <1>5, <2>1 DEF Publish, Goto, TypeOK, OwnerInv
  <2>2. CASE /\ Goto(p, "staged", "starting") /\ ~DirExists(type[p])
             /\ manifest' = [manifest EXCEPT ![type[p]] = [status |-> "reserved", owner |-> p]]
    <3>1. /\ type' = type /\ buf' = buf /\ type[p] \in ModelTypes
          /\ pc[p] = "staged" /\ pc'[p] = "starting" /\ \A q \in Runs \ {p} : pc'[q] = pc[q]
      BY <1>5, <2>2 DEF Publish, Goto, TypeOK
    <3>2. /\ manifest[type[p]].status = "none"
          /\ manifest'[type[p]].status = "reserved" /\ manifest'[type[p]].owner = p
          /\ \A t \in ModelTypes \ {type[p]} : manifest'[t] = manifest[t]
      BY <2>2, <3>1 DEF DirExists, TypeOK
    <3>3. \A q \in Runs : type[q] \in ModelTypes
      BY DEF TypeOK
    <3>. QED
      BY <3>1, <3>2, <3>3 DEF OwnerInv
  <2>. QED
    BY <1>5, <2>1, <2>2 DEF Publish
<1>6. ASSUME NEW p \in Runs, ReadManifest(p) PROVE OwnerInv'
  BY <1>6 DEF ReadManifest, disk, procs, env, polling, Goto, AfterError, TypeOK, OwnerInv,
       ReaderInv
<1>7. ASSUME NEW p \in Runs, WriteManifest(p) PROVE OwnerInv'
  BY <1>7, WriteFields DEF WriteManifest, disk, procs, env, polling, Goto, Put, AfterError,
       TypeOK, OwnerInv, ReaderInv
<1>8. ASSUME NEW p \in Runs, Announce(p) PROVE OwnerInv'
  BY <1>8 DEF Announce, disk, procs, env, polling, Goto, MarkRunning, Statuses, TypeOK, OwnerInv, ReaderInv
<1>9. ASSUME NEW p \in Runs, EndTraining(p) PROVE OwnerInv'
  BY <1>9 DEF EndTraining, disk, procs, env, polling, Goto, TypeOK, OwnerInv, ReaderInv
<1>10. ASSUME NEW p \in Runs, Conclude(p) PROVE OwnerInv'
  BY <1>10 DEF Conclude, disk, procs, env, polling, Goto, Mark, Validated, TypeOK, OwnerInv,
       ReaderInv
<1>11. ASSUME NEW p \in Runs, MarkFailed(p) PROVE OwnerInv'
  BY <1>11 DEF MarkFailed, disk, procs, env, polling, Goto, Mark, TypeOK, OwnerInv, ReaderInv
<1>12. ASSUME NEW p \in Runs, Release(p) PROVE OwnerInv'
  BY <1>12 DEF Release, disk, procs, env, polling, Goto, TypeOK, OwnerInv, ReaderInv
<1>13. ASSUME NEW p \in Runs, MarkLate(p) PROVE OwnerInv'
  BY <1>13, LateFields DEF MarkLate, disk, procs, env, polling, Goto, Put, TypeOK, OwnerInv,
       ReaderInv
<1>14. ASSUME NEW p \in Runs, SaveCheckpoint(p) PROVE OwnerInv'
  BY <1>14 DEF SaveCheckpoint, disk, procs, env, polling, TypeOK, OwnerInv, ReaderInv
<1>15. ASSUME NEW p \in Runs, Exit(p) PROVE OwnerInv'
  BY <1>15 DEF Exit, disk, procs, env, polling, Goto, TypeOK, OwnerInv, ReaderInv
<1>16. ASSUME NEW p \in Runs, Crash(p) PROVE OwnerInv'
  BY <1>16 DEF Crash, disk, procs, env, polling, LockAfterCrash, TypeOK, OwnerInv, ReaderInv
<1>17. ASSUME NEW p \in Runs, ReusePid(p) PROVE OwnerInv'
  BY <1>17 DEF ReusePid, disk, procs, env, polling, TypeOK, OwnerInv, ReaderInv
<1>18. ASSUME NEW r \in Readers, ReadStatus(r) PROVE OwnerInv'
  BY <1>18 DEF ReadStatus, disk, procs, env, polling, Reply, PublicStatus, TypeOK, OwnerInv,
       ReaderInv
<1>19. ASSUME NEW r \in Readers, CheckOwner(r) PROVE OwnerInv'
  BY <1>19 DEF CheckOwner, disk, procs, env, polling, Reply, Gone, TypeOK, OwnerInv, ReaderInv
<1>20. ASSUME NEW r \in Readers, Reread(r) PROVE OwnerInv'
  BY <1>20 DEF Reread, disk, procs, env, polling, TypeOK, OwnerInv, ReaderInv
<1>21. ASSUME NEW r \in Readers, WriteInterrupted(r) PROVE OwnerInv'
  BY <1>21, InterruptedFields DEF WriteInterrupted, disk, procs, env, polling, Reply, TypeOK,
       OwnerInv, ReaderInv
<1>22. ASSUME NEW r \in Readers, StatusError(r) PROVE OwnerInv'
  BY <1>22 DEF StatusError, disk, procs, env, polling, Reply, TypeOK, OwnerInv, ReaderInv
<1>23. ASSUME NEW r \in Readers, NEW t \in ModelTypes, Ask(r, t) PROVE OwnerInv'
  BY <1>23 DEF Ask, disk, procs, env, polling, TypeOK, OwnerInv, ReaderInv
<1>24. CASE UNCHANGED vars
  BY <1>24 DEF vars, disk, procs, env, polling, TypeOK, OwnerInv, ReaderInv
<1>. QED
  BY <1>1, <1>2, <1>3, <1>4, <1>5, <1>6, <1>7, <1>8, <1>9, <1>10, <1>11, <1>12,
     <1>13, <1>14, <1>15, <1>16, <1>17, <1>18, <1>19, <1>20, <1>21, <1>22, <1>23, <1>24 DEF
          Next, RunStep, ReaderStep

\* Final statuses are written by processes that have come that far.
LEMMA OutcomeStep ==
  TypeOK /\ OwnerInv /\ OutcomeInv /\ ReaderInv /\ [Next]_vars => OutcomeInv'
<1> SUFFICES ASSUME TypeOK, OwnerInv, OutcomeInv, ReaderInv, [Next]_vars PROVE OutcomeInv'
  OBVIOUS
<1> USE DEF Owning, Past, Reading, Writing, Locked, Ended
<1>o. Onwards
  BY Onward
<1>k. OwnerKept
  BY KeepOwner
<1>1. CASE Register
  BY <1>1 DEF Register, disk, procs, env, polling, TypeOK, OwnerInv, OutcomeInv, OutcomeByPc,
       FailedIsPast, ReaderInv, SucceededIsReal
<1>2. CASE Unregister
  BY <1>2 DEF Unregister, disk, procs, env, polling, TypeOK, OwnerInv, OutcomeInv, OutcomeByPc,
       FailedIsPast, ReaderInv, SucceededIsReal
<1>3. ASSUME NEW p \in Runs, Acquire(p) PROVE OutcomeInv'
  BY <1>3 DEF Acquire, disk, procs, env, polling, Goto, LockFree, TypeOK, OwnerInv, OutcomeInv,
       OutcomeByPc, FailedIsPast, ReaderInv, SucceededIsReal
<1>4. ASSUME NEW p \in Runs, Reserve(p) PROVE OutcomeInv'
  BY <1>4 DEF Reserve, disk, procs, env, polling, Goto, DirExists, TypeOK, OwnerInv, OutcomeInv,
       OutcomeByPc, FailedIsPast, ReaderInv, SucceededIsReal
<1>5. ASSUME NEW p \in Runs, Publish(p) PROVE OutcomeInv'
  <2>1. OutcomeByPc'
    BY <1>5 DEF Publish, DirExists, Goto, AfterError, TypeOK, OutcomeInv, OutcomeByPc,
       disk, procs, env, polling
  <2>2. SucceededIsReal'
    BY <1>5, <1>o DEF Publish, DirExists, Goto, TypeOK, OwnerInv, OutcomeInv, OutcomeByPc,
       SucceededIsReal, disk, procs, env, polling
  <2>3. FailedIsPast'
    BY <1>5, <1>o DEF Publish, DirExists, Goto, TypeOK, OwnerInv, OutcomeInv,
       FailedIsPast, Onwards, disk, procs, env, polling
  <2>. QED
    BY <2>1, <2>2, <2>3 DEF OutcomeInv
<1>6. ASSUME NEW p \in Runs, ReadManifest(p) PROVE OutcomeInv'
  BY <1>6 DEF ReadManifest, disk, procs, env, polling, Goto, AfterError, TypeOK, OwnerInv,
       OutcomeInv, OutcomeByPc, FailedIsPast, ReaderInv, SucceededIsReal
<1>7. ASSUME NEW p \in Runs, WriteManifest(p) PROVE OutcomeInv'
  <2>1. OutcomeByPc'
    BY <1>7, WriteFields DEF WriteManifest, Goto, AfterError, TypeOK, OutcomeInv, OutcomeByPc,
       disk, procs, env, polling
  <2>2. SucceededIsReal'
    BY <1>7, WriteFields, <1>o DEF WriteManifest, Goto, TypeOK, OwnerInv, OutcomeInv,
         OutcomeByPc,
       SucceededIsReal, disk, procs, env, polling
  <2>3. FailedIsPast'
    BY <1>7, WriteFields, <1>o DEF WriteManifest, Goto, TypeOK, OwnerInv, OutcomeInv,
       FailedIsPast, Onwards, disk, procs, env, polling
  <2>. QED
    BY <2>1, <2>2, <2>3 DEF OutcomeInv
<1>8. ASSUME NEW p \in Runs, Announce(p) PROVE OutcomeInv'
  BY <1>8 DEF Announce, disk, procs, env, polling, Goto, MarkRunning, Statuses, TypeOK, OwnerInv, OutcomeInv,
       OutcomeByPc, FailedIsPast, ReaderInv, SucceededIsReal
<1>9. ASSUME NEW p \in Runs, EndTraining(p) PROVE OutcomeInv'
  BY <1>9 DEF EndTraining, disk, procs, env, polling, Goto, TypeOK, OwnerInv, OutcomeInv,
       OutcomeByPc, FailedIsPast, ReaderInv, SucceededIsReal
<1>10. ASSUME NEW p \in Runs, Conclude(p) PROVE OutcomeInv'
  BY <1>10 DEF Conclude, disk, procs, env, polling, Goto, Mark, Validated, TypeOK, OwnerInv,
       OutcomeInv, OutcomeByPc, FailedIsPast, ReaderInv, SucceededIsReal
<1>11. ASSUME NEW p \in Runs, MarkFailed(p) PROVE OutcomeInv'
  BY <1>11 DEF MarkFailed, disk, procs, env, polling, Goto, Mark, TypeOK, OwnerInv, OutcomeInv,
       OutcomeByPc, FailedIsPast, ReaderInv, SucceededIsReal
<1>12. ASSUME NEW p \in Runs, Release(p) PROVE OutcomeInv'
  BY <1>12 DEF Release, disk, procs, env, polling, Goto, TypeOK, OwnerInv, OutcomeInv,
       OutcomeByPc, FailedIsPast, ReaderInv, SucceededIsReal
<1>13. ASSUME NEW p \in Runs, MarkLate(p) PROVE OutcomeInv'
  <2>1. OutcomeByPc'
    BY <1>13, LateFields DEF MarkLate, Goto, AfterError, TypeOK, OutcomeInv, OutcomeByPc,
       disk, procs, env, polling
  <2>2. SucceededIsReal'
    BY <1>13, LateFields, <1>o DEF MarkLate, Goto, TypeOK, OwnerInv, OutcomeInv, OutcomeByPc,
       SucceededIsReal, disk, procs, env, polling
  <2>3. FailedIsPast'
    <3>1. CASE UNCHANGED manifest
      BY <1>o, <3>1 DEF OwnerInv, OutcomeInv, FailedIsPast, Onwards
    <3>2. ASSUME ~UNCHANGED manifest PROVE FailedIsPast'
      <4>1. /\ manifest'[type[p]].owner = p /\ pc'[p] = "over"
            /\ \A t \in ModelTypes \ {type[p]} : manifest'[t] = manifest[t]
        BY <1>13, <3>2, LateFields DEF OwnerInv
      <4>. QED
        BY <1>o, <4>1 DEF OwnerInv, OutcomeInv, FailedIsPast, Onwards, Past
    <3>. QED
      BY <3>1, <3>2
  <2>. QED
    BY <2>1, <2>2, <2>3 DEF OutcomeInv
<1>14. ASSUME NEW p \in Runs, SaveCheckpoint(p) PROVE OutcomeInv'
  BY <1>14 DEF SaveCheckpoint, disk, procs, env, polling, TypeOK, OwnerInv, OutcomeInv,
       OutcomeByPc, FailedIsPast, ReaderInv, SucceededIsReal
<1>15. ASSUME NEW p \in Runs, Exit(p) PROVE OutcomeInv'
  BY <1>15 DEF Exit, disk, procs, env, polling, Goto, TypeOK, OwnerInv, OutcomeInv, OutcomeByPc,
       FailedIsPast, ReaderInv, SucceededIsReal
<1>16. ASSUME NEW p \in Runs, Crash(p) PROVE OutcomeInv'
  BY <1>16 DEF Crash, disk, procs, env, polling, LockAfterCrash, TypeOK, OwnerInv, OutcomeInv,
       OutcomeByPc, FailedIsPast, ReaderInv, SucceededIsReal
<1>17. ASSUME NEW p \in Runs, ReusePid(p) PROVE OutcomeInv'
  BY <1>17 DEF ReusePid, disk, procs, env, polling, TypeOK, OwnerInv, OutcomeInv, OutcomeByPc,
       FailedIsPast, ReaderInv, SucceededIsReal
<1>18. ASSUME NEW r \in Readers, ReadStatus(r) PROVE OutcomeInv'
  BY <1>18 DEF ReadStatus, disk, procs, env, polling, Reply, PublicStatus, TypeOK, OwnerInv,
       OutcomeInv, OutcomeByPc, FailedIsPast, ReaderInv, SucceededIsReal
<1>19. ASSUME NEW r \in Readers, CheckOwner(r) PROVE OutcomeInv'
  BY <1>19 DEF CheckOwner, disk, procs, env, polling, Reply, Gone, TypeOK, OwnerInv, OutcomeInv,
       OutcomeByPc, FailedIsPast, ReaderInv, SucceededIsReal
<1>20. ASSUME NEW r \in Readers, Reread(r) PROVE OutcomeInv'
  BY <1>20 DEF Reread, disk, procs, env, polling, TypeOK, OwnerInv, OutcomeInv, OutcomeByPc,
       FailedIsPast, ReaderInv, SucceededIsReal
<1>21. ASSUME NEW r \in Readers, WriteInterrupted(r) PROVE OutcomeInv'
  BY <1>21, InterruptedFields DEF WriteInterrupted, disk, procs, env, polling, Reply, TypeOK,
       OwnerInv, OutcomeInv, OutcomeByPc, FailedIsPast, ReaderInv, SucceededIsReal
<1>22. ASSUME NEW r \in Readers, StatusError(r) PROVE OutcomeInv'
  BY <1>22 DEF StatusError, disk, procs, env, polling, Reply, TypeOK, OwnerInv, OutcomeInv,
       OutcomeByPc, FailedIsPast, ReaderInv, SucceededIsReal
<1>23. ASSUME NEW r \in Readers, NEW t \in ModelTypes, Ask(r, t) PROVE OutcomeInv'
  BY <1>23 DEF Ask, disk, procs, env, polling, TypeOK, OwnerInv, OutcomeInv, OutcomeByPc,
       FailedIsPast, ReaderInv, SucceededIsReal
<1>24. CASE UNCHANGED vars
  BY <1>24 DEF vars, disk, procs, env, polling, TypeOK, OwnerInv, OutcomeInv, OutcomeByPc,
       FailedIsPast, ReaderInv, SucceededIsReal
<1>. QED
  BY <1>1, <1>2, <1>3, <1>4, <1>5, <1>6, <1>7, <1>8, <1>9, <1>10, <1>11, <1>12,
     <1>13, <1>14, <1>15, <1>16, <1>17, <1>18, <1>19, <1>20, <1>21, <1>22, <1>23, <1>24 DEF
          Next, RunStep, ReaderStep

\* Steps that answer no request keep what is known of the requests.
LEMMA PollingKept ==
  ASSUME TypeOK, OwnerInv, ReaderInv, [Next]_vars, UNCHANGED polling
  PROVE  ReaderInv'
<1>1. OwnerKept /\ Onwards
  BY KeepOwner, Onward
<1>. QED
  BY <1>1 DEF polling, OwnerKept, Onwards, ReaderInv, TypeOK

\* What a request has seen is still about the same owner.
LEMMA ReaderStepInv ==
  TypeOK /\ OwnerInv /\ ReaderInv /\ [Next]_vars => ReaderInv'
<1> SUFFICES ASSUME TypeOK, OwnerInv, ReaderInv, [Next]_vars PROVE ReaderInv'
  OBVIOUS
<1> USE DEF Reading, Writing, Locked, Ended
<1>1. CASE Register
  BY <1>1, PollingKept DEF Register, polling
<1>2. CASE Unregister
  BY <1>2, PollingKept DEF Unregister, polling
<1>3. ASSUME NEW p \in Runs, Acquire(p) PROVE ReaderInv'
  BY <1>3, PollingKept DEF Acquire, polling
<1>4. ASSUME NEW p \in Runs, Reserve(p) PROVE ReaderInv'
  BY <1>4, PollingKept DEF Reserve, polling
<1>5. ASSUME NEW p \in Runs, Publish(p) PROVE ReaderInv'
  BY <1>5, PollingKept DEF Publish, polling
<1>6. ASSUME NEW p \in Runs, ReadManifest(p) PROVE ReaderInv'
  BY <1>6, PollingKept DEF ReadManifest, polling
<1>7. ASSUME NEW p \in Runs, WriteManifest(p) PROVE ReaderInv'
  BY <1>7, PollingKept DEF WriteManifest, polling
<1>8. ASSUME NEW p \in Runs, Announce(p) PROVE ReaderInv'
  BY <1>8, PollingKept DEF Announce, polling
<1>9. ASSUME NEW p \in Runs, EndTraining(p) PROVE ReaderInv'
  BY <1>9, PollingKept DEF EndTraining, polling
<1>10. ASSUME NEW p \in Runs, Conclude(p) PROVE ReaderInv'
  BY <1>10, PollingKept DEF Conclude, polling
<1>11. ASSUME NEW p \in Runs, MarkFailed(p) PROVE ReaderInv'
  BY <1>11, PollingKept DEF MarkFailed, polling
<1>12. ASSUME NEW p \in Runs, Release(p) PROVE ReaderInv'
  BY <1>12, PollingKept DEF Release, polling
<1>13. ASSUME NEW p \in Runs, MarkLate(p) PROVE ReaderInv'
  BY <1>13, PollingKept DEF MarkLate, polling
<1>14. ASSUME NEW p \in Runs, SaveCheckpoint(p) PROVE ReaderInv'
  BY <1>14, PollingKept DEF SaveCheckpoint, polling
<1>15. ASSUME NEW p \in Runs, Exit(p) PROVE ReaderInv'
  BY <1>15, PollingKept DEF Exit, polling
<1>16. ASSUME NEW p \in Runs, Crash(p) PROVE ReaderInv'
  BY <1>16, PollingKept DEF Crash, polling
<1>17. ASSUME NEW p \in Runs, ReusePid(p) PROVE ReaderInv'
  BY <1>17, PollingKept DEF ReusePid, polling
<1>18. ASSUME NEW r \in Readers, ReadStatus(r) PROVE ReaderInv'
  BY <1>18 DEF ReadStatus, disk, procs, env, polling, Reply, PublicStatus, TypeOK, OwnerInv,
       ReaderInv, Manifest, PublicStatus, Unfinished, Finished
<1>19. ASSUME NEW r \in Readers, CheckOwner(r) PROVE ReaderInv'
  BY <1>19 DEF CheckOwner, disk, procs, env, polling, Reply, Gone, TypeOK, OwnerInv, ReaderInv,
       Manifest, PublicStatus, Unfinished, Finished
<1>20. ASSUME NEW r \in Readers, Reread(r) PROVE ReaderInv'
  BY <1>20 DEF Reread, disk, procs, env, polling, TypeOK, OwnerInv, ReaderInv, Manifest,
       PublicStatus, Unfinished, Finished
<1>21. ASSUME NEW r \in Readers, WriteInterrupted(r) PROVE ReaderInv'
  BY <1>21, InterruptedFields DEF WriteInterrupted, disk, procs, env, polling, Reply, TypeOK,
       OwnerInv, ReaderInv, Manifest, PublicStatus, Unfinished, Finished
<1>22. ASSUME NEW r \in Readers, StatusError(r) PROVE ReaderInv'
  BY <1>22 DEF StatusError, disk, procs, env, polling, Reply, TypeOK, OwnerInv, ReaderInv,
       Manifest, PublicStatus, Unfinished, Finished
<1>23. ASSUME NEW r \in Readers, NEW t \in ModelTypes, Ask(r, t) PROVE ReaderInv'
  BY <1>23 DEF Ask, disk, procs, env, polling, TypeOK, OwnerInv, ReaderInv, Manifest,
       PublicStatus, Unfinished, Finished
<1>24. CASE UNCHANGED vars
  BY <1>24, PollingKept DEF vars, polling
<1>. QED
  BY <1>1, <1>2, <1>3, <1>4, <1>5, <1>6, <1>7, <1>8, <1>9, <1>10, <1>11, <1>12,
     <1>13, <1>14, <1>15, <1>16, <1>17, <1>18, <1>19, <1>20, <1>21, <1>22, <1>23, <1>24 DEF
          Next, RunStep, ReaderStep

\* Steps that answer no request keep what was answered true.
LEMMA AnswersKept ==
  ASSUME TypeOK, OwnerInv, OutcomeInv, ReaderInv, GoneInv, [Next]_vars, UNCHANGED polling
  PROVE  SeenGone' /\ AnswerIsTrue'
<1>1. OwnerKept /\ Onwards
  BY KeepOwner, Onward
<1>2. SeenGone'
  BY <1>1 DEF polling, Onwards, OwnerInv, ReaderInv, GoneInv, SeenGone, TypeOK
<1>3. ASSUME NEW r \in Readers, answer[r] \in {"RUNNING", "SUCCEEDED", "FAILED"}
      PROVE  /\ manifest'[topic'[r]].owner = manifest[topic[r]].owner
             /\ manifest[topic[r]].owner \in Runs
  BY <1>1, <1>3 DEF polling, OwnerKept, OwnerInv, ReaderInv, TypeOK
<1>4. AnswerIsTrue'
  BY <1>1, <1>3 DEF polling, Onwards, GoneInv, AnswerIsTrue, OutcomeInv, OutcomeByPc, TypeOK
<1>. QED
  BY <1>2, <1>4

\* Only a request that has seen its owner gone marks a manifest interrupted.
LEMMA InterruptedStep ==
  TypeOK /\ OwnerInv /\ ReaderInv /\ GoneInv /\ [Next]_vars => InterruptedMeansGone'
<1> SUFFICES ASSUME TypeOK, OwnerInv, ReaderInv, GoneInv, [Next]_vars PROVE
     InterruptedMeansGone'
  OBVIOUS
<1>o. Onwards
  BY Onward
<1>1. CASE Register
  BY <1>1, <1>o DEF Register, disk, procs, env, polling, TypeOK, OwnerInv, ReaderInv, GoneInv,
       SeenGone, InterruptedMeansGone, Onwards
<1>2. CASE Unregister
  BY <1>2, <1>o DEF Unregister, disk, procs, env, polling, TypeOK, OwnerInv, ReaderInv, GoneInv,
       SeenGone, InterruptedMeansGone, Onwards
<1>3. ASSUME NEW p \in Runs, Acquire(p) PROVE InterruptedMeansGone'
  BY <1>3, <1>o DEF Acquire, disk, procs, env, polling, Goto, LockFree, TypeOK, OwnerInv,
       ReaderInv, GoneInv, SeenGone, InterruptedMeansGone, Onwards
<1>4. ASSUME NEW p \in Runs, Reserve(p) PROVE InterruptedMeansGone'
  BY <1>4, <1>o DEF Reserve, disk, procs, env, polling, Goto, DirExists, TypeOK, OwnerInv,
       ReaderInv, GoneInv, SeenGone, InterruptedMeansGone, Onwards
<1>5. ASSUME NEW p \in Runs, Publish(p) PROVE InterruptedMeansGone'
  <2>1. \A t \in ModelTypes : manifest'[t].status = "interrupted" => manifest'[t] = manifest[t]
    BY <1>5 DEF Publish, TypeOK
  <2>. QED
    BY <1>o, <2>1 DEF OwnerInv, GoneInv, InterruptedMeansGone, Onwards
<1>6. ASSUME NEW p \in Runs, ReadManifest(p) PROVE InterruptedMeansGone'
  BY <1>6, <1>o DEF ReadManifest, disk, procs, env, polling, Goto, AfterError, TypeOK, OwnerInv,
       ReaderInv, GoneInv, SeenGone, InterruptedMeansGone, Onwards
<1>7. ASSUME NEW p \in Runs, WriteManifest(p) PROVE InterruptedMeansGone'
  BY <1>7, WriteFields, <1>o DEF WriteManifest, disk, procs, env, polling, Goto, Put,
       AfterError, TypeOK, OwnerInv, ReaderInv, GoneInv, SeenGone, InterruptedMeansGone, Onwards
<1>8. ASSUME NEW p \in Runs, Announce(p) PROVE InterruptedMeansGone'
  BY <1>8, <1>o DEF Announce, disk, procs, env, polling, Goto, MarkRunning, Statuses, TypeOK, OwnerInv,
       ReaderInv, GoneInv, SeenGone, InterruptedMeansGone, Onwards
<1>9. ASSUME NEW p \in Runs, EndTraining(p) PROVE InterruptedMeansGone'
  BY <1>9, <1>o DEF EndTraining, disk, procs, env, polling, Goto, TypeOK, OwnerInv, ReaderInv,
       GoneInv, SeenGone, InterruptedMeansGone, Onwards
<1>10. ASSUME NEW p \in Runs, Conclude(p) PROVE InterruptedMeansGone'
  BY <1>10, <1>o DEF Conclude, disk, procs, env, polling, Goto, Mark, Validated, TypeOK,
       OwnerInv, ReaderInv, GoneInv, SeenGone, InterruptedMeansGone, Onwards
<1>11. ASSUME NEW p \in Runs, MarkFailed(p) PROVE InterruptedMeansGone'
  BY <1>11, <1>o DEF MarkFailed, disk, procs, env, polling, Goto, Mark, TypeOK, OwnerInv,
       ReaderInv, GoneInv, SeenGone, InterruptedMeansGone, Onwards
<1>12. ASSUME NEW p \in Runs, Release(p) PROVE InterruptedMeansGone'
  BY <1>12, <1>o DEF Release, disk, procs, env, polling, Goto, TypeOK, OwnerInv, ReaderInv,
       GoneInv, SeenGone, InterruptedMeansGone, Onwards
<1>13. ASSUME NEW p \in Runs, MarkLate(p) PROVE InterruptedMeansGone'
  BY <1>13, LateFields, <1>o DEF MarkLate, disk, procs, env, polling, Goto, Put, TypeOK,
       OwnerInv, ReaderInv, GoneInv, SeenGone, InterruptedMeansGone, Onwards
<1>14. ASSUME NEW p \in Runs, SaveCheckpoint(p) PROVE InterruptedMeansGone'
  BY <1>14, <1>o DEF SaveCheckpoint, disk, procs, env, polling, TypeOK, OwnerInv, ReaderInv,
       GoneInv, SeenGone, InterruptedMeansGone, Onwards
<1>15. ASSUME NEW p \in Runs, Exit(p) PROVE InterruptedMeansGone'
  BY <1>15, <1>o DEF Exit, disk, procs, env, polling, Goto, TypeOK, OwnerInv, ReaderInv,
       GoneInv, SeenGone, InterruptedMeansGone, Onwards
<1>16. ASSUME NEW p \in Runs, Crash(p) PROVE InterruptedMeansGone'
  BY <1>16, <1>o DEF Crash, disk, procs, env, polling, LockAfterCrash, TypeOK, OwnerInv,
       ReaderInv, GoneInv, SeenGone, InterruptedMeansGone, Onwards
<1>17. ASSUME NEW p \in Runs, ReusePid(p) PROVE InterruptedMeansGone'
  BY <1>17, <1>o DEF ReusePid, disk, procs, env, polling, TypeOK, OwnerInv, ReaderInv, GoneInv,
       SeenGone, InterruptedMeansGone, Onwards
<1>18. ASSUME NEW r \in Readers, ReadStatus(r) PROVE InterruptedMeansGone'
  BY <1>18, <1>o DEF ReadStatus, disk, procs, env, polling, Reply, PublicStatus, TypeOK,
       OwnerInv, ReaderInv, GoneInv, SeenGone, InterruptedMeansGone, Onwards
<1>19. ASSUME NEW r \in Readers, CheckOwner(r) PROVE InterruptedMeansGone'
  BY <1>19, <1>o DEF CheckOwner, disk, procs, env, polling, Reply, Gone, TypeOK, OwnerInv,
       ReaderInv, GoneInv, SeenGone, InterruptedMeansGone, Onwards
<1>20. ASSUME NEW r \in Readers, Reread(r) PROVE InterruptedMeansGone'
  BY <1>20, <1>o DEF Reread, disk, procs, env, polling, TypeOK, OwnerInv, ReaderInv, GoneInv,
       SeenGone, InterruptedMeansGone, Onwards
<1>21. ASSUME NEW r \in Readers, WriteInterrupted(r) PROVE InterruptedMeansGone'
  BY <1>21, InterruptedFields, <1>o DEF WriteInterrupted, disk, procs, env, polling, Reply,
       TypeOK, OwnerInv, ReaderInv, GoneInv, SeenGone, InterruptedMeansGone, Onwards
<1>22. ASSUME NEW r \in Readers, StatusError(r) PROVE InterruptedMeansGone'
  BY <1>22, <1>o DEF StatusError, disk, procs, env, polling, Reply, TypeOK, OwnerInv, ReaderInv,
       GoneInv, SeenGone, InterruptedMeansGone, Onwards
<1>23. ASSUME NEW r \in Readers, NEW t \in ModelTypes, Ask(r, t) PROVE InterruptedMeansGone'
  BY <1>23, <1>o DEF Ask, disk, procs, env, polling, TypeOK, OwnerInv, ReaderInv, GoneInv,
       SeenGone, InterruptedMeansGone, Onwards
<1>24. CASE UNCHANGED vars
  BY <1>24 DEF vars, disk, procs, env, polling, TypeOK, OwnerInv, ReaderInv, GoneInv, SeenGone,
       InterruptedMeansGone, Onwards
<1>. QED
  BY <1>1, <1>2, <1>3, <1>4, <1>5, <1>6, <1>7, <1>8, <1>9, <1>10, <1>11, <1>12,
     <1>13, <1>14, <1>15, <1>16, <1>17, <1>18, <1>19, <1>20, <1>21, <1>22, <1>23, <1>24 DEF
          Next, RunStep, ReaderStep

\* A request answers what it has seen.
LEMMA AnswerStep ==
  ASSUME Visible = Runs, TypeOK, OwnerInv, OutcomeInv, ReaderInv, GoneInv,
         NEW r \in Readers, NEW t \in ModelTypes,
         ReaderStep(r) \/ StatusError(r) \/ Ask(r, t)
  PROVE  SeenGone' /\ AnswerIsTrue'
<1>1. [Next]_vars
  BY DEF Next
<1>2. OwnerKept /\ Onwards
  BY <1>1, KeepOwner, Onward
<1>3. ASSUME NEW q \in Readers, q # r
      PROVE  /\ reader'[q] = reader[q] /\ topic'[q] = topic[q] /\ seen'[q] = seen[q]
             /\ answer'[q] = answer[q] /\ goneAtAsk'[q] = goneAtAsk[q]
  BY <1>3 DEF ReaderStep, ReadStatus, CheckOwner, Reread, WriteInterrupted, StatusError, Ask,
     Reply, TypeOK
<1>4. pc' = pc /\ outcome' = outcome
  BY DEF ReaderStep, ReadStatus, CheckOwner, Reread, WriteInterrupted, StatusError, Ask, procs
<1>5. CASE ReadStatus(r)
  <2>1. CASE manifest[topic[r]].status \in Unfinished
    BY <1>2, <1>3, <1>4, <1>5, <2>1 DEF ReadStatus, disk, TypeOK, GoneInv, SeenGone,
         AnswerIsTrue
  <2>2. CASE manifest[topic[r]].status \in Finished
    BY <1>2, <1>3, <1>4, <1>5, <2>2 DEF ReadStatus, disk, Reply, PublicStatus, TypeOK, Manifest,
       GoneInv, SeenGone, AnswerIsTrue, InterruptedMeansGone, OutcomeInv, SucceededIsReal,
       FailedIsPast, Past, Unfinished, Finished
  <2>3. CASE manifest[topic[r]].status = "none"
    BY <1>2, <1>3, <1>4, <1>5, <2>3 DEF ReadStatus, disk, Reply, PublicStatus, TypeOK,
         Unfinished,
       GoneInv, SeenGone, AnswerIsTrue
  <2>. QED
    BY <2>1, <2>2, <2>3 DEF TypeOK, Manifest
<1>6. CASE CheckOwner(r)
  <2>1. seen[r].owner = manifest[topic[r]].owner /\ seen[r].owner \in Runs
    BY <1>6 DEF CheckOwner, ReaderInv, OwnerInv, TypeOK
  <2>2. SeenGone'
    BY <1>3, <1>4, <1>6, <2>1 DEF CheckOwner, Gone, Reply, TypeOK, GoneInv, SeenGone
  <2>3. AnswerIsTrue'
    BY <1>3, <1>4, <1>6, <2>1 DEF CheckOwner, Gone, Reply, disk, TypeOK, GoneInv, AnswerIsTrue,
       ReaderInv
  <2>. QED
    BY <2>2, <2>3
<1>7. CASE Reread(r)
  BY <1>3, <1>4, <1>7 DEF Reread, disk, TypeOK, ReaderInv, GoneInv, SeenGone, AnswerIsTrue
<1>8. CASE WriteInterrupted(r)
  <2>1. pc[manifest'[topic[r]].owner] \in Ended
    BY <1>8, InterruptedFields DEF WriteInterrupted, GoneInv, SeenGone
  <2>2. SeenGone'
    BY <1>3, <1>4, <1>8 DEF WriteInterrupted, Reply, TypeOK, GoneInv, SeenGone
  <2>3. ASSUME NEW q \in Readers, q # r, answer[q] \in {"RUNNING", "SUCCEEDED", "FAILED"}
        PROVE  manifest'[topic'[q]].owner = manifest[topic[q]].owner
    BY <1>2, <1>3, <2>3 DEF OwnerKept, ReaderInv, TypeOK
  <2>4. answer'[r] = "FAILED" /\ topic'[r] = topic[r]
    BY <1>8 DEF WriteInterrupted, Reply, TypeOK
  <2>5. AnswerIsTrue'
    BY <1>3, <1>4, <2>1, <2>3, <2>4 DEF GoneInv, AnswerIsTrue, Past
  <2>. QED
    BY <2>2, <2>5
<1>9. CASE StatusError(r)
  BY <1>3, <1>4, <1>9 DEF StatusError, Reply, disk, TypeOK, GoneInv, SeenGone, AnswerIsTrue
<1>10. CASE Ask(r, t)
  BY <1>3, <1>4, <1>10 DEF Ask, disk, TypeOK, GoneInv, SeenGone, AnswerIsTrue
<1>. QED
  BY <1>5, <1>6, <1>7, <1>8, <1>9, <1>10 DEF ReaderStep

LEMMA GoneStep ==
  ASSUME Visible = Runs, TypeOK, OwnerInv, OutcomeInv, ReaderInv, GoneInv, [Next]_vars
  PROVE  GoneInv'
<1>1. InterruptedMeansGone'
  BY InterruptedStep
<1>2. CASE UNCHANGED polling
  BY <1>1, <1>2, AnswersKept DEF GoneInv
<1>3. ASSUME NEW r \in Readers, ReaderStep(r) \/ StatusError(r) PROVE GoneInv'
  BY <1>1, <1>3, AnswerStep DEF GoneInv, TypeOK
<1>4. ASSUME NEW r \in Readers, NEW t \in ModelTypes, Ask(r, t) PROVE GoneInv'
  BY <1>1, <1>4, AnswerStep DEF GoneInv
<1>5. ASSUME NEW p \in Runs,
             RunStep(p) \/ SaveCheckpoint(p) \/ Exit(p) \/ Crash(p) \/ ReusePid(p)
      PROVE  UNCHANGED polling
  BY <1>5 DEF RunStep, Acquire, Reserve, Publish, ReadManifest, WriteManifest, Announce,
     EndTraining, Conclude, MarkFailed, Release, MarkLate, SaveCheckpoint, Exit, Crash, ReusePid
<1>6. Register \/ Unregister \/ UNCHANGED vars => UNCHANGED polling
  BY DEF Register, Unregister, vars
<1>. QED
  BY <1>2, <1>3, <1>4, <1>5, <1>6 DEF Next

LEMMA InitIInv == Init => IInv /\ GoneInv
<1> SUFFICES ASSUME Init PROVE IInv /\ GoneInv
  OBVIOUS
<1>1. TypeOK
  BY NoManifestType DEF Init, TypeOK, RunState, ReaderState, Answer, Statuses
<1>2. LockInv /\ OwnerInv
  BY DEF Init, LockInv, OwnerInv, Owning, Reading, Writing, Locked, NoManifest
<1>3. OutcomeInv
  BY <1>1 DEF Init, TypeOK, OutcomeInv, OutcomeByPc, SucceededIsReal, FailedIsPast, NoManifest
<1>4. ReaderInv /\ GoneInv
  BY <1>1 DEF Init, TypeOK, ReaderInv, GoneInv, SeenGone, InterruptedMeansGone, AnswerIsTrue,
     NoManifest
<1>. QED
  BY <1>1, <1>2, <1>3, <1>4 DEF IInv

\* The invariant is inductive: each part needs the ones before it, and the
\* owner's part what the requests have seen.
LEMMA IInvStep == IInv /\ [Next]_vars => IInv'
BY TypeStep, LockStep, OwnerStep, OutcomeStep, ReaderStepInv DEF IInv

LEMMA Invariance == Spec => []IInv
BY InitIInv, IInvStep, PTL DEF Spec

\* Every variable keeps its type, whatever the processes and the disk do.
THEOREM RunTypes == Spec => []TypeOK
<1>1. IInv => TypeOK
  BY DEF IInv
<1>. QED
  BY <1>1, Invariance, PTL

\* One ModelInfoID, any number of model types, workers and CLI trainings: never
\* two trainings at a time, and a dead process holds no lock (training_run_lock).
THEOREM OneTrainingAtATime == Spec => []OneAtATime
<1>1. IInv => OneAtATime
  BY DEF IInv, LockInv, OneAtATime, TypeOK
<1>. QED
  BY <1>1, Invariance, PTL

\* No run directory ever changes hands, although manifests are read, changed and
\* written back without a lock (update_manifest).
THEOREM OwnerForGood == Spec => DirectoryKeepsOwner
<1>1. IInv /\ [Next]_vars =>
        [\A t \in ModelTypes :
           manifest[t].status # "none" => manifest'[t].owner = manifest[t].owner]_vars
  BY KeepOwner DEF IInv, OwnerKept
<1>. QED
  BY <1>1, Invariance, PTL DEF Spec, DirectoryKeepsOwner

\* A manifest says "succeeded" only of a training that returned and, in a worker,
\* left its checkpoint (execute_training_plan).
THEOREM SucceededIsTrue == Spec => []SucceededIsReal
<1>1. IInv => SucceededIsReal
  BY DEF IInv, OutcomeInv
<1>. QED
  BY <1>1, Invariance, PTL

\* What the PID check and the answers need besides the invariant.
LEMMA GoneInvariance == ASSUME Visible = Runs PROVE Spec => []GoneInv
<1>1. Init => GoneInv
  BY InitIInv
<1>2. IInv /\ GoneInv /\ [Next]_vars => GoneInv'
  BY GoneStep DEF IInv
<1>. QED
  BY <1>1, <1>2, Invariance, PTL DEF Spec

\* If the API sees every training process, only a run whose process has ended is
\* ever marked interrupted (mark_interrupted_if_stale).
THEOREM InterruptedOnlyGone ==
  ASSUME Visible = Runs PROVE Spec => []InterruptedMeansGone
<1>1. GoneInv => InterruptedMeansGone
  BY DEF GoneInv
<1>. QED
  BY <1>1, GoneInvariance, PTL

\* If the API sees every training process, GET /train/status answers the truth:
\* through crashes, PID reuse and concurrent writes.
THEOREM AnswersTrue ==
  ASSUME Visible = Runs PROVE Spec => []AnswerIsTrue
<1>1. GoneInv => AnswerIsTrue
  BY DEF GoneInv
<1>. QED
  BY <1>1, GoneInvariance, PTL

-----------------------------------------------------------------------------
(* The platform's tables.                                                  *)

\* A process that wrote "succeeded" has only its lock left to release, and one
\* that is about to report a failure has its trainer behind it.
Closing == {"leaving", "over"} \cup Ended
Failing == {"raised", "failing", "put_failed", "marked"}

SucceededIsPast ==
  \A t \in ModelTypes : manifest[t].status = "succeeded" => pc[manifest[t].owner] \in Closing

FailureFollowsTrainer == \A p \in Runs : pc[p] \in Failing => outcome[p] # "none"

PlatformInv == SucceededIsPast /\ FailureFollowsTrainer /\ PlatformTellsTruth

\* How far a step takes a process, and what it may tell the platform.
Moves ==
  /\ type' = type /\ checkpoints \subseteq checkpoints'
  /\ \A q \in Runs :
       /\ pc[q] \in Closing => pc'[q] \in Closing
       /\ pc'[q] \in Failing => \/ pc[q] \in Failing \/ pc[q] = "returned"
                                \/ outcome'[q] = "raised"
  /\ \A k \in Tables :
       \/ platform'[k] \in {platform[k], "running"}
       \/ platform'[k] = "success" /\ \E q \in Runs : pc[q] = "returned" /\ Validated(q) /\ UNCHANGED outcome
       \/ platform'[k] = "failed" /\ \E q \in Runs : pc[q] \in Failing /\ pc'[q] \in {"failing", "aborting"}

LEMMA Moving == TypeOK /\ [Next]_vars => Moves
<1> SUFFICES ASSUME TypeOK, [Next]_vars PROVE Moves
  OBVIOUS
<1> USE DEF Closing, Failing, Ended
<1>1. CASE Register
  BY <1>1 DEF Register, disk, procs, env, polling, TypeOK, Moves
<1>2. CASE Unregister
  BY <1>2 DEF Unregister, disk, procs, env, polling, TypeOK, Moves
<1>3. ASSUME NEW p \in Runs, Acquire(p) PROVE Moves
  BY <1>3 DEF Acquire, disk, procs, env, polling, Goto, LockFree, TypeOK, Moves
<1>4. ASSUME NEW p \in Runs, Reserve(p) PROVE Moves
  BY <1>4 DEF Reserve, disk, procs, env, polling, Goto, DirExists, TypeOK, Moves
<1>5. ASSUME NEW p \in Runs, Publish(p) PROVE Moves
  BY <1>5 DEF Publish, disk, procs, env, polling, Goto, DirExists, TypeOK, Moves
<1>6. ASSUME NEW p \in Runs, ReadManifest(p) PROVE Moves
  BY <1>6 DEF ReadManifest, disk, procs, env, polling, Goto, AfterError, TypeOK, Moves
<1>7. ASSUME NEW p \in Runs, WriteManifest(p) PROVE Moves
  BY <1>7 DEF WriteManifest, disk, procs, env, polling, Goto, AfterError, TypeOK, Moves
<1>8. ASSUME NEW p \in Runs, Announce(p) PROVE Moves
  BY <1>8 DEF Announce, disk, procs, env, polling, Goto, MarkRunning, Statuses, TypeOK, Moves
<1>9. ASSUME NEW p \in Runs, EndTraining(p) PROVE Moves
  BY <1>9 DEF EndTraining, disk, procs, env, polling, Goto, TypeOK, Moves
<1>10. ASSUME NEW p \in Runs, Conclude(p) PROVE Moves
  BY <1>10 DEF Conclude, disk, procs, env, polling, Goto, Mark, Validated, TypeOK, Moves
<1>11. ASSUME NEW p \in Runs, MarkFailed(p) PROVE Moves
  BY <1>11 DEF MarkFailed, disk, procs, env, polling, Goto, Mark, TypeOK, Moves
<1>12. ASSUME NEW p \in Runs, Release(p) PROVE Moves
  BY <1>12 DEF Release, disk, procs, env, polling, Goto, TypeOK, Moves
<1>13. ASSUME NEW p \in Runs, MarkLate(p) PROVE Moves
  BY <1>13 DEF MarkLate, disk, procs, env, polling, Goto, TypeOK, Moves
<1>14. ASSUME NEW p \in Runs, SaveCheckpoint(p) PROVE Moves
  BY <1>14 DEF SaveCheckpoint, disk, procs, env, polling, Goto, TypeOK, Moves
<1>15. ASSUME NEW p \in Runs, Exit(p) PROVE Moves
  BY <1>15 DEF Exit, disk, procs, env, polling, Goto, TypeOK, Moves
<1>16. ASSUME NEW p \in Runs, Crash(p) PROVE Moves
  BY <1>16 DEF Crash, disk, procs, env, polling, Goto, LockAfterCrash, TypeOK, Moves
<1>17. ASSUME NEW p \in Runs, ReusePid(p) PROVE Moves
  BY <1>17 DEF ReusePid, disk, procs, env, polling, Goto, TypeOK, Moves
<1>18. ASSUME NEW r \in Readers, ReadStatus(r) PROVE Moves
  BY <1>18 DEF ReadStatus, disk, procs, env, polling, Reply, TypeOK, Moves
<1>19. ASSUME NEW r \in Readers, CheckOwner(r) PROVE Moves
  BY <1>19 DEF CheckOwner, disk, procs, env, polling, Reply, Gone, TypeOK, Moves
<1>20. ASSUME NEW r \in Readers, Reread(r) PROVE Moves
  BY <1>20 DEF Reread, disk, procs, env, polling, TypeOK, Moves
<1>21. ASSUME NEW r \in Readers, WriteInterrupted(r) PROVE Moves
  BY <1>21 DEF WriteInterrupted, disk, procs, env, polling, Reply, TypeOK, Moves
<1>22. ASSUME NEW r \in Readers, StatusError(r) PROVE Moves
  BY <1>22 DEF StatusError, disk, procs, env, polling, Reply, TypeOK, Moves
<1>23. ASSUME NEW r \in Readers, NEW t \in ModelTypes, Ask(r, t) PROVE Moves
  BY <1>23 DEF Ask, disk, procs, env, polling, TypeOK, Moves
<1>24. CASE UNCHANGED vars
  BY <1>24 DEF vars, disk, procs, env, polling, TypeOK, Moves
<1>. QED
  BY <1>1, <1>2, <1>3, <1>4, <1>5, <1>6, <1>7, <1>8, <1>9, <1>10, <1>11, <1>12,
     <1>13, <1>14, <1>15, <1>16, <1>17, <1>18, <1>19, <1>20, <1>21, <1>22, <1>23, <1>24 DEF
          Next, RunStep, ReaderStep

\* "succeeded" is written by its own process, on its way out.
SuccessesWritten ==
  \A t \in ModelTypes : manifest'[t].status = "succeeded" =>
    \/ manifest'[t] = manifest[t]
    \/ \E q \in Runs : /\ type[q] = t /\ manifest'[t].owner = q
                       /\ pc[q] = "put_succeeded" /\ pc'[q] = "leaving"

LEMMA SuccessWritten == TypeOK /\ OwnerInv /\ [Next]_vars => SuccessesWritten
<1> SUFFICES ASSUME TypeOK, OwnerInv, [Next]_vars PROVE SuccessesWritten
  OBVIOUS
<1>1. CASE UNCHANGED manifest
  BY <1>1 DEF SuccessesWritten
<1>2. ASSUME NEW p \in Runs, Publish(p) PROVE SuccessesWritten
  BY <1>2 DEF Publish, TypeOK, SuccessesWritten
<1>3. ASSUME NEW p \in Runs, WriteManifest(p) PROVE SuccessesWritten
  <2>1. CASE Put(p, "succeeded") /\ Goto(p, "put_succeeded", "leaving")
    <3>1. buf[p].owner = p
      BY <2>1 DEF OwnerInv, Goto, Writing
    <3>. QED
      BY <2>1, <3>1, PutFields DEF Goto, TypeOK, Finished, SuccessesWritten
  <2>2. CASE Put(p, "running") \/ Put(p, "failed")
    BY <2>2, PutFields DEF Finished, Unfinished, SuccessesWritten
  <2>. QED
    BY <1>1, <1>3, <2>1, <2>2 DEF WriteManifest
<1>4. ASSUME NEW p \in Runs, MarkLate(p) PROVE SuccessesWritten
  BY <1>1, <1>4, LateFields DEF SuccessesWritten
<1>5. ASSUME NEW r \in Readers, WriteInterrupted(r) PROVE SuccessesWritten
  BY <1>5, InterruptedFields DEF SuccessesWritten
<1>6. \/ UNCHANGED manifest
      \/ \E p \in Runs : Publish(p) \/ WriteManifest(p) \/ MarkLate(p)
      \/ \E r \in Readers : WriteInterrupted(r)
  BY DEF Next, RunStep, ReaderStep, vars, disk, Register, Unregister, Acquire, Reserve,
     ReadManifest, Announce, EndTraining, Conclude, MarkFailed, Release, SaveCheckpoint,
     Exit, Crash, ReusePid, ReadStatus, CheckOwner, Reread, StatusError, Ask
<1>. QED
  BY <1>1, <1>2, <1>3, <1>4, <1>5, <1>6

LEMMA PlatformStep ==
  IInv /\ PlatformInv /\ [Next]_vars => PlatformInv'
<1> SUFFICES ASSUME IInv, PlatformInv, [Next]_vars PROVE PlatformInv'
  OBVIOUS
<1>1. Moves /\ Onwards /\ SuccessesWritten /\ IInv'
  BY Moving, Onward, SuccessWritten, IInvStep DEF IInv
<1>2. SucceededIsPast'
  <2> SUFFICES ASSUME NEW t \in ModelTypes, manifest'[t].status = "succeeded"
               PROVE  pc'[manifest'[t].owner] \in Closing
    BY DEF SucceededIsPast
  <2>1. CASE manifest'[t] = manifest[t]
    <3>1. manifest[t].owner \in Runs /\ pc[manifest[t].owner] \in Closing
      BY <2>1 DEF IInv, OwnerInv, PlatformInv, SucceededIsPast
    <3>. QED
      BY <1>1, <2>1, <3>1 DEF Moves
  <2>2. CASE \E q \in Runs : manifest'[t].owner = q /\ pc'[q] = "leaving"
    BY <2>2 DEF Closing
  <2>. QED
    BY <1>1, <2>1, <2>2 DEF SuccessesWritten
<1>3. FailureFollowsTrainer'
  <2> SUFFICES ASSUME NEW p \in Runs, pc'[p] \in Failing PROVE outcome'[p] # "none"
    BY DEF FailureFollowsTrainer
  <2>1. CASE pc[p] \in Failing \/ pc[p] = "returned"
    BY <1>1, <2>1 DEF Onwards, Failing, PlatformInv, FailureFollowsTrainer, IInv, OutcomeInv,
       OutcomeByPc
  <2>. QED
    BY <1>1, <2>1 DEF Moves
<1>4. ASSUME NEW k \in Tables, platform'[k] = "success"
      PROVE  \E p \in Runs : outcome'[p] = "returned" /\ (p \in WorkerRuns => type'[p] \in checkpoints')
  <2>1. \E p \in Runs : outcome[p] = "returned" /\ pc[p] # "training"
                        /\ outcome'[p] = outcome[p] /\ (p \in WorkerRuns => type[p] \in checkpoints)
    <3>1. CASE platform[k] = "success"
      BY <1>1, <3>1 DEF PlatformInv, PlatformTellsTruth, Onwards, IInv, OutcomeInv, OutcomeByPc
    <3>2. CASE \E q \in Runs : pc[q] = "returned" /\ Validated(q) /\ UNCHANGED outcome
      BY <3>2 DEF Validated, IInv, OutcomeInv, OutcomeByPc
    <3>. QED
      BY <1>1, <1>4, <3>1, <3>2 DEF Moves
  <2>. QED
    BY <1>1, <2>1 DEF Moves
<1>5. ASSUME NEW k \in Tables, platform'[k] = "failed"
      PROVE  \E p \in Runs : /\ pc'[p] \in Past /\ outcome'[p] # "none"
                             /\ manifest'[type'[p]] # [status |-> "succeeded", owner |-> p]
  <2>1. CASE platform[k] = "failed"
    <3>1. PICK p \in Runs : /\ pc[p] \in Past /\ outcome[p] # "none"
                            /\ manifest[type[p]] # [status |-> "succeeded", owner |-> p]
      BY <2>1 DEF PlatformInv, PlatformTellsTruth
    <3>2. pc'[p] \in Past /\ outcome'[p] # "none" /\ pc[p] # "put_succeeded"
      BY <1>1, <3>1 DEF Onwards, Past, Ended
    <3>3. type[p] \in ModelTypes
      BY DEF IInv, TypeOK
    <3>4. ASSUME manifest'[type[p]] = [status |-> "succeeded", owner |-> p]
          PROVE  FALSE
      BY <1>1, <3>1, <3>2, <3>3, <3>4 DEF SuccessesWritten
    <3>. QED
      BY <1>1, <3>2, <3>4 DEF Moves
  <2>2. ASSUME NEW q \in Runs, pc[q] \in Failing, pc'[q] \in {"failing", "aborting"}
        PROVE  /\ pc'[q] \in Past /\ outcome'[q] # "none"
               /\ manifest'[type'[q]] # [status |-> "succeeded", owner |-> q]
    <3>1. outcome'[q] # "none"
      BY <1>1, <2>2 DEF Onwards, Failing, PlatformInv, FailureFollowsTrainer
    <3>2. type'[q] \in ModelTypes
      BY <1>1 DEF IInv, TypeOK
    <3>. QED
      BY <1>2, <2>2, <3>1, <3>2 DEF SucceededIsPast, Closing, Ended, Past
  <2>. QED
    BY <1>1, <1>5, <2>1, <2>2 DEF Moves
<1>. QED
  BY <1>2, <1>3, <1>4, <1>5 DEF PlatformInv, PlatformTellsTruth

LEMMA PlatformInvariance == Spec => []PlatformInv
<1>1. Init => PlatformInv
  BY DEF Init, PlatformInv, SucceededIsPast, FailureFollowsTrainer, PlatformTellsTruth, Failing,
     NoManifest
<1>. QED
  BY <1>1, PlatformStep, Invariance, PTL DEF Spec

\* "success" in a table of the platform means a training that returned, its
\* checkpoint checked in a worker, and "failed" one whose manifest agrees
\* (execute_training_plan, train_from_config), for any number of trainings.
THEOREM PlatformIsTrue == Spec => []PlatformTellsTruth
<1>1. PlatformInv => PlatformTellsTruth
  BY DEF PlatformInv
<1>. QED
  BY <1>1, PlatformInvariance, PTL

-----------------------------------------------------------------------------
(* Who may change what is finished.                                        *)

\* A status request about the run of t writes "interrupted" over the manifest it had read.
OverwrittenByRequest(t) == \E r \in Readers : topic[r] = t /\ WriteInterrupted(r)

\* What a training has concluded is overwritten by status requests only.
ConcludedUntilAsked ==
  [][\A t \in ModelTypes :
       manifest[t].status \in {"succeeded", "failed"} /\ manifest'[t] # manifest[t] => OverwrittenByRequest(t)]_vars

\* The same of all that is finished.
FinishedUntilAsked ==
  [][\A t \in ModelTypes :
       manifest[t].status \in Finished /\ manifest'[t] # manifest[t] => OverwrittenByRequest(t)]_vars

\* The writers of manifests, and what their owner's position says of it.
LEMMA Overwritten ==
  ASSUME IInv, PlatformInv, [Next]_vars, NEW t \in ModelTypes, manifest'[t] # manifest[t],
         \/ manifest[t].status \in {"succeeded", "failed"}
         \/ manifest[t].status = "interrupted" /\ pc[manifest[t].owner] \in Ended
  PROVE  OverwrittenByRequest(t)
<1> DEFINE m == manifest[t]
<1>0. TypeOK /\ OwnerInv
  BY DEF IInv
<1>1. /\ m \in Manifest
      /\ m.status = "succeeded" => pc[m.owner] \in Closing
      /\ m.status = "failed" => pc[m.owner] \in Past
  BY <1>0 DEF TypeOK, IInv, OutcomeInv, FailedIsPast, PlatformInv, SucceededIsPast
<1>2. ASSUME NEW p \in Runs, WriteManifest(p) PROVE FALSE
  <2>1. pc[p] \in Writing /\ type[p] = t /\ m.owner = p /\ buf[p].owner = p /\ buf[p] \in Manifest
    <3>1. pc[p] \in Writing
      BY <1>2 DEF WriteManifest, Goto, Writing
    <3>2. type[p] = t
      BY <1>0, <1>2, WriteFields
    <3>. QED
      BY <1>0, <3>1, <3>2 DEF OwnerInv, Owning, TypeOK
  <2>2. pc[p] = "put_failed" /\ m.status = "failed"
    BY <1>1, <2>1 DEF Writing, Closing, Past, Ended
  <2>3. Put(p, "failed")
    BY <1>2, <2>1, <2>2 DEF WriteManifest, Goto
  <2>4. manifest'[t] = [buf[p] EXCEPT !.status = "failed"]
    BY <1>0, <2>1, <2>3 DEF Put, TypeOK
  <2>. QED
    BY <1>1, <2>1, <2>2, <2>4 DEF Manifest
<1>3. ASSUME NEW p \in Runs, MarkLate(p) PROVE FALSE
  <2>1. Goto(p, "put_late", "over") /\ Put(p, "failed") /\ type[p] = t
    BY <1>0, <1>3, LateFields DEF MarkLate
  <2>2. m.owner = p /\ buf[p].owner = p /\ buf[p] \in Manifest
    BY <1>0, <2>1 DEF Goto, OwnerInv, Owning, TypeOK
  <2>3. m.status = "failed"
    BY <1>1, <2>1, <2>2 DEF Goto, Closing, Ended
  <2>4. manifest'[t] = [buf[p] EXCEPT !.status = "failed"]
    BY <1>0, <2>1 DEF Put, TypeOK
  <2>. QED
    BY <1>1, <2>2, <2>3, <2>4 DEF Manifest
<1>4. ASSUME NEW p \in Runs, Publish(p) PROVE FALSE
  BY <1>0, <1>4 DEF Publish, DirExists, TypeOK
<1>5. ASSUME NEW r \in Readers, WriteInterrupted(r) PROVE OverwrittenByRequest(t)
  BY <1>0, <1>5, InterruptedFields DEF OverwrittenByRequest
<1>6. \/ UNCHANGED manifest
      \/ \E p \in Runs : Publish(p) \/ WriteManifest(p) \/ MarkLate(p)
      \/ \E r \in Readers : WriteInterrupted(r)
  BY DEF Next, RunStep, ReaderStep, vars, disk, Register, Unregister, Acquire, Reserve,
     ReadManifest, Announce, EndTraining, Conclude, MarkFailed, Release, SaveCheckpoint,
     Exit, Crash, ReusePid, ReadStatus, CheckOwner, Reread, StatusError, Ask
<1>. QED
  BY <1>2, <1>3, <1>4, <1>5, <1>6

\* A manifest that says succeeded or failed is changed by nobody but a status request
\* (mark_interrupted_if_stale): no late failure mark (run_control.py, execution.py), no
\* other training touches it.  What run status_race shows is the only way.
THEOREM OnlyRequestsOverwrite == Spec => ConcludedUntilAsked
<1>1. IInv /\ PlatformInv /\ [Next]_vars =>
        [\A t \in ModelTypes :
           manifest[t].status \in {"succeeded", "failed"} /\ manifest'[t] # manifest[t] => OverwrittenByRequest(t)]_vars
  BY Overwritten
<1>. QED
  BY <1>1, Invariance, PlatformInvariance, PTL DEF Spec, ConcludedUntilAsked

\* If the API sees every training process, that is so of interrupted runs too: nobody
\* whose run was declared interrupted is alive to write (mark_interrupted_if_stale).
THEOREM OnlyRequestsOverwriteFinished ==
  ASSUME Visible = Runs PROVE Spec => FinishedUntilAsked
<1>1. IInv /\ PlatformInv /\ GoneInv /\ [Next]_vars =>
        [\A t \in ModelTypes :
           manifest[t].status \in Finished /\ manifest'[t] # manifest[t] => OverwrittenByRequest(t)]_vars
  BY Overwritten DEF GoneInv, InterruptedMeansGone, Finished
<1>. QED
  BY <1>1, Invariance, PlatformInvariance, GoneInvariance, PTL DEF Spec, FinishedUntilAsked
=============================================================================
