------------------------- MODULE TrainingQueueProofs -------------------------
(***************************************************************************)
(* Safety of TrainingQueue for any number of jobs, identities, workers and *)
(* crashes: the inductive invariant IInv and the theorems it yields.       *)
(***************************************************************************)
EXTENDS TrainingQueue, TLAPS

-----------------------------------------------------------------------------
(* The inductive invariant.                                                *)

\* A worker has a task exactly while it is neither idle nor down.
TaskInv ==
  \A w \in Workers : task[w] \in Jobs <=> worker[w] \notin {"idle", "down"}

\* Before its message is published a job has neither message nor worker, and
\* its row follows the handler.
Unpublished == {"new", "checked", "inserted", "stored", "refused", "conflict"}

HandlerInv ==
  \A j \in Jobs :
    /\ handler[j] \in Unpublished =>
         j \notin ready \cup unacked /\ \A w \in Workers : task[w] # j
    /\ handler[j] \in {"new", "checked", "refused", "conflict"} => row[j] = "ABSENT"
    /\ handler[j] \in {"inserted", "stored"} => row[j] = "QUEUED"
    /\ handler[j] \in {"withdrawing", "accepted"} => row[j] # "ABSENT"

\* The table's unique key.
UniqueKey ==
  \A j, k \in Jobs :
    /\ row[j] # "ABSENT" /\ row[k] # "ABSENT"
    /\ plan[j].identity = plan[k].identity
    => j = k

\* Who executes a job owns a row that left QUEUED by its claim.
Owns(w, j) ==
  /\ row[j] \in {"RUNNING", "SUCCEEDED"}
  /\ worker[w] # "failing" => row[j] = "RUNNING"
  /\ worker[w] = "claimed" => starts[j] = 0
  /\ worker[w] = "trained" => outcome[j] = "trained"
  /\ worker[w] = "failing" /\ row[j] = "RUNNING" /\ j \notin faulted
       => outcome[j] = "error"

ExecutorInv ==
  \A w \in Workers, j \in Jobs : Executes(w, j) => Owns(w, j)

StartsInv ==
  \A j \in Jobs : row[j] \in {"ABSENT", "QUEUED"} => starts[j] = 0

\* No message of an untouched queued job is about to be acknowledged.
AckInv ==
  \A w \in Workers, j \in Jobs :
    worker[w] = "acking" /\ task[w] = j /\ row[j] = "QUEUED" => j \in faulted

IInv ==
  /\ TypeOK
  /\ TaskInv
  /\ HandlerInv
  /\ UniqueKey
  /\ ExecutorInv
  /\ StartsInv
  /\ AckInv
  /\ AtMostOnce
  /\ NoSilentOrphan
  /\ OutcomeMatchesRow

-----------------------------------------------------------------------------
(* Type correctness.                                                       *)

\* Type correctness is inductive by itself.
LEMMA TypeStep == TypeOK /\ [Next]_vars => TypeOK'
<1> SUFFICES ASSUME TypeOK, [Next]_vars
             PROVE  TypeOK'
  OBVIOUS
<1> USE DEF TypeOK, RowStatus, Terminal, HandlerState, InFlight, Answered,
            WorkerState, Executing, api, broker, workers, history
<1>1. ASSUME NEW j \in Jobs, RefuseRequest(j) \/ CheckTarget(j)
      PROVE  TypeOK'
  BY <1>1 DEF RefuseRequest, CheckTarget, Answer
<1>2. ASSUME NEW j \in Jobs, CreateQueued(j) \/ ReadBack(j)
      PROVE  TypeOK'
  BY <1>2 DEF CreateQueued, ReadBack, Answer
<1>3. ASSUME NEW j \in Jobs, Enqueue(j) \/ Withdraw(j) \/ ApiCrash(j)
      PROVE  TypeOK'
  BY <1>3 DEF Enqueue, Withdraw, ApiCrash, Answer
<1>4. ASSUME NEW j \in Jobs, Redeliver(j)
      PROVE  TypeOK'
  BY <1>4 DEF Redeliver
<1>5. ASSUME NEW w \in Workers, NEW j \in Jobs, Deliver(w, j)
      PROVE  TypeOK'
  BY <1>5 DEF Deliver, UnackedOnDelivery
<1>6. ASSUME NEW w \in Workers, NEW j \in Jobs, TaskStep(w, j)
      PROVE  TypeOK'
  <2>1. CASE Claim(w, j)
    BY <2>1 DEF Claim, Goto
  <2>2. CASE CreateRun(w, j)
    BY <2>2 DEF CreateRun, Goto
  <2>3. CASE Train(w, j)
    BY <2>3 DEF Train, Goto
  <2>4. CASE MarkSucceeded(w, j)
    BY <2>4 DEF MarkSucceeded, FromRunning, Goto
  <2>5. CASE MarkFailed(w, j)
    BY <2>5 DEF MarkFailed, FromRunning, Goto
  <2>6. CASE Ack(w, j)
    BY <2>6 DEF Ack
  <2>. QED
    BY <1>6, <2>1, <2>2, <2>3, <2>4, <2>5, <2>6 DEF TaskStep
<1>7. ASSUME NEW w \in Workers, NEW j \in Jobs, WorkerCrash(w, j) \/ ChildKilled(w, j)
      PROVE  TypeOK'
  BY <1>7 DEF WorkerCrash, ChildKilled, Goto
<1>8. ASSUME NEW w \in Workers, Restart(w)
      PROVE  TypeOK'
  BY <1>8 DEF Restart
<1>9. ASSUME NEW p \in Plan, CliRun(p)
      PROVE  TypeOK'
  BY <1>9 DEF CliRun
<1>10. CASE UNCHANGED vars
  BY <1>10 DEF vars
<1>. QED
  BY <1>1, <1>2, <1>3, <1>4, <1>5, <1>6, <1>7, <1>8, <1>9, <1>10
     DEF Next, HandlerStep

\* Every variable keeps its type, whatever the number of jobs and workers.
THEOREM TypeCorrect == Spec => []TypeOK
<1>1. Init => TypeOK
  BY DEF Init, TypeOK, RowStatus, HandlerState, WorkerState
<1>. QED
  BY <1>1, TypeStep, PTL DEF Spec

-----------------------------------------------------------------------------
(* The inductive invariant is preserved, action by action.                 *)

\* Steps of POST /train handlers, of the broker, of crashes and of the CLI
\* disturb few conjuncts: their guards and HandlerInv settle each.
LEMMA EasySteps ==
  ASSUME IInv, TypeOK',
         \/ \E j \in Jobs : RefuseRequest(j) \/ HandlerStep(j) \/ ApiCrash(j) \/ Redeliver(j)
         \/ \E w \in Workers, j \in Jobs :
              Deliver(w, j) \/ WorkerCrash(w, j) \/ ChildKilled(w, j)
         \/ \E w \in Workers : Restart(w)
         \/ \E p \in Plan : CliRun(p)
  PROVE  IInv'
<1> USE ConstantsAssumption
    DEF IInv, TypeOK, RowStatus, Terminal, HandlerState, InFlight, Answered,
        WorkerState, Executing, Executes, Unpublished, api, broker, workers, history,
        TaskInv, HandlerInv, UniqueKey, ExecutorInv, Owns, StartsInv, AckInv,
        AtMostOnce, NoSilentOrphan, OutcomeMatchesRow
<1>1. ASSUME NEW j \in Jobs, RefuseRequest(j) PROVE IInv'
  BY <1>1 DEF RefuseRequest, Answer
<1>2. ASSUME NEW j \in Jobs, CheckTarget(j) PROVE IInv'
  BY <1>2 DEF CheckTarget, Answer
<1>3. ASSUME NEW j \in Jobs, CreateQueued(j) PROVE IInv'
  BY <1>3 DEF CreateQueued, Answer, IdentityTaken
<1>4. ASSUME NEW j \in Jobs, ReadBack(j) PROVE IInv'
  BY <1>4 DEF ReadBack, Answer
<1>5. ASSUME NEW j \in Jobs, Enqueue(j) PROVE IInv'
  BY <1>5 DEF Enqueue, Answer
<1>6. ASSUME NEW j \in Jobs, Withdraw(j) PROVE IInv'
  BY <1>6 DEF Withdraw, Answer, Deletable
<1>7. ASSUME NEW j \in Jobs, ApiCrash(j) PROVE IInv'
  BY <1>7 DEF ApiCrash, Answer
<1>8. ASSUME NEW j \in Jobs, Redeliver(j) PROVE IInv'
  BY <1>8 DEF Redeliver
<1>9. ASSUME NEW w \in Workers, NEW j \in Jobs, Deliver(w, j) PROVE IInv'
  BY <1>9 DEF Deliver, UnackedOnDelivery
<1>10. ASSUME NEW w \in Workers, NEW j \in Jobs, WorkerCrash(w, j) PROVE IInv'
  BY <1>10 DEF WorkerCrash
<1>11. ASSUME NEW w \in Workers, NEW j \in Jobs, ChildKilled(w, j) PROVE IInv'
  BY <1>11 DEF ChildKilled, Goto
<1>12. ASSUME NEW w \in Workers, Restart(w) PROVE IInv'
  BY <1>12 DEF Restart
<1>13. ASSUME NEW p \in Plan, CliRun(p) PROVE IInv'
  BY <1>13 DEF CliRun
<1>. QED
  BY <1>1, <1>2, <1>3, <1>4, <1>5, <1>6, <1>7, <1>8, <1>9, <1>10, <1>11, <1>12, <1>13
     DEF HandlerStep

\* Claim takes a queued row, which nobody executes (ExecutorInv); losing its
\* reply or failing before it takes effect marks the job as faulted.
LEMMA ClaimStep ==
  ASSUME IInv, TypeOK', NEW w \in Workers, NEW j \in Jobs, Claim(w, j)
  PROVE  IInv'
<1> USE DEF IInv, TypeOK, RowStatus, Terminal, Executing, Executes, Claim, Claimable,
            Goto, api, broker, history
<1>1. TaskInv'
  BY DEF TaskInv
<1>2. HandlerInv'
  BY DEF HandlerInv, Unpublished
<1>3. UniqueKey'
  BY DEF UniqueKey
<1>4. ExecutorInv'
  BY DEF ExecutorInv, Owns, StartsInv
<1>5. StartsInv'
  BY DEF StartsInv
<1>6. AckInv'
  BY DEF AckInv
<1>7. AtMostOnce'
  BY DEF AtMostOnce, ExecutorInv, Owns
<1>8. NoSilentOrphan'
  BY DEF NoSilentOrphan, Answered
<1>9. OutcomeMatchesRow'
  BY DEF OutcomeMatchesRow
<1>. QED
  BY <1>1, <1>2, <1>3, <1>4, <1>5, <1>6, <1>7, <1>8, <1>9

\* What an executing worker does to its job j leaves the jobs of the other
\* workers alone.
LEMMA OtherExecutors ==
  ASSUME IInv, TypeOK', NEW w \in Workers, NEW j \in Jobs, Executes(w, j),
         worker' = [worker EXCEPT ![w] = worker'[w]], UNCHANGED task,
         \A k \in Jobs \ {j} : /\ row'[k] = row[k]
                              /\ starts'[k] = starts[k]
                              /\ outcome'[k] = outcome[k]
                              /\ (k \in faulted') = (k \in faulted),
         Executes(w, j)' => Owns(w, j)'
  PROVE  ExecutorInv'
<1> SUFFICES ASSUME NEW v \in Workers, NEW k \in Jobs, Executes(v, k)'
             PROVE  Owns(v, k)'
  BY DEF ExecutorInv
<1>1. CASE v = w
  <2>1. task[w] = j
    BY DEF Executes
  <2>2. k = j
    BY <1>1, <2>1 DEF Executes
  <2>. QED
    BY <1>1, <2>2
<1>2. CASE v # w
  <2>1. Executes(v, k) /\ worker'[v] = worker[v]
    BY <1>2 DEF Executes, IInv, TypeOK
  <2>2. k # j
    BY <1>2, <2>1 DEF IInv, AtMostOnce
  <2>3. Owns(v, k)
    BY <2>1 DEF IInv, ExecutorInv
  <2>4. /\ row'[k] = row[k] /\ starts'[k] = starts[k] /\ outcome'[k] = outcome[k]
        /\ (k \in faulted') = (k \in faulted)
    BY <2>2
  <2>. QED
    BY <2>1, <2>3, <2>4 DEF Owns
<1>. QED
  BY <1>1, <1>2

\* The first run of a job starts from "claimed", where ExecutorInv says that
\* none started before.
LEMMA CreateRunStep ==
  ASSUME IInv, TypeOK', NEW w \in Workers, NEW j \in Jobs, CreateRun(w, j)
  PROVE  IInv'
<1> USE DEF IInv, TypeOK, RowStatus, Terminal, Executing, Executes, CreateRun,
            Goto, api, broker, history
<1>0. Owns(w, j)
  BY DEF ExecutorInv
<1>1. TaskInv'
  BY DEF TaskInv
<1>2. HandlerInv'
  BY DEF HandlerInv, Unpublished
<1>3. UniqueKey'
  BY DEF UniqueKey
<1>4. ExecutorInv'
  BY <1>0, OtherExecutors DEF Owns
<1>5. StartsInv'
  BY <1>0 DEF StartsInv, Owns
<1>6. AckInv'
  BY DEF AckInv
<1>7. AtMostOnce'
  BY <1>0 DEF AtMostOnce, Owns
<1>8. NoSilentOrphan'
  BY DEF NoSilentOrphan, Answered
<1>9. OutcomeMatchesRow'
  BY <1>0 DEF OutcomeMatchesRow, Owns
<1>. QED
  BY <1>1, <1>2, <1>3, <1>4, <1>5, <1>6, <1>7, <1>8, <1>9

\* The trainer returns or raises.
LEMMA TrainStep ==
  ASSUME IInv, TypeOK', NEW w \in Workers, NEW j \in Jobs, Train(w, j)
  PROVE  IInv'
<1> USE DEF IInv, TypeOK, RowStatus, Terminal, Executing, Executes, Train,
            Goto, api, broker, history
<1>0. Owns(w, j)
  BY DEF ExecutorInv
<1>1. TaskInv'
  BY DEF TaskInv
<1>2. HandlerInv'
  BY DEF HandlerInv, Unpublished
<1>3. UniqueKey'
  BY DEF UniqueKey
<1>4. ExecutorInv'
  BY <1>0, OtherExecutors DEF Owns
<1>5. StartsInv'
  BY DEF StartsInv
<1>6. AckInv'
  BY DEF AckInv
<1>7. AtMostOnce'
  BY DEF AtMostOnce
<1>8. NoSilentOrphan'
  BY DEF NoSilentOrphan, Answered
<1>9. OutcomeMatchesRow'
  BY <1>0 DEF OutcomeMatchesRow, Owns
<1>. QED
  BY <1>1, <1>2, <1>3, <1>4, <1>5, <1>6, <1>7, <1>8, <1>9

\* The two ways out of RUNNING.  mark_failed after a mark_succeeded whose reply
\* was lost finds the row terminal and changes nothing.
LEMMA MarkStep ==
  ASSUME IInv, TypeOK', NEW w \in Workers, NEW j \in Jobs,
         MarkSucceeded(w, j) \/ MarkFailed(w, j)
  PROVE  IInv'
<1> USE DEF IInv, TypeOK, RowStatus, Terminal, Executing, Executes, MarkSucceeded,
            MarkFailed, FromRunning, Goto, api, broker, history
<1>0. Owns(w, j)
  BY DEF ExecutorInv
<1>1. TaskInv'
  BY DEF TaskInv
<1>2. HandlerInv'
  BY DEF HandlerInv, Unpublished
<1>3. UniqueKey'
  BY <1>0 DEF UniqueKey, Owns
<1>4. ExecutorInv'
  BY <1>0, OtherExecutors DEF Owns
<1>5. StartsInv'
  BY DEF StartsInv
<1>6. AckInv'
  BY <1>0 DEF AckInv, Owns
<1>7. AtMostOnce'
  BY DEF AtMostOnce
<1>8. NoSilentOrphan'
  BY <1>0 DEF NoSilentOrphan, Answered, Owns
<1>9. OutcomeMatchesRow'
  BY <1>0 DEF OutcomeMatchesRow, Owns
<1>. QED
  BY <1>1, <1>2, <1>3, <1>4, <1>5, <1>6, <1>7, <1>8, <1>9

\* Acknowledging removes a message that no queued, unfaulted job needs (AckInv).
LEMMA AckStep ==
  ASSUME IInv, TypeOK', NEW w \in Workers, NEW j \in Jobs, Ack(w, j)
  PROVE  IInv'
<1> USE ConstantsAssumption
    DEF IInv, TypeOK, RowStatus, Terminal, Executing, Executes, Ack, api, history
<1>1. TaskInv'
  BY DEF TaskInv
<1>2. HandlerInv'
  BY DEF HandlerInv, Unpublished
<1>3. UniqueKey'
  BY DEF UniqueKey
<1>4. ExecutorInv'
  BY DEF ExecutorInv, Owns
<1>5. StartsInv'
  BY DEF StartsInv
<1>6. AckInv'
  BY DEF AckInv
<1>7. AtMostOnce'
  BY DEF AtMostOnce
<1>8. NoSilentOrphan'
  <2> SUFFICES ASSUME NEW k \in Jobs, k \notin faulted
               PROVE  /\ row[k] = "QUEUED" /\ handler[k] \in Answered
                           => k \in ready \cup unacked'
                      /\ row[k] = "RUNNING" => \E v \in Workers : Executes(v, k)'
    BY DEF NoSilentOrphan
  <2>1. row[k] = "QUEUED" /\ handler[k] \in Answered => k \in ready \cup unacked'
    BY DEF NoSilentOrphan, AckInv
  <2>2. ASSUME NEW v \in Workers, Executes(v, k)
        PROVE  Executes(v, k)'
    BY <2>2
  <2>. QED
    BY <2>1, <2>2 DEF NoSilentOrphan
<1>9. OutcomeMatchesRow'
  BY DEF OutcomeMatchesRow
<1>. QED
  BY <1>1, <1>2, <1>3, <1>4, <1>5, <1>6, <1>7, <1>8, <1>9

LEMMA Inductive == IInv /\ [Next]_vars => IInv'
<1> SUFFICES ASSUME IInv, [Next]_vars
             PROVE  IInv'
  OBVIOUS
<1>1. TypeOK'
  BY TypeStep DEF IInv
<1>2. ASSUME NEW w \in Workers, NEW j \in Jobs, TaskStep(w, j)
      PROVE  IInv'
  BY <1>1, <1>2, ClaimStep, CreateRunStep, TrainStep, MarkStep, AckStep DEF TaskStep
<1>3. CASE UNCHANGED vars
  BY <1>1, <1>3 DEF vars, api, broker, workers, history, IInv, TaskInv, HandlerInv,
     UniqueKey, ExecutorInv, Owns, Executes, StartsInv, AckInv, AtMostOnce,
     NoSilentOrphan, OutcomeMatchesRow
<1>. QED
  BY <1>1, <1>2, <1>3, EasySteps DEF Next

LEMMA InitIInv == Init => IInv
<1>1. Init => TypeOK
  BY DEF Init, TypeOK, RowStatus, HandlerState, WorkerState
<1>. QED
  BY <1>1, ConstantsAssumption
     DEF Init, IInv, TaskInv, HandlerInv, Unpublished, UniqueKey, ExecutorInv, Executes,
         Executing, StartsInv, AckInv, AtMostOnce, NoSilentOrphan, OutcomeMatchesRow,
         Terminal, TypeOK

LEMMA Invariant == Spec => []IInv
  BY InitIInv, Inductive, PTL DEF Spec

-----------------------------------------------------------------------------
(* The safety theorems.                                                    *)

\* Duplicate messages and redeliveries never train a job twice.
THEOREM TrainedAtMostOnce == Spec => []AtMostOnce
<1>1. IInv => AtMostOnce
  BY DEF IInv
<1>. QED
  BY <1>1, Invariant, PTL

\* A job is left behind only by one of the recorded faults.
THEOREM NoOrphanWithoutFault == Spec => []NoSilentOrphan
<1>1. IInv => NoSilentOrphan
  BY DEF IInv
<1>. QED
  BY <1>1, Invariant, PTL

\* A terminal row agrees with what the trainer came to.
THEOREM TerminalRowsTrue == Spec => []OutcomeMatchesRow
<1>1. IInv => OutcomeMatchesRow
  BY DEF IInv
<1>. QED
  BY <1>1, Invariant, PTL

\* The first training of a ModelInfoID is its only one: its row stays in the
\* table, so the unique key keeps every other row of the identity out.
THEOREM ModelInfoIDConsumed == Spec => []OneRunPerIdentity
<1>1. IInv => OneRunPerIdentity
  <2> SUFFICES ASSUME IInv, NEW j \in Jobs, NEW k \in Jobs, j # k,
                      plan[j].identity = plan[k].identity, starts[j] > 0
               PROVE  starts[k] = 0 /\ \A w \in Workers : ~Executes(w, k)
    BY DEF OneRunPerIdentity
  <2>1. row[j] # "ABSENT"
    BY DEF IInv, StartsInv, TypeOK
  <2>2. row[k] = "ABSENT"
    BY <2>1 DEF IInv, UniqueKey
  <2>. QED
    BY <2>2 DEF IInv, StartsInv, ExecutorInv, Owns
<1>. QED
  BY <1>1, Invariant, PTL

\* The answers of POST /train stay true.
THEOREM AnswersStayTrue == Spec => []AnswersHold
<1>1. IInv => AnswersHold
  BY DEF IInv, AnswersHold, HandlerInv, StartsInv, ExecutorInv, Owns
<1>. QED
  BY <1>1, Invariant, PTL

-----------------------------------------------------------------------------
(* TrainingQueue implements JobLifecycle.                                  *)

\* UniqueKey makes the holder of an identity the one job with a row for it.
LEMMA HolderUnique ==
  ASSUME IInv, NEW j \in Jobs, row[j] # "ABSENT", NEW i \in Identities,
         plan[j].identity = i
  PROVE  Holder(i) = j
<1>1. HoldsIdentity(j, i)
  BY DEF HoldsIdentity
<1>2. HoldsIdentity(Holder(i), i) /\ Holder(i) \in Jobs
  BY <1>1 DEF Holder
<1>. QED
  BY <1>2 DEF HoldsIdentity, IInv, UniqueKey

\* Rows that stay present or absent keep every holder.
LEMMA HolderStable ==
  ASSUME plan' = plan, \A j \in Jobs : (row'[j] = "ABSENT") = (row[j] = "ABSENT"),
         NEW i \in Identities
  PROVE  Holder(i)' = Holder(i)
<1>1. \A j \in Jobs : HoldsIdentity(j, i)' = HoldsIdentity(j, i)
  BY DEF HoldsIdentity
<1>. QED
  BY <1>1 DEF Holder

\* A step that changes no row, and gives no "queue_down" answer for an absent
\* one, is a stuttering step of JobLifecycle.
LEMMA SameRows ==
  ASSUME plan' = plan, row' = row,
         \A j \in Jobs : row[j] = "ABSENT"
            => (handler'[j] = "queue_down") = (handler[j] = "queue_down")
  PROVE  UNCHANGED Lifecycle!vars
<1>1. \A i \in Identities : Holder(i)' = Holder(i)
  BY HolderStable
<1>2. \A j \in Jobs : JobStatus(j)' = JobStatus(j)
  BY DEF JobStatus
<1>. QED
  BY <1>1, <1>2 DEF Lifecycle!vars

\* A row that stays in the table changes its status only.
LEMMA RowMoves ==
  ASSUME TypeOK, TypeOK', plan' = plan, handler' = handler,
         NEW j \in Jobs, row[j] # "ABSENT",
         NEW s \in RowStatus \ {"ABSENT"}, row' = [row EXCEPT ![j] = s]
  PROVE  /\ [k \in Jobs |-> JobStatus(k)'] = [[k \in Jobs |-> JobStatus(k)] EXCEPT ![j] = s]
         /\ \A i \in Identities : Holder(i)' = Holder(i)
<1>1. \A k \in Jobs : (row'[k] = "ABSENT") = (row[k] = "ABSENT")
  BY DEF TypeOK
<1>2. \A i \in Identities : Holder(i)' = Holder(i)
  BY <1>1, HolderStable
<1>3. \A k \in Jobs : JobStatus(k)' = IF k = j THEN s ELSE JobStatus(k)
  BY DEF JobStatus, TypeOK
<1>. QED
  BY <1>2, <1>3

\* INSERT registers the job, for an identity that nobody holds.
LEMMA CreateRefines ==
  ASSUME IInv, IInv', NEW j \in Jobs, CreateQueued(j)
  PROVE  [Lifecycle!Next]_(Lifecycle!vars)
<1>0. PICK i \in Identities : plan[j].identity = i
  BY DEF IInv, TypeOK, Plan
<1>1. plan' = plan /\ handler[j] = "checked" /\ handler' \in [Jobs -> HandlerState]
  BY DEF CreateQueued, Answer, IInv, TypeOK
<1>2. \A k \in Jobs : (handler'[k] = "queue_down") = (handler[k] = "queue_down")
  BY DEF CreateQueued, Answer, IInv, TypeOK
<1>3. CASE row' = row
  BY <1>1, <1>2, <1>3, SameRows
<1>4. CASE ~IdentityTaken(j) /\ row' = [row EXCEPT ![j] = "QUEUED"]
  <2>1. row[j] = "ABSENT" /\ row'[j] = "QUEUED"
    BY <1>1, <1>4 DEF IInv, TypeOK, HandlerInv
  <2>2. Holder(i) = NoJob
    BY <1>0, <1>4, <2>1 DEF Holder, HoldsIdentity, IdentityTaken
  <2>3. Holder(i)' = j
    <3>1. HoldsIdentity(j, i)'
      BY <1>0, <1>1, <2>1 DEF HoldsIdentity
    <3>2. \A k \in Jobs : HoldsIdentity(k, i)' => k = j
      BY <1>0, <1>1, <3>1 DEF HoldsIdentity, IInv, UniqueKey
    <3>. QED
      BY <3>1, <3>2 DEF Holder
  <2>4. ASSUME NEW h \in Identities, h # i
        PROVE  Holder(h)' = Holder(h)
    <3>1. \A k \in Jobs : HoldsIdentity(k, h)' = HoldsIdentity(k, h)
      BY <1>0, <1>1, <1>4, <2>1, <2>4 DEF HoldsIdentity, IInv, TypeOK
    <3>. QED
      BY <3>1 DEF Holder
  <2>5. [h \in Identities |-> Holder(h)]'
          = [[h \in Identities |-> Holder(h)] EXCEPT ![i] = j]
    BY <2>3, <2>4
  <2>6. \A k \in Jobs : JobStatus(k)' = IF k = j THEN "QUEUED" ELSE JobStatus(k)
    BY <1>2, <1>4 DEF JobStatus, IInv, TypeOK
  <2>7. [k \in Jobs |-> JobStatus(k)]'
          = [[k \in Jobs |-> JobStatus(k)] EXCEPT ![j] = "QUEUED"]
    BY <2>6
  <2>8. JobStatus(j) = "ABSENT"
    BY <1>1, <2>1 DEF JobStatus
  <2>9. Lifecycle!Register(j, i)
    BY <2>2, <2>5, <2>7, <2>8 DEF Lifecycle!Register
  <2>. QED
    BY <2>9 DEF Lifecycle!Next
<1>. QED
  BY <1>3, <1>4 DEF CreateQueued

\* DELETE withdraws a queued job and frees its identity.
LEMMA WithdrawRefines ==
  ASSUME IInv, IInv', NEW j \in Jobs, Withdraw(j)
  PROVE  [Lifecycle!Next]_(Lifecycle!vars)
<1>0. PICK i \in Identities : plan[j].identity = i
  BY DEF IInv, TypeOK, Plan
<1>1. /\ plan' = plan /\ handler[j] = "withdrawing"
      /\ handler' = [handler EXCEPT ![j] = "queue_down"]
      /\ row[j] # "ABSENT"
  BY DEF Withdraw, Answer, IInv, HandlerInv
<1>2. CASE row' = row
  <2>1. \A k \in Jobs : row[k] = "ABSENT"
           => (handler'[k] = "queue_down") = (handler[k] = "queue_down")
    BY <1>1 DEF IInv, TypeOK
  <2>. QED
    BY <1>1, <1>2, <2>1, SameRows
<1>3. CASE row[j] = "QUEUED" /\ row' = [row EXCEPT ![j] = "ABSENT"]
  <2>1. Holder(i) = j
    BY <1>0, <1>1, HolderUnique
  <2>2. Holder(i)' = NoJob
    BY <1>0, <1>1, <1>3 DEF Holder, HoldsIdentity, IInv, TypeOK, UniqueKey
  <2>3. ASSUME NEW h \in Identities, h # i
        PROVE  Holder(h)' = Holder(h)
    <3>1. \A k \in Jobs : HoldsIdentity(k, h)' = HoldsIdentity(k, h)
      BY <1>0, <1>1, <1>3, <2>3 DEF HoldsIdentity, IInv, TypeOK
    <3>. QED
      BY <3>1 DEF Holder
  <2>4. [h \in Identities |-> Holder(h)]'
          = [[h \in Identities |-> Holder(h)] EXCEPT ![i] = NoJob]
    BY <2>2, <2>3
  <2>5. \A k \in Jobs : JobStatus(k)' = IF k = j THEN "WITHDRAWN" ELSE JobStatus(k)
    BY <1>1, <1>3 DEF JobStatus, IInv, TypeOK
  <2>6. [k \in Jobs |-> JobStatus(k)]'
          = [[k \in Jobs |-> JobStatus(k)] EXCEPT ![j] = "WITHDRAWN"]
    BY <2>5
  <2>7. JobStatus(j) = "QUEUED"
    BY <1>3 DEF JobStatus
  <2>8. Lifecycle!Withdraw(j, i)
    BY <2>1, <2>4, <2>6, <2>7 DEF Lifecycle!Withdraw
  <2>. QED
    BY <2>8 DEF Lifecycle!Next
<1>4. row[j] # "QUEUED" => row' = row
  BY DEF Withdraw, Deletable, IInv, TypeOK
<1>. QED
  BY <1>2, <1>3, <1>4 DEF Withdraw, Deletable

\* The claim starts a queued job; nothing else a task does before its end
\* shows in the table.
LEMMA TaskRefines ==
  ASSUME IInv, TypeOK', NEW w \in Workers, NEW j \in Jobs, TaskStep(w, j)
  PROVE  [Lifecycle!Next]_(Lifecycle!vars)
<1>1. plan' = plan /\ handler' = handler
  BY DEF TaskStep, Claim, CreateRun, Train, MarkSucceeded, MarkFailed, Ack, api
<1>2. CASE row' = row
  BY <1>1, <1>2, SameRows
<1>3. CASE Claimable(j) /\ row' = [row EXCEPT ![j] = "RUNNING"]
  <2>1. row[j] = "QUEUED" /\ JobStatus(j) = "QUEUED"
    BY <1>3 DEF Claimable, JobStatus
  <2>2. Lifecycle!Start(j)
    BY <1>1, <1>3, <2>1, RowMoves DEF Lifecycle!Start, IInv, RowStatus
  <2>. QED
    BY <2>2 DEF Lifecycle!Next
<1>4. ASSUME NEW s \in Terminal, FromRunning(j, s)
      PROVE  [Lifecycle!Next]_(Lifecycle!vars)
  <2>1. row[j] = "RUNNING" /\ JobStatus(j) = "RUNNING"
    BY <1>4 DEF FromRunning, JobStatus
  <2>2. Lifecycle!Finish(j)
    BY <1>1, <1>4, <2>1, RowMoves
       DEF Lifecycle!Finish, Lifecycle!Terminal, Terminal, FromRunning, IInv, RowStatus
  <2>. QED
    BY <2>2 DEF Lifecycle!Next
<1>5. \/ row' = row
      \/ Claimable(j) /\ row' = [row EXCEPT ![j] = "RUNNING"]
      \/ \E s \in Terminal : FromRunning(j, s)
  BY DEF TaskStep, Claim, CreateRun, Train, MarkSucceeded, MarkFailed, Ack, Terminal
<1>. QED
  BY <1>2, <1>3, <1>4, <1>5

\* The job table, as its readers see it, implements JobLifecycle.
THEOREM TableImplementsLifecycle == Spec => ImplementsJobLifecycle
<1>1. Init => Lifecycle!Init
  BY DEF Init, Lifecycle!Init, JobStatus, Holder, HoldsIdentity
<1>2. IInv /\ IInv' /\ [Next]_vars => [Lifecycle!Next]_(Lifecycle!vars)
  <2> SUFFICES ASSUME IInv, IInv', [Next]_vars
               PROVE  [Lifecycle!Next]_(Lifecycle!vars)
    OBVIOUS
  <2>1. ASSUME NEW j \in Jobs,
               RefuseRequest(j) \/ CheckTarget(j) \/ ReadBack(j) \/ Enqueue(j) \/ ApiCrash(j)
        PROVE  UNCHANGED Lifecycle!vars
    <3>1. /\ plan' = plan /\ row' = row
          /\ \A k \in Jobs : (handler'[k] = "queue_down") = (handler[k] = "queue_down")
      BY <2>1 DEF RefuseRequest, CheckTarget, ReadBack, Enqueue, ApiCrash, Answer,
                  InFlight, IInv, TypeOK
    <3>. QED
      BY <3>1, SameRows
  <2>2. ASSUME plan' = plan, row' = row, handler' = handler
        PROVE  UNCHANGED Lifecycle!vars
    BY <2>2, SameRows
  <2>3. ASSUME NEW j \in Jobs, Redeliver(j)
        PROVE  UNCHANGED Lifecycle!vars
    BY <2>2, <2>3 DEF Redeliver, api
  <2>4. ASSUME NEW w \in Workers, NEW j \in Jobs,
               Deliver(w, j) \/ WorkerCrash(w, j) \/ ChildKilled(w, j)
        PROVE  UNCHANGED Lifecycle!vars
    BY <2>2, <2>4 DEF Deliver, WorkerCrash, ChildKilled, api
  <2>5. ASSUME NEW w \in Workers, Restart(w)
        PROVE  UNCHANGED Lifecycle!vars
    BY <2>2, <2>5 DEF Restart, api
  <2>6. ASSUME NEW p \in Plan, CliRun(p)
        PROVE  UNCHANGED Lifecycle!vars
    BY <2>2, <2>6 DEF CliRun, api
  <2>7. CASE UNCHANGED vars
    BY <2>2, <2>7 DEF vars, api
  <2>8. TypeOK'
    BY DEF IInv
  <2>. QED
    BY <2>1, <2>3, <2>4, <2>5, <2>6, <2>7, <2>8, CreateRefines, WithdrawRefines, TaskRefines
       DEF Next, HandlerStep
<1>. QED
  BY <1>1, <1>2, Invariant, PTL DEF Spec, ImplementsJobLifecycle, Lifecycle!Spec
=============================================================================
