---------------------------- MODULE JobLifecycle ----------------------------
(***************************************************************************)
(* What the asynchronous training API promises its callers, with no queue, *)
(* no worker and no failure in sight.  A job is registered for an identity *)
(* (equipment, measurement, ModelInfoID), at most one job holds an         *)
(* identity, a job that has started keeps its identity for ever, and a     *)
(* terminal job never changes again.  TrainingQueue is shown to implement  *)
(* this specification.                                                     *)
(***************************************************************************)
CONSTANTS Jobs,        \* job ids (one fresh uuid per request)
          Identities,  \* (EquipmentCode, MeasCode, ModelInfoID) triples
          NoJob        \* an identity nobody holds

VARIABLES status,      \* the public life of each job
          holder       \* the job that holds each identity

vars == <<status, holder>>

Terminal == {"SUCCEEDED", "FAILED"}
JobStatus == {"ABSENT", "QUEUED", "WITHDRAWN", "RUNNING"} \cup Terminal

Init ==
  /\ status = [j \in Jobs |-> "ABSENT"]
  /\ holder = [i \in Identities |-> NoJob]

\* A job enters the table: only for an identity that no job holds.
Register(j, i) ==
  /\ status[j] = "ABSENT"
  /\ holder[i] = NoJob
  /\ status' = [status EXCEPT ![j] = "QUEUED"]
  /\ holder' = [holder EXCEPT ![i] = j]

\* A queued job may be taken back; its identity is free again.
Withdraw(j, i) ==
  /\ status[j] = "QUEUED"
  /\ holder[i] = j
  /\ status' = [status EXCEPT ![j] = "WITHDRAWN"]
  /\ holder' = [holder EXCEPT ![i] = NoJob]

Start(j) ==
  /\ status[j] = "QUEUED"
  /\ status' = [status EXCEPT ![j] = "RUNNING"]
  /\ UNCHANGED holder

Finish(j) ==
  /\ status[j] = "RUNNING"
  /\ \E s \in Terminal : status' = [status EXCEPT ![j] = s]
  /\ UNCHANGED holder

Next ==
  \E j \in Jobs :
    \/ \E i \in Identities : Register(j, i) \/ Withdraw(j, i)
    \/ Start(j)
    \/ Finish(j)

Spec == Init /\ [][Next]_vars
=============================================================================
