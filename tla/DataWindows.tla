----------------------------- MODULE DataWindows -----------------------------
(***************************************************************************)
(* Is there enough data?  POST /train/checkData counts the windows of a    *)
(* cleaned series, their 80/10/10 split and the rows that are missing; the *)
(* trainer makes the windows and splits them.  Both work on lengths alone: *)
(* a series is its number of rows.                                         *)
(***************************************************************************)
EXTENDS Integers

CONSTANTS Lengths,    \* values of SeqLen, LabelLen, PredLen and Stride in a request
          MaxRows,    \* bound: rows of a series
          MaxWindows  \* bound: windows the search for the minimum looks at

ASSUME WindowsAssumption ==
  /\ Lengths \subseteq Int
  /\ MaxRows \in Nat
  /\ MaxWindows \in Nat /\ MaxWindows >= 10

VARIABLES
  request,       \* the lengths asked about
  phase,         \* progress of the check and then of the training
  checked,       \* rows after resampling when checkData looked
  rows,          \* rows now
  window_count,  \* of minimum_rows_for_usable_window_splits
  reply,         \* what checkData answered
  start,         \* i of make_windows
  made           \* windows made

vars == <<request, phase, checked, rows, window_count, reply, start, made>>

Request == [seq : Lengths, label : Lengths, pred : Lengths, stride : Lengths]
NoReply == [usable |-> FALSE, missing |-> 0]

\* The trainer has looked at the number of rows.
Judged == {"making", "training", "rejected"}
Phase  == {"asked", "refused", "searching", "answered"} \cup Judged

TypeOK ==
  /\ request \in Request
  /\ phase \in Phase
  /\ checked \in Nat
  /\ rows \in Nat
  /\ window_count \in Nat
  /\ reply \in [usable : BOOLEAN, missing : Nat]
  /\ start \in Nat
  /\ made \in Nat

-----------------------------------------------------------------------------
(* Counting.                                                               *)

Total == request.seq + request.pred

\* validate_window_params
Valid ==
  /\ request.seq > 0 /\ request.label > 0 /\ request.pred > 0 /\ request.stride > 0
  /\ request.label <= request.seq

\* Mutant: the last window is not counted.
WindowsBelow(r) == IF r < Total THEN 0 ELSE (r - Total) \div request.stride

\* count_windows
CountWindows(r) == IF r < Total THEN 0 ELSE (r - Total) \div request.stride + 1

\* split_train_val_test: int(n * 0.8) and int(n * 0.1); the floating-point
\* products never fall short of the exact ones.
TrainCount(n) == (8 * n) \div 10

\* Mutant: the validation ratio is rounded away.
NoValidation(n) == 0

ValCount(n)  == n \div 10
TestCount(n) == n - TrainCount(n) - ValCount(n)

\* require_usable_window_splits
UsableSplit(n) == TrainCount(n) >= 1 /\ ValCount(n) >= 1 /\ TestCount(n) >= 1

\* Mutant: one stride too many.
RowsForAndOneMore(n) == Total + n * request.stride

RowsFor(n) == Total + (n - 1) * request.stride

\* Mutant: a surplus counts as missing too.
Difference(required) == required - rows

Missing(required) == IF required > rows THEN required - rows ELSE 0

-----------------------------------------------------------------------------
(* POST /train/checkData.                                                  *)

Init ==
  /\ request \in Request
  /\ phase = "asked"
  /\ checked \in 0..MaxRows
  /\ rows = checked
  /\ window_count = 1
  /\ reply = NoReply
  /\ start = 0
  /\ made = 0

Validate ==
  /\ phase = "asked"
  /\ phase' = IF Valid THEN "searching" ELSE "refused"
  /\ UNCHANGED <<request, checked, rows, window_count, reply, start, made>>

\* minimum_rows_for_usable_window_splits tries one number of windows more.
TryMore ==
  /\ phase = "searching"
  /\ ~UsableSplit(window_count)
  /\ window_count < MaxWindows
  /\ window_count' = window_count + 1
  /\ UNCHANGED <<request, phase, checked, rows, reply, start, made>>

\* Usable is told from the series, what is missing from the minimum.
Reply ==
  /\ phase = "searching"
  /\ UsableSplit(window_count)
  /\ phase' = "answered"
  /\ reply' = [usable  |-> UsableSplit(CountWindows(rows)),
               missing |-> Missing(RowsFor(window_count))]
  /\ UNCHANGED <<request, checked, rows, window_count, start, made>>

-----------------------------------------------------------------------------
(* Between the check and the training the series may grow; then            *)
(* build_dataloaders (informer and autoformer) makes its windows.          *)

Grow ==
  /\ phase = "answered"
  /\ rows < MaxRows
  /\ rows' = rows + 1
  /\ UNCHANGED <<request, phase, checked, window_count, reply, start, made>>

Require ==
  /\ phase = "answered"
  /\ phase' = IF UsableSplit(CountWindows(rows)) THEN "making" ELSE "rejected"
  /\ UNCHANGED <<request, checked, rows, window_count, reply, start, made>>

\* Mutant: the range of make_windows ends one row late.
OneRowLate == start <= rows - Total + 1

\* range(0, len(values) - total + 1, step)
InRange == start < rows - Total + 1

MakeWindow ==
  /\ phase = "making"
  /\ InRange
  /\ start' = start + request.stride
  /\ made' = made + 1
  /\ UNCHANGED <<request, phase, checked, rows, window_count, reply>>

Split ==
  /\ phase = "making"
  /\ ~InRange
  /\ phase' = "training"
  /\ UNCHANGED <<request, checked, rows, window_count, reply, start, made>>

Next == Validate \/ TryMore \/ Reply \/ Grow \/ Require \/ MakeWindow \/ Split

Spec == Init /\ [][Next]_vars

\* The check and the training are sequential code that keeps running.
FairSpec == Spec /\ WF_vars(Validate \/ TryMore \/ Reply) /\ WF_vars(Require \/ MakeWindow \/ Split)

-----------------------------------------------------------------------------
(* Properties.                                                             *)

\* checkData and the trainer agree: nothing is missing exactly if the series is
\* usable, and the trainer rejects exactly the series that have fewer rows than
\* were there and missing.  (The one counts windows of the series, the other
\* searches for a minimum.)
MissingIsExact ==
  /\ phase \in Judged \cup {"answered"} => (reply.usable <=> reply.missing = 0)
  /\ phase \in Judged => (phase = "rejected" <=> rows < checked + reply.missing)

\* The windows the trainer makes are as many as were counted, all inside the
\* series, and leave no split empty.
WindowsAsCounted ==
  /\ phase = "making" /\ made > 0 => start - request.stride + Total <= rows
  /\ phase = "training" => made = CountWindows(rows) /\ ValCount(made) >= 1 /\ TestCount(made) >= 1

\* Every valid request is answered: the search, a loop without a limit, ends.
SearchEnds == phase = "searching" ~> phase = "answered"
=============================================================================
