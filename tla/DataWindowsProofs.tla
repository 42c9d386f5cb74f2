-------------------------- MODULE DataWindowsProofs --------------------------
(* The counts of DataWindows for all lengths, strides and series: checkData  *)
(* and the trainer agree to the row.                                         *)
EXTENDS DataWindows, TLAPS

\* Multiplying by a positive stride keeps the order.
LEMMA Monotone ==
  ASSUME NEW x \in Int, NEW y \in Int, NEW s \in Int, s > 0
  PROVE  x * s < y * s <=> x < y
<1>1. CASE x < y
  <2>1. y - x >= 1 /\ y - x \in Int
    BY <1>1
  <2>2. (y - x) * s >= s
    BY <2>1
  <2>. QED
    BY <1>1, <2>2
<1>2. CASE x >= y
  <2>1. (x - y) * s >= 0
    BY <1>2
  <2>. QED
    BY <1>2, <2>1
<1>. QED
  BY <1>1, <1>2

\* What \div returns.
LEMMA Quotient ==
  ASSUME NEW a \in Nat, NEW s \in Int, s > 0
  PROVE  /\ a \div s \in Nat
         /\ (a \div s) * s <= a
         /\ a < (a \div s + 1) * s
OBVIOUS

\* Ten windows are the fewest that leave no split empty.
LEMMA UsableFromTen ==
  ASSUME NEW n \in Nat
  PROVE  UsableSplit(n) <=> n >= 10
BY DEF UsableSplit, TrainCount, ValCount, TestCount

Asked == request \in [seq : Int, label : Int, pred : Int, stride : Int] /\ Valid

\* count_windows reaches n exactly at RowsFor(n) rows.
LEMMA CountReaches ==
  ASSUME Asked, NEW r \in Nat, NEW n \in Nat, n >= 1
  PROVE  /\ CountWindows(r) \in Nat
         /\ CountWindows(r) >= n <=> r >= RowsFor(n)
<1> DEFINE s == request.stride
           a == r - Total
<1>1. s \in Int /\ s > 0 /\ Total \in Nat /\ Total > 0
  BY DEF Asked, Valid, Total
<1>2. CASE a < 0
  <2>1. (n - 1) * s >= 0
    BY <1>1
  <2>. QED
    BY <1>1, <1>2, <2>1 DEF CountWindows, RowsFor
<1>3. CASE a >= 0
  <2> DEFINE q == a \div s
  <2>1. a \in Nat
    BY <1>1, <1>3
  <2>2. q \in Nat /\ q * s <= a /\ a < (q + 1) * s
    BY <1>1, <2>1, Quotient
  <2>3. CountWindows(r) = q + 1
    BY <1>1, <1>3, <2>1 DEF CountWindows
  <2>4. r >= RowsFor(n) <=> (n - 1) * s <= a
    BY <1>1, <2>1 DEF RowsFor
  <2> HIDE DEF s, a, q
  <2>5. CASE n <= q + 1
    <3>1. ~(q * s < (n - 1) * s)
      BY <1>1, <2>2, <2>5, Monotone
    <3>. QED
      BY <1>1, <2>1, <2>2, <2>3, <2>4, <2>5, <3>1
  <2>6. CASE n > q + 1
    <3>1. ~((n - 1) * s < (q + 1) * s)
      BY <1>1, <2>2, <2>6, Monotone
    <3>. QED
      BY <1>1, <2>1, <2>2, <2>3, <2>4, <2>6, <3>1
  <2>. QED
    BY <2>2, <2>5, <2>6
<1>. QED
  BY <1>1, <1>2, <1>3

\* A whole number of windows that fits, with no room for another, is the count.
LEMMA CountUnique ==
  ASSUME Asked, NEW r \in Nat, NEW n \in Nat, n >= 1,
         r >= RowsFor(n), r < RowsFor(n + 1)
  PROVE  n = CountWindows(r)
<1>1. CountWindows(r) \in Nat /\ CountWindows(r) >= n
  BY CountReaches
<1>2. ~(CountWindows(r) >= n + 1)
  <2>1. RowsFor(n + 1) \in Int
    BY DEF RowsFor, Total, Asked
  <2>. QED
    BY <2>1, CountReaches
<1>. QED
  BY <1>1, <1>2

\* A valid question, a search that has not passed ten, and a reply about the
\* rows that were there.
ReplyInv ==
  /\ phase \notin {"asked", "refused"} => Valid
  /\ window_count \in 1..10
  /\ rows >= checked
  /\ phase \in {"asked", "searching"} => rows = checked
  /\ phase \in Judged \cup {"answered"} =>
       /\ reply.usable <=> checked >= RowsFor(10)
       /\ reply.missing = IF RowsFor(10) > checked THEN RowsFor(10) - checked ELSE 0

\* The trainer's verdict, and how far make_windows has come.
MakeInv ==
  /\ phase \in Judged => (phase = "rejected" <=> rows < RowsFor(10))
  /\ phase \notin {"making", "training"} => made = 0 /\ start = 0
  /\ phase \in {"making", "training"} =>
       /\ start = made * request.stride
       /\ made > 0 => rows >= RowsFor(made)
  /\ phase = "training" => ~InRange

IInv == TypeOK /\ ReplyInv /\ MakeInv
\* The constants' part of the types.
LEMMA AskedTypes == TypeOK /\ Valid => Asked
BY WindowsAssumption DEF TypeOK, Request, Asked

LEMMA InitIInv == Init => IInv
<1> SUFFICES ASSUME Init PROVE IInv
  OBVIOUS
<1>1. TypeOK
  BY WindowsAssumption DEF Init, TypeOK, Phase, Judged, NoReply
<1>2. ReplyInv /\ MakeInv
  BY <1>1 DEF Init, ReplyInv, MakeInv, Judged, TypeOK
<1>. QED
  BY <1>1, <1>2 DEF IInv

LEMMA IInvStep == IInv /\ [Next]_vars => IInv'
<1> SUFFICES ASSUME IInv, [Next]_vars PROVE IInv'
  OBVIOUS
<1> USE DEF IInv, Judged, Phase
<1>0. Valid => /\ Asked
              /\ request.stride \in Int /\ request.stride > 0 /\ Total \in Nat
              /\ \A n \in Int : RowsFor(n) \in Int
  BY AskedTypes DEF Asked, Valid, Total, RowsFor
<1>1. CASE Validate
  <2>1. TypeOK'
    BY <1>1 DEF Validate, TypeOK
  <2>2. ReplyInv' /\ MakeInv'
    BY <1>1 DEF Validate, TypeOK, ReplyInv, MakeInv, Valid
  <2>. QED
    BY <2>1, <2>2
<1>2. CASE TryMore
  <2>1. window_count < 10
    BY <1>2, UsableFromTen DEF TryMore, TypeOK, ReplyInv
  <2>2. TypeOK' /\ ReplyInv' /\ MakeInv'
    BY <1>2, <2>1 DEF TryMore, TypeOK, ReplyInv, MakeInv, Valid
  <2>. QED
    BY <2>2
<1>3. CASE Reply
  <2>1. Valid /\ window_count = 10 /\ rows = checked
    BY <1>3, UsableFromTen DEF Reply, TypeOK, ReplyInv
  <2>2. UsableSplit(CountWindows(rows)) <=> rows >= RowsFor(10)
    BY <1>0, <2>1, CountReaches, UsableFromTen DEF TypeOK
  <2>3. Missing(RowsFor(10)) \in Nat
    BY <1>0, <2>1 DEF Missing, TypeOK
  <2>4. UsableSplit(CountWindows(rows)) \in BOOLEAN
    BY DEF UsableSplit
  <2>5. TypeOK'
    BY <1>3, <2>1, <2>3, <2>4 DEF Reply, TypeOK
  <2>6. RowsFor(10)' = RowsFor(10) /\ Valid'
    BY <1>3, <2>1 DEF Reply, RowsFor, Total, Valid
  <2>7. reply' = [usable |-> UsableSplit(CountWindows(rows)), missing |-> Missing(RowsFor(10))]
    BY <1>3, <2>1 DEF Reply
  <2>8. ReplyInv'
    BY <1>3, <2>1, <2>2, <2>6, <2>7 DEF Reply, ReplyInv, Missing, TypeOK
  <2>9. MakeInv'
    BY <1>3 DEF Reply, MakeInv
  <2>. QED
    BY <2>5, <2>8, <2>9
<1>4. CASE Grow
  <2>1. RowsFor(10)' = RowsFor(10) /\ Valid' = Valid
    BY <1>4 DEF Grow, RowsFor, Total, Valid
  <2>2. TypeOK' /\ ReplyInv' /\ MakeInv'
    BY <1>4, <2>1 DEF Grow, TypeOK, ReplyInv, MakeInv
  <2>. QED
    BY <2>2
<1>5. CASE Require
  <2>1. UsableSplit(CountWindows(rows)) <=> rows >= RowsFor(10)
    BY <1>0, <1>5, CountReaches, UsableFromTen DEF Require, TypeOK, ReplyInv
  <2>2. RowsFor(10)' = RowsFor(10) /\ Valid' = Valid
    BY <1>5 DEF Require, RowsFor, Total, Valid
  <2>3. TypeOK' /\ ReplyInv'
    BY <1>5, <2>2 DEF Require, TypeOK, ReplyInv
  <2>4. MakeInv'
    BY <1>0, <1>5, <2>1, <2>2 DEF Require, TypeOK, ReplyInv, MakeInv
  <2>. QED
    BY <2>3, <2>4
<1>6. CASE MakeWindow
  <2>1. Valid /\ start = made * request.stride /\ rows >= RowsFor(made + 1)
    BY <1>0, <1>6 DEF MakeWindow, InRange, RowsFor, TypeOK, ReplyInv, MakeInv
  <2>2. made * request.stride + request.stride = (made + 1) * request.stride
    BY <1>0, <2>1 DEF TypeOK
  <2>3. start' = made' * request.stride /\ start' \in Nat /\ made' \in Nat
    BY <1>0, <1>6, <2>1, <2>2 DEF MakeWindow, TypeOK
  <2>4. TypeOK'
    BY <1>6, <2>3 DEF MakeWindow, TypeOK
  <2>5. RowsFor(10)' = RowsFor(10) /\ Valid' = Valid /\ RowsFor(made)' = RowsFor(made + 1)
    BY <1>6 DEF MakeWindow, RowsFor, Total, Valid
  <2>6. ReplyInv'
    BY <1>6, <2>5 DEF MakeWindow, ReplyInv
  <2>7. MakeInv'
    BY <1>6, <2>1, <2>3, <2>5 DEF MakeWindow, MakeInv
  <2>. QED
    BY <2>4, <2>6, <2>7
<1>7. CASE Split
  <2>1. RowsFor(10)' = RowsFor(10) /\ Valid' = Valid /\ RowsFor(made)' = RowsFor(made)
        /\ InRange' = InRange
    BY <1>7 DEF Split, RowsFor, Total, Valid, InRange
  <2>2. TypeOK' /\ ReplyInv' /\ MakeInv'
    BY <1>7, <2>1 DEF Split, TypeOK, ReplyInv, MakeInv
  <2>. QED
    BY <2>2
<1>8. CASE UNCHANGED vars
  BY <1>8 DEF vars, TypeOK, Request, ReplyInv, MakeInv, InRange, Valid, RowsFor, Total
<1>. QED
  BY <1>1, <1>2, <1>3, <1>4, <1>5, <1>6, <1>7, <1>8 DEF Next

LEMMA Invariance == Spec => []IInv
BY InitIInv, IInvStep, PTL DEF Spec

\* Every variable keeps its type; the search stays below its bound.
THEOREM WindowTypes == Spec => []TypeOK
<1>1. IInv => TypeOK
  BY DEF IInv
<1>. QED
  BY <1>1, Invariance, PTL

\* Whatever the lengths, the stride and the series: what checkData says is
\* missing is what the trainer needs, to the row.
THEOREM CheckAgreesWithTrainer == Spec => []MissingIsExact
<1>1. IInv => MissingIsExact
  <2> SUFFICES ASSUME IInv PROVE MissingIsExact
    OBVIOUS
  <2>1. Valid => RowsFor(10) \in Int
    BY AskedTypes DEF IInv, Asked, RowsFor, Total
  <2>. QED
    BY <2>1 DEF IInv, TypeOK, ReplyInv, MakeInv, MissingIsExact, Judged
<1>. QED
  BY <1>1, Invariance, PTL

\* Whatever the lengths, the stride and the series: the loop of make_windows
\* makes as many windows as count_windows says, inside the series, and no split
\* of them is empty.
THEOREM WindowsMadeAsCounted == Spec => []WindowsAsCounted
<1>1. IInv => WindowsAsCounted
  <2> SUFFICES ASSUME IInv PROVE WindowsAsCounted
    OBVIOUS
  <2>1. ASSUME phase = "making", made > 0 PROVE start - request.stride + Total <= rows
    <3>1. Asked /\ start = made * request.stride /\ rows >= RowsFor(made)
      BY <2>1, AskedTypes DEF IInv, ReplyInv, MakeInv
    <3>. QED
      BY <3>1 DEF IInv, TypeOK, RowsFor, Total, Asked
  <2>2. ASSUME phase = "training"
        PROVE  made = CountWindows(rows) /\ ValCount(made) >= 1 /\ TestCount(made) >= 1
    <3>1. Asked /\ start = made * request.stride /\ ~InRange /\ rows >= RowsFor(10)
          /\ (made > 0 => rows >= RowsFor(made))
      BY <2>2, AskedTypes DEF IInv, TypeOK, ReplyInv, MakeInv, Judged, Asked, RowsFor, Total
    <3>2. rows < RowsFor(made + 1)
      BY <3>1 DEF InRange, RowsFor, IInv, TypeOK, Total, Asked
    <3>3. CountWindows(rows) \in Nat /\ CountWindows(rows) >= 10
      BY <3>1, CountReaches DEF IInv, TypeOK
    <3>4. made >= 1
      <4>1. made = 0 => rows < Total
        BY <3>1, <3>2 DEF RowsFor, IInv, TypeOK, Total, Asked
      <4>. QED
        BY <3>3, <4>1 DEF CountWindows, IInv, TypeOK
    <3>5. made = CountWindows(rows)
      BY <3>1, <3>2, <3>4, CountUnique DEF IInv, TypeOK
    <3>. QED
      BY <3>3, <3>5, UsableFromTen DEF UsableSplit
  <2>. QED
    BY <2>1, <2>2 DEF WindowsAsCounted
<1>. QED
  BY <1>1, Invariance, PTL
=============================================================================
