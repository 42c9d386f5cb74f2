--------------------------- MODULE ServingProofs ---------------------------
(***************************************************************************)
(* Serving for any runs, files, requests, epochs and patience: what is on  *)
(* disk after a training, what requests answer with, and what the cache    *)
(* keeps.                                                                  *)
(***************************************************************************)
EXTENDS Serving, TLAPS

-----------------------------------------------------------------------------
(* Losses and improvements.                                                *)

AllLosses == Seq(Losses \cup {NoNumber})

\* A further loss changes nothing about the epochs before it.
LEMMA ImprovementKept ==
  ASSUME NEW l \in AllLosses, NEW x \in Losses \cup {NoNumber}, NEW k \in 1 .. Len(l)
  PROVE  Improvement(Append(l, x), k) <=> Improvement(l, k)
BY DEF AllLosses, Improvement

LEMMA OutOfPatienceKept ==
  ASSUME NEW l \in AllLosses, NEW x \in Losses \cup {NoNumber}, NEW m \in 1 .. Len(l)
  PROVE  OutOfPatience(Append(l, x), m) <=> OutOfPatience(l, m)
<1>1. ASSUME m >= Patience, NEW k \in (m - Patience + 1) .. m
      PROVE  k \in 1 .. Len(l)
  BY <1>1, LoopAssumption DEF LoopAssumption, AllLosses
<1> QED
  BY <1>1, ImprovementKept DEF OutOfPatience

\* The best so far, and how it is told from the losses.
Tracks(b, l) ==
  /\ b.epoch \in 0 .. Len(l)
  /\ b.epoch = 0 => b.loss = NoNumber /\ \A k \in 1 .. Len(l) : l[k] = NoNumber
  /\ b.epoch # 0 => /\ l[b.epoch] = b.loss
                    /\ b.loss \in Losses
                    /\ BestEpoch(l, b.epoch)

LEMMA BestIsImprovement ==
  ASSUME NEW l \in AllLosses, NEW k \in 1 .. Len(l), BestEpoch(l, k)
  PROVE  Improvement(l, k)
BY LoopAssumption DEF LoopAssumption, AllLosses, BestEpoch, Improvement

\* An epoch that improves becomes the best.
LEMMA TrackImproving ==
  ASSUME NEW l \in AllLosses, NEW x \in Losses \cup {NoNumber},
         NEW b \in [loss : Losses \cup {NoNumber}, epoch : Nat],
         Tracks(b, l), Improves(x, b.loss)
  PROVE  Tracks([loss |-> x, epoch |-> Len(l) + 1], Append(l, x))
<1> DEFINE n == Len(l)
           m == Append(l, x)
<1>1. n \in Nat /\ Len(m) = n + 1 /\ m[n + 1] = x
  BY DEF AllLosses
<1>2. \A k \in 1 .. n : m[k] = l[k] /\ l[k] \in Losses \cup {NoNumber}
  BY DEF AllLosses
<1>3. x \in Losses /\ Losses \subseteq Nat /\ NoNumber \notin Losses
  BY LoopAssumption DEF LoopAssumption, Improves
<1>4. \A i \in 1 .. n : l[i] = NoNumber \/ x < l[i]
  <2>1. CASE b.epoch = 0
    BY <2>1 DEF Tracks
  <2>2. CASE b.epoch # 0
    <3>1. b.loss \in Losses /\ l[b.epoch] = b.loss /\ x < b.loss
      BY <1>3, <2>2 DEF Tracks, Improves
    <3>2. \A i \in 1 .. n : l[i] = NoNumber \/ b.loss < l[i] \/ b.loss = l[i]
      BY <2>2, <3>1 DEF Tracks, BestEpoch
    <3>3. ASSUME NEW i \in 1 .. n, l[i] # NoNumber
          PROVE  x < l[i]
      <4>1. l[i] \in Nat /\ b.loss \in Nat /\ x \in Nat
        BY <1>2, <1>3, <3>1, <3>3
      <4>2. b.loss < l[i] \/ b.loss = l[i]
        BY <3>2, <3>3
      <4> QED
        BY <3>1, <4>1, <4>2
    <3> QED
      BY <3>3
  <2> QED
    BY <2>1, <2>2
<1>5. \A i \in 1 .. n + 1 : m[i] = NoNumber \/ x < m[i] \/ (x = m[i] /\ n + 1 <= i)
  <2>1. SUFFICES ASSUME NEW i \in 1 .. n + 1, i # n + 1
                 PROVE  m[i] = NoNumber \/ x < m[i]
    BY <1>1
  <2> QED
    BY <1>1, <1>2, <1>4, <2>1
<1> HIDE DEF n, m
<1>6. BestEpoch(m, n + 1)
  BY <1>1, <1>3, <1>5 DEF BestEpoch
<1> QED
  BY <1>1, <1>3, <1>6 DEF Tracks, n, m

\* One that does not leaves it.
LEMMA TrackIdle ==
  ASSUME NEW l \in AllLosses, NEW x \in Losses \cup {NoNumber},
         NEW b \in [loss : Losses \cup {NoNumber}, epoch : Nat],
         Tracks(b, l), ~Improves(x, b.loss)
  PROVE  Tracks(b, Append(l, x))
<1> DEFINE n == Len(l)
           m == Append(l, x)
<1>1. n \in Nat /\ Len(m) = n + 1 /\ m[n + 1] = x /\ b.epoch \in 0 .. n
  BY DEF AllLosses, Tracks
<1>2. \A k \in 1 .. n : m[k] = l[k]
  BY DEF AllLosses
<1>3. Losses \subseteq Nat /\ NoNumber \notin Losses
  BY LoopAssumption DEF LoopAssumption
<1>4. ASSUME b.epoch = 0
      PROVE  b.loss = NoNumber /\ \A k \in 1 .. n + 1 : m[k] = NoNumber
  BY <1>1, <1>2, <1>4 DEF Tracks, Improves
<1>5. ASSUME b.epoch # 0
      PROVE  m[b.epoch] = b.loss /\ b.loss \in Losses /\ BestEpoch(m, b.epoch)
  <2>1. b.epoch \in 1 .. n /\ b.loss \in Losses /\ l[b.epoch] = b.loss /\ m[b.epoch] = b.loss
    BY <1>1, <1>2, <1>5 DEF Tracks
  <2>2. x = NoNumber \/ b.loss < x \/ b.loss = x
    <3>1. CASE x \in Losses
      <4>1. x \in Nat /\ b.loss \in Nat /\ x # NoNumber /\ b.loss # NoNumber
        BY <1>3, <2>1, <3>1
      <4>2. ~(x < b.loss)
        BY <4>1 DEF Improves
      <4> QED
        BY <4>1, <4>2
    <3> QED
      BY <3>1
  <2>3. \A i \in 1 .. n : l[i] = NoNumber \/ b.loss < l[i] \/ (b.loss = l[i] /\ b.epoch <= i)
    BY <1>5, <2>1 DEF Tracks, BestEpoch
  <2>4. ASSUME NEW i \in 1 .. n + 1
        PROVE  m[i] = NoNumber \/ b.loss < m[i] \/ (b.loss = m[i] /\ b.epoch <= i)
    <3>1. CASE i = n + 1
      BY <1>1, <2>1, <2>2, <3>1
    <3>2. CASE i # n + 1
      BY <1>1, <1>2, <2>3, <2>4, <3>2
    <3> QED
      BY <3>1, <3>2
  <2> HIDE DEF n, m
  <2> QED
    BY <1>1, <1>3, <2>1, <2>4 DEF BestEpoch
<1> HIDE DEF n, m
<1> QED
  BY <1>1, <1>4, <1>5 DEF Tracks, m

\* Patience is lasting exactly while the best epoch is within it.
LEMMA PatienceByBest ==
  ASSUME NEW l \in AllLosses, Len(l) > 0,
         NEW b \in [loss : Losses \cup {NoNumber}, epoch : Nat], Tracks(b, l)
  PROVE  OutOfPatience(l, Len(l)) <=> Len(l) - b.epoch >= Patience
<1> DEFINE n == Len(l)
<1>1. ASSUME n - b.epoch >= Patience
      PROVE  OutOfPatience(l, n)
  <2>1. ASSUME NEW k \in (n - Patience + 1) .. n
        PROVE  ~Improvement(l, k)
    <3>1. k \in 1 .. n /\ k > b.epoch
      BY <1>1, LoopAssumption DEF LoopAssumption, AllLosses, Tracks
    <3>2. CASE b.epoch = 0
      BY <3>1, <3>2 DEF Tracks, Improvement
    <3>3. CASE b.epoch # 0
      <4>1. b.epoch \in 1 .. k - 1 /\ b.loss \in Losses /\ l[b.epoch] = b.loss
        BY <3>1, <3>3 DEF Tracks, AllLosses
      <4>2. l[k] = NoNumber \/ b.loss < l[k] \/ b.loss = l[k]
        BY <3>1, <3>3, <4>1 DEF Tracks, BestEpoch
      <4>3. l[k] \in Losses \cup {NoNumber} /\ b.loss \in Nat /\ Losses \subseteq Nat
        <5>1. l[k] \in Losses \cup {NoNumber}
          BY <3>1 DEF AllLosses
        <5> QED
          BY <4>1, <5>1, LoopAssumption DEF LoopAssumption
      <4>4. CASE l[k] # NoNumber
        <5>1. l[k] \in Nat /\ l[b.epoch] \in Nat /\ l[b.epoch] # NoNumber
          BY <4>1, <4>3, <4>4, LoopAssumption DEF LoopAssumption
        <5>2. ~(l[k] < l[b.epoch])
          BY <4>1, <4>2, <4>4, <5>1
        <5> QED
          BY <4>1, <5>1, <5>2 DEF Improvement
      <4> QED
        BY <4>4 DEF Improvement
    <3> QED
      BY <3>2, <3>3
  <2> QED
    BY <1>1, <2>1, LoopAssumption DEF LoopAssumption, OutOfPatience, AllLosses, Tracks
<1>2. ASSUME OutOfPatience(l, n), n - b.epoch < Patience
      PROVE  FALSE
  <2>1. b.epoch # 0
    BY <1>2, LoopAssumption DEF LoopAssumption, OutOfPatience, AllLosses, Tracks
  <2>2. b.epoch \in (n - Patience + 1) .. n /\ b.epoch \in 1 .. n
    BY <1>2, <2>1, LoopAssumption DEF LoopAssumption, AllLosses, Tracks
  <2>3. Improvement(l, b.epoch)
    BY <2>1, <2>2, BestIsImprovement DEF Tracks
  <2> QED
    BY <1>2, <2>2, <2>3 DEF OutOfPatience
<1> QED
  BY <1>1, <1>2, LoopAssumption DEF LoopAssumption, AllLosses, Tracks

-----------------------------------------------------------------------------
(* The training loop, run by run.                                          *)

\* Where a run is, what its losses say of the best epoch and of its patience.
Progress(where, l, b, idle, epochs) ==
  /\ Tracks(b, l)
  /\ where = "waiting" => Len(l) = 0
  /\ where = "saving" => Len(l) > 0 /\ b.epoch = Len(l)
  /\ where \in {"waiting", "training", "returned"} => idle = Len(l) - b.epoch
  /\ where \in {"waiting", "training"} => idle < Patience
  /\ where = "returned" => Len(l) > 0 /\ (Len(l) = epochs \/ idle >= Patience)
  /\ \A m \in 1 .. Len(l) - 1 : ~OutOfPatience(l, m)

RunOK(r) == Progress(pc[r], val_losses[r], best[r], no_improve[r], Epochs[r])

\* A run in the middle of a save has pieces left to write.
SaveOK(r) == pc[r] = "saving" => written[r] < Last

\* Until another run starts on it, a run's file is what the run made of it.
FileOK(r) ==
  Alone(r) =>
    /\ pc[r] \in {"waiting", "training", "returned"} =>
         IF best[r].epoch = 0 THEN saves[pathOf[r]] = 0
         ELSE file[pathOf[r]] = [i \in 1 .. Last |-> Saved(r, best[r].epoch)]
    /\ pc[r] = "saving" =>
         \A i \in 1 .. written[r] : file[pathOf[r]][i] = Saved(r, best[r].epoch)

LoopInv ==
  /\ LoopTypeOK
  /\ \A r \in Runs : RunOK(r)
  /\ \A r \in Runs : SaveOK(r)
  /\ \A r \in Runs : FileOK(r)

LEMMA LoopInvInit == LoopInit => LoopInv
<1> SUFFICES ASSUME LoopInit
             PROVE  LoopInv
  OBVIOUS
<1>1. LoopTypeOK
  BY LoopAssumption DEF LoopAssumption, LoopInit, LoopTypeOK, Content, Piece, Hole
<1>2. ASSUME NEW r \in Runs
      PROVE  RunOK(r)
  BY LoopAssumption DEF LoopAssumption, LoopInit, RunOK, Progress, Tracks
<1>3. ASSUME NEW r \in Runs
      PROVE  SaveOK(r) /\ FileOK(r)
  BY LoopAssumption DEF LoopAssumption, LoopInit, SaveOK, FileOK
<1> QED
  BY <1>1, <1>2, <1>3 DEF LoopInv

LEMMA LoopTypes ==
  ASSUME LoopTypeOK, NEW r \in Runs
  PROVE  /\ val_losses[r] \in AllLosses
         /\ best[r] \in [loss : Losses \cup {NoNumber}, epoch : Nat]
         /\ Len(val_losses[r]) \in Nat
         /\ no_improve[r] \in 0 .. Patience
         /\ pathOf[r] \in Paths
         /\ saves[pathOf[r]] \in Nat
         /\ written[r] \in 0 .. Last
BY LoopAssumption DEF LoopAssumption, LoopTypeOK, AllLosses

\* A further epoch of a run still within its patience.
LEMMA EarlierEpochsInTime ==
  ASSUME NEW l \in AllLosses, NEW x \in Losses \cup {NoNumber},
         NEW b \in [loss : Losses \cup {NoNumber}, epoch : Nat], Tracks(b, l),
         Len(l) - b.epoch < Patience,
         \A m \in 1 .. Len(l) - 1 : ~OutOfPatience(l, m)
  PROVE  \A m \in 1 .. Len(Append(l, x)) - 1 : ~OutOfPatience(Append(l, x), m)
<1>1. Len(Append(l, x)) = Len(l) + 1 /\ Len(l) \in Nat
  BY DEF AllLosses
<1>2. SUFFICES ASSUME NEW m \in 1 .. Len(l)
               PROVE  ~OutOfPatience(l, m)
  BY <1>1, OutOfPatienceKept
<1>3. CASE m = Len(l)
  <2>1. Len(l) > 0 /\ ~(Len(l) - b.epoch >= Patience)
    BY <1>1, <1>2, <1>3, LoopAssumption DEF LoopAssumption
  <2>2. ~OutOfPatience(l, Len(l))
    BY <2>1, PatienceByBest
  <2> QED
    BY <1>3, <2>2
<1> QED
  BY <1>1, <1>2, <1>3

LEMMA StartStep ==
  ASSUME LoopInv, NEW r \in Runs, Start(r)
  PROVE  LoopTypeOK' /\ RunOK(r)' /\ SaveOK(r)'
<1>1. LoopTypeOK'
  BY DEF LoopInv, LoopTypeOK, Start
<1>2. RunOK(r)' /\ SaveOK(r)'
  BY DEF LoopInv, LoopTypeOK, Start, RunOK, Progress, SaveOK
<1> QED
  BY <1>1, <1>2

LEMMA StopStep ==
  ASSUME LoopInv, NEW r \in Runs, Stop(r)
  PROVE  LoopTypeOK' /\ RunOK(r)' /\ SaveOK(r)'
<1>1. LoopTypeOK'
  BY DEF LoopInv, LoopTypeOK, Stop
<1>2. RunOK(r)' /\ SaveOK(r)'
  BY DEF LoopInv, LoopTypeOK, Stop, RunOK, Progress, SaveOK
<1> QED
  BY <1>1, <1>2

LEMMA ImprovingStep ==
  ASSUME LoopInv, NEW r \in Runs, ImprovingEpoch(r)
  PROVE  LoopTypeOK' /\ RunOK(r)' /\ SaveOK(r)'
<1> DEFINE l == val_losses[r]
<1>1. PICK x \in Losses \cup {NoNumber} :
        /\ Improves(x, best[r].loss)
        /\ val_losses' = [val_losses EXCEPT ![r] = Append(@, x)]
        /\ best' = [best EXCEPT ![r] = [loss |-> x, epoch |-> Len(l) + 1]]
  BY DEF ImprovingEpoch
<1>2. /\ l \in AllLosses /\ Len(l) \in Nat
      /\ best[r] \in [loss : Losses \cup {NoNumber}, epoch : Nat]
      /\ pathOf[r] \in Paths
  BY LoopTypes DEF LoopInv
<1>3. Append(l, x) \in AllLosses /\ Len(Append(l, x)) = Len(l) + 1
  BY <1>2 DEF AllLosses
<1>4. LoopTypeOK'
  <2>1. val_losses' \in [Runs -> Seq(Losses \cup {NoNumber})]
    BY <1>1, <1>3 DEF LoopInv, LoopTypeOK, AllLosses
  <2>2. best' \in [Runs -> [loss : Losses \cup {NoNumber}, epoch : Nat]]
    BY <1>1, <1>2 DEF LoopInv, LoopTypeOK
  <2>3. file' \in [Paths -> Content]
    BY <1>2 DEF LoopInv, LoopTypeOK, ImprovingEpoch, Content, Piece, Emptied, Hole
  <2>4. saves' \in [Paths -> Nat] /\ shared' \in [Paths -> SUBSET Nat]
    BY <1>2 DEF LoopInv, LoopTypeOK, ImprovingEpoch
  <2>5. written' \in [Runs -> 0 .. Last]
    BY LoopAssumption DEF LoopAssumption, LoopInv, LoopTypeOK, ImprovingEpoch
  <2> QED
    BY <2>1, <2>2, <2>3, <2>4, <2>5 DEF LoopInv, LoopTypeOK, ImprovingEpoch
<1>5. /\ val_losses'[r] = Append(l, x)
      /\ best'[r] = [loss |-> x, epoch |-> Len(l) + 1]
      /\ pc'[r] = "saving"
  BY <1>1 DEF LoopInv, LoopTypeOK, ImprovingEpoch
<1>6. /\ Tracks(best[r], l)
      /\ no_improve[r] = Len(l) - best[r].epoch
      /\ no_improve[r] < Patience
      /\ \A m \in 1 .. Len(l) - 1 : ~OutOfPatience(l, m)
  BY DEF LoopInv, RunOK, Progress, ImprovingEpoch
<1>7. Tracks(best'[r], val_losses'[r])
  BY <1>1, <1>2, <1>5, <1>6, TrackImproving
<1>8. \A m \in 1 .. Len(val_losses'[r]) - 1 : ~OutOfPatience(val_losses'[r], m)
  BY <1>2, <1>5, <1>6, EarlierEpochsInTime
<1>9. SaveOK(r)'
  BY LoopAssumption DEF LoopAssumption, LoopInv, LoopTypeOK, ImprovingEpoch, SaveOK
<1> HIDE DEF l
<1> QED
  BY <1>2, <1>3, <1>4, <1>5, <1>7, <1>8, <1>9 DEF RunOK, Progress

LEMMA IdleStep ==
  ASSUME LoopInv, NEW r \in Runs, IdleEpoch(r)
  PROVE  LoopTypeOK' /\ RunOK(r)' /\ SaveOK(r)'
<1> DEFINE l == val_losses[r]
           idle == no_improve[r] + 1
<1>1. PICK x \in Losses \cup {NoNumber} :
        /\ ~Improves(x, best[r].loss)
        /\ val_losses' = [val_losses EXCEPT ![r] = Append(@, x)]
  BY DEF IdleEpoch
<1>2. /\ l \in AllLosses /\ Len(l) \in Nat
      /\ best[r] \in [loss : Losses \cup {NoNumber}, epoch : Nat]
      /\ no_improve[r] \in 0 .. Patience
  BY LoopTypes DEF LoopInv
<1>3. Append(l, x) \in AllLosses /\ Len(Append(l, x)) = Len(l) + 1
  BY <1>2 DEF AllLosses
<1>4. /\ Tracks(best[r], l)
      /\ no_improve[r] = Len(l) - best[r].epoch
      /\ no_improve[r] < Patience
      /\ \A m \in 1 .. Len(l) - 1 : ~OutOfPatience(l, m)
  BY DEF LoopInv, RunOK, Progress, IdleEpoch
<1>5. idle \in 0 .. Patience
  BY <1>2, <1>4, LoopAssumption DEF LoopAssumption
<1>6. LoopTypeOK'
  <2>1. val_losses' \in [Runs -> Seq(Losses \cup {NoNumber})]
    BY <1>1, <1>3 DEF LoopInv, LoopTypeOK, AllLosses
  <2>2. no_improve' \in [Runs -> 0 .. Patience]
    BY <1>5 DEF LoopInv, LoopTypeOK, IdleEpoch
  <2>3. pc' \in [Runs -> {"waiting", "training", "saving", "returned", "stopped"}]
    BY DEF LoopInv, LoopTypeOK, IdleEpoch, AfterEpoch
  <2> QED
    BY <2>1, <2>2, <2>3 DEF LoopInv, LoopTypeOK, IdleEpoch
<1>7. /\ val_losses'[r] = Append(l, x)
      /\ best'[r] = best[r]
      /\ no_improve'[r] = idle
      /\ pc'[r] = AfterEpoch(r, Len(l) + 1, idle)
  BY <1>1 DEF LoopInv, LoopTypeOK, IdleEpoch
<1>8. Tracks(best'[r], val_losses'[r])
  BY <1>1, <1>2, <1>4, <1>7, TrackIdle
<1>9. \A m \in 1 .. Len(val_losses'[r]) - 1 : ~OutOfPatience(val_losses'[r], m)
  BY <1>2, <1>4, <1>7, EarlierEpochsInTime
<1>10. best[r].epoch \in Nat /\ no_improve'[r] = Len(val_losses'[r]) - best'[r].epoch
  BY <1>2, <1>3, <1>4, <1>7
<1>11. SaveOK(r)'
  BY <1>7 DEF SaveOK, AfterEpoch
<1> HIDE DEF l
<1> QED
  BY <1>2, <1>3, <1>5, <1>6, <1>7, <1>8, <1>9, <1>10, <1>11, LoopAssumption
     DEF LoopAssumption, RunOK, Progress, AfterEpoch, Ends


LEMMA WriteTypes ==
  ASSUME LoopInv, NEW r \in Runs, Write(r)
  PROVE  /\ file' \in [Paths -> Content]
         /\ written' \in [Runs -> 0 .. Last]
         /\ pathOf[r] \in Paths /\ best[r].epoch \in Nat
         /\ written[r] + 1 \in 1 .. Last /\ written'[r] = written[r] + 1
         /\ \A i \in 1 .. Last :
              file'[pathOf[r]][i] = IF i = written[r] + 1 THEN Saved(r, best[r].epoch)
                                    ELSE file[pathOf[r]][i]
<1> DEFINE p == pathOf[r]
           k == written[r] + 1
<1>1. /\ best[r] \in [loss : Losses \cup {NoNumber}, epoch : Nat]
      /\ p \in Paths /\ written[r] \in 0 .. Last /\ written[r] < Last
  BY LoopTypes DEF LoopInv, SaveOK, Write
<1>2. k \in 1 .. Last /\ file[p] \in [1 .. Last -> Piece] /\ Saved(r, best[r].epoch) \in Piece
  BY <1>1, LoopAssumption DEF LoopAssumption, LoopInv, LoopTypeOK, Content, Piece, Saved
<1>3. file' = [file EXCEPT ![p] = [file[p] EXCEPT ![k] = Saved(r, best[r].epoch)]]
  BY DEF Write
<1>4. [file[p] EXCEPT ![k] = Saved(r, best[r].epoch)] \in [1 .. Last -> Piece]
  BY <1>2
<1>5. file' \in [Paths -> Content]
  BY <1>1, <1>3, <1>4 DEF LoopInv, LoopTypeOK, Content
<1>6. written' \in [Runs -> 0 .. Last] /\ written'[r] = k
  BY <1>1, <1>2 DEF LoopInv, LoopTypeOK, Write
<1>7. file'[p] = [file[p] EXCEPT ![k] = Saved(r, best[r].epoch)]
  BY <1>1, <1>3 DEF LoopInv, LoopTypeOK
<1> QED
  BY <1>1, <1>2, <1>5, <1>6, <1>7

LEMMA SaveStep ==
  ASSUME LoopInv, NEW r \in Runs, WritePiece(r) \/ FinishSave(r)
  PROVE  LoopTypeOK' /\ RunOK(r)' /\ SaveOK(r)'
<1>1. /\ Len(val_losses[r]) \in Nat
      /\ val_losses' = val_losses /\ best' = best /\ pathOf' = pathOf
      /\ saves' = saves /\ shared' = shared
  BY LoopTypes DEF LoopInv, WritePiece, FinishSave
<1>2. /\ file' \in [Paths -> Content] /\ written' \in [Runs -> 0 .. Last]
      /\ written'[r] = written[r] + 1
  BY WriteTypes DEF WritePiece, FinishSave
<1>3. /\ Tracks(best[r], val_losses[r]) /\ pc[r] = "saving"
      /\ Len(val_losses[r]) > 0 /\ best[r].epoch = Len(val_losses[r])
      /\ \A m \in 1 .. Len(val_losses[r]) - 1 : ~OutOfPatience(val_losses[r], m)
  BY DEF LoopInv, RunOK, Progress, WritePiece, FinishSave, Write
<1>4. CASE WritePiece(r)
  <2>1. LoopTypeOK'
    BY <1>1, <1>2, <1>4 DEF LoopInv, LoopTypeOK, WritePiece
  <2>2. pc' = pc /\ no_improve' = no_improve /\ written'[r] < Last
    BY <1>2, <1>4 DEF WritePiece
  <2> QED
    BY <1>1, <1>3, <2>1, <2>2 DEF RunOK, SaveOK, Progress
<1>5. CASE FinishSave(r)
  <2>1. pc' \in [Runs -> {"waiting", "training", "saving", "returned", "stopped"}]
    BY <1>5 DEF LoopInv, LoopTypeOK, FinishSave, AfterEpoch
  <2>2. no_improve' \in [Runs -> 0 .. Patience]
    BY <1>5, LoopAssumption DEF LoopAssumption, LoopInv, LoopTypeOK, FinishSave
  <2>3. LoopTypeOK'
    BY <1>1, <1>2, <2>1, <2>2 DEF LoopInv, LoopTypeOK
  <2>4. no_improve'[r] = 0 /\ pc'[r] = AfterEpoch(r, Len(val_losses[r]), 0)
    BY <1>5 DEF LoopInv, LoopTypeOK, FinishSave
  <2> QED
    BY <1>1, <1>3, <2>3, <2>4, LoopAssumption
       DEF LoopAssumption, RunOK, SaveOK, Progress, AfterEpoch, Ends
<1> QED
  BY <1>4, <1>5

\* What a step of a run leaves alone.
LEMMA StepOf ==
  ASSUME LoopInv, NEW r \in Runs, RunStep(r) \/ Stop(r)
  PROVE  /\ pathOf' = pathOf
         /\ \A s \in Runs \ {r} : /\ pc'[s] = pc[s] /\ val_losses'[s] = val_losses[s]
                                  /\ best'[s] = best[s] /\ no_improve'[s] = no_improve[s]
                                  /\ written'[s] = written[s]
         /\ \A p \in Paths \ {pathOf[r]} :
              file'[p] = file[p] /\ saves'[p] = saves[p] /\ shared'[p] = shared[p]
BY DEF LoopInv, LoopTypeOK, RunStep, Start, ImprovingEpoch, IdleEpoch, WritePiece, FinishSave,
       Write, Stop

\* A step of a run leaves the other runs, and a file that is theirs alone.
LEMMA OthersUnchanged ==
  ASSUME LoopInv, NEW r \in Runs, RunStep(r) \/ Stop(r), NEW s \in Runs \ {r}
  PROVE  RunOK(s)' /\ SaveOK(s)' /\ FileOK(s)'
<1>1. /\ pathOf' = pathOf /\ pc'[s] = pc[s] /\ val_losses'[s] = val_losses[s]
      /\ best'[s] = best[s] /\ no_improve'[s] = no_improve[s] /\ written'[s] = written[s]
  BY StepOf
<1>2. pc'[r] # "waiting"
  BY DEF LoopInv, LoopTypeOK, RunStep, Start, ImprovingEpoch, IdleEpoch, WritePiece, FinishSave,
         Write, Stop, AfterEpoch
<1>3. RunOK(s)' /\ SaveOK(s)'
  BY <1>1 DEF LoopInv, RunOK, SaveOK
<1>4. ASSUME Alone(s)'
      PROVE  Alone(s) /\ pathOf[s] # pathOf[r] /\ pathOf[s] \in Paths
  <2>1. pathOf[s] # pathOf[r]
    BY <1>1, <1>2, <1>4 DEF Alone
  <2> QED
    BY <1>1, <1>4, <2>1, StepOf, LoopTypes DEF Alone, LoopInv
<1>5. FileOK(s)'
  <2>1. SUFFICES ASSUME Alone(s)'
                 PROVE  /\ file'[pathOf[s]] = file[pathOf[s]]
                        /\ saves'[pathOf[s]] = saves[pathOf[s]]
                        /\ FileOK(s) /\ Alone(s)
    BY <1>1 DEF FileOK
  <2> QED
    BY <1>4, <2>1, StepOf DEF LoopInv
<1> QED
  BY <1>3, <1>5

\* Nor does any run end up with a file that is not its own doing.
LEMMA OwnFile ==
  ASSUME LoopInv, NEW r \in Runs, RunStep(r) \/ Stop(r)
  PROVE  FileOK(r)'
<1> DEFINE p == pathOf[r]
<1>1. SUFFICES ASSUME Alone(r)'
               PROVE  /\ pc'[r] \in {"waiting", "training", "returned"} =>
                           IF best'[r].epoch = 0 THEN saves'[p] = 0
                           ELSE file'[p] = [i \in 1 .. Last |-> Saved(r, best'[r].epoch)]
                      /\ pc'[r] = "saving" =>
                           \A i \in 1 .. written'[r] : file'[p][i] = Saved(r, best'[r].epoch)
  BY StepOf DEF FileOK
<1>2. Alone(r)
  BY <1>1, StepOf DEF Alone
<1>3. /\ pc[r] \in {"waiting", "training", "returned"} =>
           IF best[r].epoch = 0 THEN saves[p] = 0
           ELSE file[p] = [i \in 1 .. Last |-> Saved(r, best[r].epoch)]
      /\ pc[r] = "saving" => \A i \in 1 .. written[r] : file[p][i] = Saved(r, best[r].epoch)
  BY <1>2 DEF LoopInv, FileOK
<1>4. p \in Paths
  BY LoopTypes DEF LoopInv
<1>5. CASE Start(r)
  BY <1>3, <1>5 DEF Start, LoopInv, LoopTypeOK
<1>6. CASE ImprovingEpoch(r)
  BY <1>6 DEF ImprovingEpoch, LoopInv, LoopTypeOK
<1>7. CASE IdleEpoch(r)
  BY <1>3, <1>7 DEF IdleEpoch, AfterEpoch, LoopInv, LoopTypeOK
<1>8. CASE WritePiece(r) \/ FinishSave(r)
  <2> DEFINE k == written[r] + 1
  <2>1. Write(r) /\ best' = best /\ pc[r] = "saving"
    BY <1>8 DEF WritePiece, FinishSave, Write
  <2>2. /\ k \in 1 .. Last /\ written'[r] = k /\ file' \in [Paths -> Content]
        /\ \A i \in 1 .. Last :
             file'[p][i] = IF i = k THEN Saved(r, best[r].epoch) ELSE file[p][i]
    BY <2>1, WriteTypes
  <2>3. \A i \in 1 .. k : file'[p][i] = Saved(r, best[r].epoch)
    <3>1. ASSUME NEW i \in 1 .. k PROVE file'[p][i] = Saved(r, best[r].epoch)
      <4>1. i \in 1 .. Last /\ (i # k => i \in 1 .. written[r])
        BY <2>2, LoopTypes, LoopAssumption DEF LoopAssumption, LoopInv
      <4> QED
        BY <1>3, <2>1, <2>2, <4>1
    <3> QED
      BY <3>1
  <2>4. CASE WritePiece(r)
    <3>1. pc' = pc
      BY <2>4 DEF WritePiece
    <3> QED
      BY <2>1, <2>2, <2>3, <3>1
  <2>5. CASE FinishSave(r)
    <3>1. k = Last /\ pc'[r] # "saving"
      BY <2>5 DEF FinishSave, AfterEpoch, LoopInv, LoopTypeOK
    <3>2. best[r].epoch # 0
      BY <2>1, LoopTypes DEF LoopInv, RunOK, Progress
    <3>3. file'[p] \in [1 .. Last -> Piece]
      BY <1>4, <2>2 DEF Content
    <3>4. file'[p] = [i \in 1 .. Last |-> Saved(r, best[r].epoch)]
      BY <2>3, <3>1, <3>3
    <3> QED
      BY <2>1, <3>1, <3>2, <3>4
  <2> QED
    BY <1>8, <2>4, <2>5
<1>9. CASE Stop(r)
  BY <1>9 DEF Stop, LoopInv, LoopTypeOK
<1> QED
  BY <1>5, <1>6, <1>7, <1>8, <1>9 DEF RunStep

LEMMA LoopInvStep == LoopInv /\ [LoopNext]_loop => LoopInv'
<1> SUFFICES ASSUME LoopInv, [LoopNext]_loop
             PROVE  LoopInv'
  OBVIOUS
<1>1. CASE UNCHANGED loop
  BY <1>1 DEF loop, LoopInv, LoopTypeOK, RunOK, SaveOK, FileOK, Alone
<1>2. ASSUME NEW r \in Runs, RunStep(r) \/ Stop(r)
      PROVE  LoopInv'
  <2>1. LoopTypeOK' /\ RunOK(r)' /\ SaveOK(r)'
    BY <1>2, StartStep, ImprovingStep, IdleStep, SaveStep, StopStep DEF RunStep
  <2>2. \A s \in Runs : RunOK(s)' /\ SaveOK(s)' /\ FileOK(s)'
    BY <1>2, <2>1, OwnFile, OthersUnchanged
  <2> QED
    BY <2>1, <2>2 DEF LoopInv
<1> QED
  BY <1>1, <1>2 DEF LoopNext

-----------------------------------------------------------------------------
(* What is in the files, and what a reader takes from them.                *)

\* The save of file p that began last began alone: what is in the file is the
\* beginning of one checkpoint, and only its run still writes.
OneSave(p) ==
  saves[p] > 0 /\ saves[p] \notin shared[p] =>
    \E r \in Runs, e \in Nat, n \in 0 .. Last :
      /\ WasBest(Saved(r, e), p)
      /\ \A i \in 1 .. Last : file[p][i] = IF i <= n THEN Saved(r, e) ELSE Hole
      /\ \A s \in Runs : pathOf[s] = p /\ pc[s] = "saving" =>
           s = r /\ best[s].epoch = e /\ written[s] = n

FilesInv == \A p \in Paths : OneSave(p) /\ shared[p] \subseteq 1 .. saves[p]

\* What has been read of p, by the save that had begun last.
ReadsInv(m, p) ==
  /\ m \in Seq(ReadPieces)
  /\ Len(m) <= Last
  /\ \A i \in 1 .. Len(m) :
       /\ m[i].stamp \in 1 .. saves[p]
       /\ m[i].stamp \notin shared[p] =>
            /\ WasBest(m[i], p)
            /\ \A j \in 1 .. Len(m) : m[j].stamp = m[i].stamp => m[j] = m[i]
            /\ m[i].stamp = saves[p] =>
                 \E k \in 1 .. Last : file[p][k] = Saved(m[i].run, m[i].epoch)

\* Later epochs do not make what was the best at its time another.
LEMMA BestKept ==
  ASSUME LoopTypeOK, NEW v, NEW p, WasBest(v, p), [LoopNext]_loop
  PROVE  WasBest(v, p)'
<1>1. /\ pathOf' = pathOf
      /\ \/ val_losses' = val_losses
         \/ \E r \in Runs, x \in Losses \cup {NoNumber} :
              val_losses' = [val_losses EXCEPT ![r] = Append(@, x)]
  BY DEF loop, LoopNext, RunStep, Start, ImprovingEpoch, IdleEpoch, WritePiece, FinishSave, Stop
<1>2. CASE val_losses' = val_losses
  BY <1>1, <1>2 DEF WasBest
<1>3. ASSUME NEW r \in Runs, NEW x \in Losses \cup {NoNumber},
             val_losses' = [val_losses EXCEPT ![r] = Append(@, x)]
      PROVE  WasBest(v, p)'
  <2>1. CASE v.run # r
    <3>1. val_losses'[v.run] = val_losses[v.run]
      BY <1>3, <2>1 DEF WasBest, LoopTypeOK
    <3> QED
      BY <1>1, <3>1 DEF WasBest
  <2>2. CASE v.run = r
    <3>1. val_losses[r] \in AllLosses /\ val_losses'[r] = Append(val_losses[r], x)
      BY <1>3, LoopTypes DEF LoopTypeOK
    <3>2. v.epoch \in 1 .. Len(val_losses[r]) /\ Improvement(val_losses[r], v.epoch)
      BY <2>2 DEF WasBest
    <3>3. Len(Append(val_losses[r], x)) = Len(val_losses[r]) + 1 /\ Len(val_losses[r]) \in Nat
      BY <3>1 DEF AllLosses
    <3>4. v.epoch \in 1 .. Len(val_losses'[r]) /\ Improvement(val_losses'[r], v.epoch)
      BY <3>1, <3>2, <3>3, ImprovementKept
    <3> QED
      BY <1>1, <2>2, <3>4 DEF WasBest
  <2> QED
    BY <2>1, <2>2
<1> QED
  BY <1>1, <1>2, <1>3

\* Saves are only added, as shared ones only when they begin.
LEMMA SavesGrow ==
  ASSUME LoopInv, [LoopNext]_loop, NEW p \in Paths
  PROVE  /\ saves[p] \in Nat /\ saves'[p] \in Nat
         /\ shared[p] \subseteq shared'[p]
         /\ \/ saves'[p] = saves[p] /\ shared'[p] = shared[p]
            \/ saves'[p] = saves[p] + 1 /\ shared'[p] \subseteq shared[p] \cup {saves[p] + 1}
<1>1. saves \in [Paths -> Nat] /\ shared \in [Paths -> SUBSET Nat]
  BY DEF LoopInv, LoopTypeOK
<1>2. CASE saves' = saves /\ shared' = shared
  BY <1>1, <1>2
<1>3. ASSUME NEW r \in Runs, ImprovingEpoch(r)
      PROVE  \/ saves'[p] = saves[p] /\ shared'[p] = shared[p]
             \/ /\ saves'[p] = saves[p] + 1 /\ shared[p] \subseteq shared'[p]
                /\ shared'[p] \subseteq shared[p] \cup {saves[p] + 1}
  BY <1>1, <1>3 DEF ImprovingEpoch
<1> QED
  BY <1>1, <1>2, <1>3 DEF loop, LoopNext, RunStep, Start, IdleEpoch, WritePiece, FinishSave, Stop

\* An epoch that improves opens its file alone, or the save is shared.
LEMMA OpenedAlone ==
  ASSUME LoopInv, NEW r \in Runs, ImprovingEpoch(r), LoopInv'
  PROVE  OneSave(pathOf[r])'
<1>0. Len(val_losses[r]) \in Nat /\ val_losses[r] \in AllLosses /\ pathOf[r] \in Paths
  BY LoopTypes DEF LoopInv
<1>a. PICK p \in Paths, e \in Nat : p = pathOf[r] /\ e = Len(val_losses[r]) + 1
  BY <1>0
<1>1. saves[p] \in Nat /\ pathOf' = pathOf /\ pathOf'[r] = p
  BY <1>a DEF LoopInv, LoopTypeOK, ImprovingEpoch
<1>2. /\ saves'[p] = saves[p] + 1 /\ pc'[r] = "saving"
      /\ Contended(r) => saves'[p] \in shared'[p]
      /\ file'[p] = Emptied(p) /\ written'[r] = 0
      /\ \A s \in Runs \ {r} : pc'[s] = pc[s]
  BY <1>a, <1>1 DEF ImprovingEpoch, LoopInv, LoopTypeOK
<1>3. PICK x \in Losses \cup {NoNumber} :
        /\ val_losses' = [val_losses EXCEPT ![r] = Append(@, x)]
        /\ best' = [best EXCEPT ![r] = [loss |-> x, epoch |-> e]]
  BY <1>a DEF ImprovingEpoch
<1>4. val_losses'[r] = Append(val_losses[r], x) /\ best'[r] = [loss |-> x, epoch |-> e]
  BY <1>3 DEF LoopInv, LoopTypeOK
<1>5. Len(val_losses'[r]) = e /\ e \in 1 .. Len(val_losses'[r]) /\ val_losses'[r] \in AllLosses
  BY <1>0, <1>a, <1>4 DEF AllLosses
<1>6. best'[r].epoch = e /\ e # 0
  BY <1>0, <1>a, <1>4
<1>7. Improvement(val_losses'[r], e)
  <2>1. Tracks(best'[r], val_losses'[r])
    BY DEF LoopInv, RunOK, Progress
  <2>2. BestEpoch(val_losses'[r], e)
    BY <1>6, <2>1 DEF Tracks
  <2> QED
    BY <1>5, <2>2, BestIsImprovement
<1>8. WasBest(Saved(r, e), p)'
  BY <1>1, <1>5, <1>7 DEF WasBest, Saved
<1>9. SUFFICES ASSUME saves'[p] \notin shared'[p]
               PROVE  \E o \in Runs, f \in Nat, n \in 0 .. Last :
                        /\ WasBest(Saved(o, f), p)'
                        /\ \A i \in 1 .. Last : file'[p][i] = IF i <= n THEN Saved(o, f) ELSE Hole
                        /\ \A s \in Runs : pathOf'[s] = p /\ pc'[s] = "saving" =>
                             s = o /\ best'[s].epoch = f /\ written'[s] = n
  BY <1>1 DEF OneSave
<1>10. \A s \in Runs : pathOf'[s] = p /\ pc'[s] = "saving" => s = r
  BY <1>a, <1>1, <1>2, <1>9 DEF Contended
<1>11. 0 \in 0 .. Last
  BY LoopAssumption DEF LoopAssumption
<1>12. \A i \in 1 .. Last : file'[p][i] = IF i <= 0 THEN Saved(r, e) ELSE Hole
  BY <1>2 DEF Emptied
<1>13. \A s \in Runs : pathOf'[s] = p /\ pc'[s] = "saving" =>
         s = r /\ best'[s].epoch = e /\ written'[s] = 0
  BY <1>2, <1>6, <1>10
<1> QED
  BY <1>8, <1>11, <1>12, <1>13

\* A writer of a file that began alone adds the next piece of its checkpoint.
LEMMA WrittenAlone ==
  ASSUME LoopInv, NEW r \in Runs, WritePiece(r) \/ FinishSave(r), OneSave(pathOf[r])
  PROVE  OneSave(pathOf[r])'
<1> DEFINE p == pathOf[r]
           k == written[r] + 1
<1>1. /\ Write(r) /\ pc[r] = "saving" /\ pathOf' = pathOf /\ saves' = saves /\ shared' = shared
      /\ best' = best /\ val_losses' = val_losses
      /\ \A s \in Runs \ {r} : pc'[s] = pc[s] /\ written'[s] = written[s]
  BY DEF LoopInv, LoopTypeOK, WritePiece, FinishSave, Write
<1>2. /\ p \in Paths /\ k \in 1 .. Last /\ written'[r] = k
      /\ \A i \in 1 .. Last :
           file'[p][i] = IF i = k THEN Saved(r, best[r].epoch) ELSE file[p][i]
  BY <1>1, WriteTypes
<1>3. SUFFICES ASSUME saves[p] > 0, saves[p] \notin shared[p]
               PROVE  \E o \in Runs, e \in Nat, n \in 0 .. Last :
                        /\ WasBest(Saved(o, e), p)'
                        /\ \A i \in 1 .. Last : file'[p][i] = IF i <= n THEN Saved(o, e) ELSE Hole
                        /\ \A s \in Runs : pathOf'[s] = p /\ pc'[s] = "saving" =>
                             s = o /\ best'[s].epoch = e /\ written'[s] = n
  BY <1>1 DEF OneSave
<1>4. PICK o \in Runs, e \in Nat, n \in 0 .. Last :
        /\ WasBest(Saved(o, e), p)
        /\ \A i \in 1 .. Last : file[p][i] = IF i <= n THEN Saved(o, e) ELSE Hole
        /\ \A s \in Runs : pathOf[s] = p /\ pc[s] = "saving" =>
             s = o /\ best[s].epoch = e /\ written[s] = n
  BY <1>3 DEF OneSave
<1>5. r = o /\ best[r].epoch = e /\ written[r] = n
  BY <1>1, <1>4
<1>6. WasBest(Saved(r, e), p)'
  BY <1>1, <1>4, <1>5 DEF WasBest
<1>7. \A i \in 1 .. Last : file'[p][i] = IF i <= k THEN Saved(r, e) ELSE Hole
  <2>1. ASSUME NEW i \in 1 .. Last
        PROVE  file'[p][i] = IF i <= k THEN Saved(r, e) ELSE Hole
    <3>1. i <= k <=> i <= n \/ i = k
      BY <1>2, <1>4, <1>5, LoopAssumption DEF LoopAssumption
    <3> QED
      BY <1>2, <1>4, <1>5, <3>1
  <2> QED
    BY <2>1
<1>8. \A s \in Runs : pathOf'[s] = p /\ pc'[s] = "saving" =>
        s = r /\ best'[s].epoch = e /\ written'[s] = k
  BY <1>1, <1>2, <1>4, <1>5
<1>9. k \in 0 .. Last
  BY <1>2, LoopAssumption DEF LoopAssumption
<1> HIDE DEF k, p
<1> QED
  BY <1>4, <1>6, <1>7, <1>8, <1>9

\* What a file holds is undisturbed by what happens elsewhere.
LEMMA OneSaveKept ==
  ASSUME LoopInv, [LoopNext]_loop, NEW p \in Paths, OneSave(p),
         file'[p] = file[p], saves'[p] = saves[p], shared'[p] = shared[p],
         \A s \in Runs : pathOf[s] = p /\ pc'[s] = "saving" =>
           pc[s] = "saving" /\ best'[s] = best[s] /\ written'[s] = written[s]
  PROVE  OneSave(p)'
<1>1. pathOf' = pathOf
  BY DEF loop, LoopNext, RunStep, Start, ImprovingEpoch, IdleEpoch, WritePiece, FinishSave, Stop
<1>2. \A v : WasBest(v, p) => WasBest(v, p)'
  BY BestKept DEF LoopInv
<1> QED
  BY <1>1, <1>2 DEF OneSave

LEMMA FilesInvStep ==
  ASSUME LoopInv, FilesInv, [LoopNext]_loop
  PROVE  FilesInv'
<1> SUFFICES ASSUME NEW p \in Paths
             PROVE  OneSave(p)' /\ shared'[p] \subseteq 1 .. saves'[p]
  BY DEF FilesInv
<1>1. shared'[p] \subseteq 1 .. saves'[p]
  BY SavesGrow DEF FilesInv
<1>2. CASE UNCHANGED loop
  BY <1>2, OneSaveKept DEF loop, FilesInv
<1>3. ASSUME NEW r \in Runs, RunStep(r) \/ Stop(r), pathOf[r] # p
      PROVE  OneSave(p)'
  <2>1. \A s \in Runs : pathOf[s] = p => pc'[s] = pc[s] /\ best'[s] = best[s] /\ written'[s] = written[s]
    BY <1>3, StepOf
  <2> QED
    BY <1>3, <2>1, StepOf, OneSaveKept DEF FilesInv
<1>4. ASSUME NEW r \in Runs, Start(r) \/ IdleEpoch(r) \/ Stop(r), pathOf[r] = p
      PROVE  OneSave(p)'
  <2>1. /\ file' = file /\ saves' = saves /\ shared' = shared /\ best' = best /\ written' = written
        /\ \A s \in Runs : pc'[s] = "saving" => pc[s] = "saving"
    BY <1>4 DEF LoopInv, LoopTypeOK, Start, IdleEpoch, Stop, AfterEpoch
  <2> QED
    BY <2>1, OneSaveKept DEF FilesInv
<1>5. LoopInv'
  BY LoopInvStep
<1>6. ASSUME NEW r \in Runs, ImprovingEpoch(r) \/ WritePiece(r) \/ FinishSave(r), pathOf[r] = p
      PROVE  OneSave(p)'
  <2>1. pathOf'[r] = p
    BY <1>6, StepOf DEF RunStep
  <2>2. OneSave(pathOf[r])'
    BY <1>5, <1>6, OpenedAlone, WrittenAlone DEF FilesInv
  <2> QED
    BY <2>1, <2>2
<1>7. OneSave(p)'
  BY <1>2, <1>3, <1>4, <1>6 DEF LoopNext, RunStep
<1> QED
  BY <1>1, <1>7

\* While trainings go on, what was read stays explained.
LEMMA ReadsKept ==
  ASSUME LoopInv, FilesInv, [LoopNext]_loop, NEW p \in Paths, NEW m, ReadsInv(m, p)
  PROVE  ReadsInv(m, p)'
<1>1. /\ saves[p] \in Nat /\ saves'[p] \in Nat /\ shared[p] \subseteq shared'[p]
      /\ shared[p] \subseteq 1 .. saves[p]
      /\ \/ saves'[p] = saves[p] /\ shared'[p] = shared[p]
         \/ saves'[p] = saves[p] + 1 /\ shared'[p] \subseteq shared[p] \cup {saves[p] + 1}
  BY SavesGrow DEF FilesInv
<1>2. ASSUME NEW i \in 1 .. Len(m)
      PROVE  m[i] \in ReadPieces /\ m[i].stamp \in 1 .. saves'[p]
  <2>1. m[i] \in ReadPieces /\ m[i].stamp \in 1 .. saves[p]
    BY DEF ReadsInv
  <2> QED
    BY <1>1, <2>1
<1>3. ASSUME NEW i \in 1 .. Len(m), m[i].stamp \notin shared'[p], m[i].stamp = saves'[p]
      PROVE  \E k \in 1 .. Last : file'[p][k] = Saved(m[i].run, m[i].epoch)
  <2>1. m[i].stamp \in 1 .. saves[p]
    BY DEF ReadsInv
  <2>2. saves'[p] = saves[p] /\ m[i].stamp = saves[p] /\ shared'[p] = shared[p]
    BY <1>1, <1>3, <2>1
  <2>3. m[i].stamp \notin shared[p] /\ WasBest(m[i], p)
    BY <1>3, <2>2 DEF ReadsInv
  <2>4. PICK k \in 1 .. Last : file[p][k] = Saved(m[i].run, m[i].epoch)
    BY <2>2, <2>3 DEF ReadsInv
  <2>5. CASE file'[p] = file[p]
    BY <2>4, <2>5
  <2>6. ASSUME NEW r \in Runs, WritePiece(r) \/ FinishSave(r), pathOf[r] = p
        PROVE  file'[p][k] = file[p][k]
    <3>1. Write(r) /\ pc[r] = "saving"
      BY <2>6 DEF WritePiece, FinishSave, Write
    <3>2. saves[p] > 0
      BY <1>1, <2>1
    <3>3. PICK o \in Runs, e \in Nat, n \in 0 .. Last :
            /\ WasBest(Saved(o, e), p)
            /\ \A j \in 1 .. Last : file[p][j] = IF j <= n THEN Saved(o, e) ELSE Hole
            /\ \A s \in Runs : pathOf[s] = p /\ pc[s] = "saving" =>
                 s = o /\ best[s].epoch = e /\ written[s] = n
      <4>1. OneSave(p) /\ saves[p] \notin shared[p]
        BY <2>2, <2>3 DEF FilesInv
      <4> QED
        BY <3>2, <4>1 DEF OneSave
    <3>4. file[p][k] # Hole
      <4>1. m[i].epoch # 0
        BY <2>3, LoopTypes DEF WasBest, LoopInv, AllLosses
      <4> QED
        BY <2>4, <4>1 DEF Saved, Hole
    <3>5. k <= n /\ written[r] = n /\ k # written[r] + 1
      BY <2>6, <3>1, <3>3, <3>4
    <3> QED
      BY <2>6, <3>1, <3>5, WriteTypes
  <2>7. ASSUME NEW r \in Runs, ImprovingEpoch(r), pathOf[r] = p
        PROVE  FALSE
    <3>1. saves'[p] = saves[p] + 1
      BY <2>7 DEF ImprovingEpoch, LoopInv, LoopTypeOK
    <3> QED
      BY <1>1, <2>2, <3>1
  <2>8. ASSUME NEW r \in Runs, RunStep(r) \/ Stop(r), pathOf[r] # p
        PROVE  file'[p] = file[p]
    BY <2>8, StepOf
  <2> QED
    BY <2>4, <2>5, <2>6, <2>7, <2>8
       DEF loop, LoopNext, RunStep, Start, IdleEpoch, Stop
<1>4. ASSUME NEW i \in 1 .. Len(m), m[i].stamp \notin shared'[p]
      PROVE  WasBest(m[i], p)' /\ \A j \in 1 .. Len(m) : m[j].stamp = m[i].stamp => m[j] = m[i]
  <2>1. m[i].stamp \notin shared[p] /\ WasBest(m[i], p)
    BY <1>1, <1>4 DEF ReadsInv
  <2> QED
    BY <2>1, BestKept DEF ReadsInv, LoopInv
<1> QED
  BY <1>2, <1>3, <1>4 DEF ReadsInv, ReadPieces

\* A further piece is of the save that is in the file.
LEMMA ReadOn ==
  ASSUME LoopInv, FilesInv, NEW p \in Paths, saves[p] > 0, NEW m, ReadsInv(m, p),
         Len(m) < Last, NEW k \in 1 .. Last, InFile(p, k)
  PROVE  ReadsInv(Append(m, [run |-> file[p][k].run, epoch |-> file[p][k].epoch, stamp |-> saves[p]]), p)
<1> DEFINE x == [run |-> file[p][k].run, epoch |-> file[p][k].epoch, stamp |-> saves[p]]
           l == Append(m, x)
<1>1. /\ file[p][k] \in Piece /\ saves[p] \in Nat
      /\ x \in ReadPieces /\ x.stamp = saves[p]
  <2>1. file[p][k] \in Piece /\ saves[p] \in Nat
    BY DEF LoopInv, LoopTypeOK, Content
  <2>2. file[p][k].run \in Runs \cup {NoNumber} /\ file[p][k].epoch \in Nat
    BY <2>1 DEF Piece
  <2> QED
    BY <2>1, <2>2 DEF ReadPieces
<1>2. /\ m \in Seq(ReadPieces) /\ l \in Seq(ReadPieces) /\ Len(m) \in Nat
      /\ Len(l) = Len(m) + 1 /\ Len(l) <= Last /\ l[Len(m) + 1] = x
      /\ \A i \in 1 .. Len(m) : l[i] = m[i] /\ m[i] \in ReadPieces
  BY <1>1, LoopAssumption DEF LoopAssumption, ReadsInv
<1>3. ASSUME saves[p] \notin shared[p]
      PROVE  /\ WasBest(x, p)
             /\ file[p][k] = Saved(x.run, x.epoch)
             /\ \A i \in 1 .. Len(m) : m[i].stamp = saves[p] => m[i] = x
  <2>1. PICK r \in Runs, e \in Nat, n \in 0 .. Last :
          /\ WasBest(Saved(r, e), p)
          /\ \A i \in 1 .. Last : file[p][i] = IF i <= n THEN Saved(r, e) ELSE Hole
    BY <1>3 DEF FilesInv, OneSave
  <2>2. file[p][k] = Saved(r, e)
    <3>1. PICK i \in k .. Last : file[p][i] # Hole
      BY DEF InFile
    <3>2. i \in 1 .. Last /\ i <= n /\ k <= i
      BY <2>1, <3>1, LoopAssumption DEF LoopAssumption
    <3>3. k <= n
      BY <3>2, LoopAssumption DEF LoopAssumption
    <3> QED
      BY <2>1, <3>3
  <2>3. x = [run |-> r, epoch |-> e, stamp |-> saves[p]] /\ x.run = r /\ x.epoch = e
    BY <2>2 DEF Saved
  <2>4. WasBest(x, p)
    BY <2>1, <2>3 DEF WasBest, Saved
  <2>5. ASSUME NEW i \in 1 .. Len(m), m[i].stamp = saves[p]
        PROVE  m[i] = x
    <3>1. /\ WasBest(m[i], p) /\ \E j \in 1 .. Last : file[p][j] = Saved(m[i].run, m[i].epoch)
          /\ m[i] \in ReadPieces
      BY <1>2, <1>3, <2>5 DEF ReadsInv
    <3>2. m[i].epoch # 0
      BY <3>1, LoopTypes DEF WasBest, LoopInv, AllLosses
    <3>3. Saved(m[i].run, m[i].epoch) = Saved(r, e)
      BY <2>1, <3>1, <3>2 DEF Saved, Hole
    <3>4. m[i].run = r /\ m[i].epoch = e
      BY <3>3 DEF Saved
    <3> QED
      BY <2>3, <2>5, <3>1, <3>4 DEF ReadPieces
  <2> QED
    BY <2>2, <2>3, <2>4, <2>5
<1> HIDE DEF x, l
<1>4. ASSUME NEW i \in 1 .. Len(l)
      PROVE  l[i].stamp \in 1 .. saves[p]
  BY <1>1, <1>2 DEF ReadsInv
<1>5. ASSUME NEW i \in 1 .. Len(l), l[i].stamp \notin shared[p]
      PROVE  /\ WasBest(l[i], p)
             /\ \A j \in 1 .. Len(l) : l[j].stamp = l[i].stamp => l[j] = l[i]
             /\ l[i].stamp = saves[p] =>
                  \E j \in 1 .. Last : file[p][j] = Saved(l[i].run, l[i].epoch)
  <2>1. CASE i = Len(m) + 1
    <3>1. l[i] = x /\ saves[p] \notin shared[p]
      BY <1>1, <1>2, <1>5, <2>1
    <3>2. \A j \in 1 .. Len(l) : l[j].stamp = saves[p] => l[j] = x
      BY <1>2, <1>3, <3>1
    <3> QED
      BY <1>1, <1>3, <3>1, <3>2
  <2>2. CASE i # Len(m) + 1
    <3>1. i \in 1 .. Len(m) /\ l[i] = m[i] /\ m[i].stamp \notin shared[p]
      BY <1>2, <1>5, <2>2
    <3>2. ASSUME NEW j \in 1 .. Len(l), l[j].stamp = l[i].stamp
          PROVE  l[j] = l[i]
      <4>1. CASE j = Len(m) + 1
        <5>1. l[j] = x /\ m[i].stamp = saves[p] /\ saves[p] \notin shared[p]
          BY <1>1, <1>2, <3>1, <3>2, <4>1
        <5> QED
          BY <1>3, <3>1, <5>1
      <4>2. CASE j # Len(m) + 1
        <5>1. j \in 1 .. Len(m) /\ l[j] = m[j] /\ m[j].stamp = m[i].stamp
          BY <1>2, <3>1, <3>2, <4>2
        <5> QED
          BY <3>1, <5>1 DEF ReadsInv
      <4> QED
        BY <4>1, <4>2
    <3> QED
      BY <3>1, <3>2 DEF ReadsInv
  <2> QED
    BY <2>1, <2>2
<1>6. ReadsInv(l, p)
  BY <1>2, <1>4, <1>5 DEF ReadsInv
<1> QED
  BY <1>6 DEF l, x

-----------------------------------------------------------------------------
(* Requests and the cache.                                                 *)

\* Between lock and unlock.
Inside(q) == state[q] = "looking" \/ (state[q] = "loading" /\ asks[q] \in Cached)

RequestInv(q) ==
  /\ state[q] \in {"resolved", "looking", "loading"} => floor[q] \in 1 .. saves[asks[q]]
  /\ Inside(q) => lock = q
  /\ state[q] = "looking" => asks[q] \in Cached
  /\ state[q] = "loading" /\ asks[q] \in Cached => cache[asks[q]] = <<>>
  /\ state[q] \in {"new", "resolved", "looking"} => loaded[q] = <<>>
  /\ state[q] \in {"loading", "predicting"} => ReadsInv(loaded[q], asks[q])
  /\ state[q] = "predicting" => Len(loaded[q]) = Last
  /\ state[q] \in {"loading", "predicting"} /\ asks[q] \notin Cached =>
       \A i \in 1 .. Len(loaded[q]) : loaded[q][i].stamp >= floor[q]

CacheInv ==
  \A p \in Paths : cache[p] # <<>> => ReadsInv(cache[p], p) /\ Len(cache[p]) = Last

IInv ==
  /\ LoopInv
  /\ TypeOK
  /\ FilesInv
  /\ CacheInv
  /\ \A q \in Requests : RequestInv(q)

\* A reader has nothing to explain before its first read.
LEMMA NothingRead ==
  ASSUME NEW p
  PROVE  ReadsInv(<<>>, p)
BY LoopAssumption DEF LoopAssumption, ReadsInv

LEMMA RequestKept ==
  ASSUME IInv, [LoopNext]_loop, NEW q \in Requests,
         state'[q] = state[q], asks'[q] = asks[q], loaded'[q] = loaded[q],
         floor'[q] = floor[q],
         Inside(q) => lock' = lock /\ cache'[asks[q]] = cache[asks[q]]
  PROVE  RequestInv(q)'
<1>1. RequestInv(q) /\ LoopInv /\ FilesInv
  BY DEF IInv
<1>2. state[q] \in {"loading", "predicting"} => ReadsInv(loaded[q], asks[q])'
  <2>1. SUFFICES ASSUME state[q] \in {"loading", "predicting"}
                 PROVE  ReadsInv(loaded[q], asks[q])'
    OBVIOUS
  <2>2. PICK p \in Paths : p = asks[q]
    BY <2>1 DEF IInv, TypeOK, UnderWay
  <2>3. PICK m \in Seq(ReadPieces) : m = loaded[q]
    BY DEF IInv, TypeOK
  <2>4. ReadsInv(m, p)
    BY <1>1, <2>1, <2>2, <2>3 DEF RequestInv
  <2>5. ReadsInv(m, p)'
    BY <1>1, <2>4, ReadsKept
  <2> QED
    BY <2>2, <2>3, <2>5
<1>3. state[q] \in {"resolved", "looking", "loading"} => floor[q] \in 1 .. saves'[asks[q]]
  <2>1. SUFFICES ASSUME state[q] \in {"resolved", "looking", "loading"}
                 PROVE  floor[q] \in 1 .. saves'[asks[q]]
    OBVIOUS
  <2>2. asks[q] \in Paths /\ floor[q] \in 1 .. saves[asks[q]]
    BY <1>1, <2>1 DEF IInv, TypeOK, UnderWay, RequestInv
  <2>3. /\ saves[asks[q]] \in Nat /\ saves'[asks[q]] \in Nat
        /\ saves'[asks[q]] = saves[asks[q]] \/ saves'[asks[q]] = saves[asks[q]] + 1
    BY <1>1, <2>2, SavesGrow
  <2> QED
    BY <2>2, <2>3
<1> QED
  BY <1>1, <1>2, <1>3 DEF RequestInv, Inside

LEMMA IInvInit == Init => IInv
<1> SUFFICES ASSUME Init
             PROVE  IInv
  OBVIOUS
<1>1. LoopInv
  BY LoopInvInit DEF Init
<1>2. TypeOK
  BY <1>1 DEF Init, TypeOK, UnderWay, LoopInv
<1>3. FilesInv /\ CacheInv
  BY DEF Init, LoopInit, FilesInv, OneSave, CacheInv
<1>4. \A q \in Requests : RequestInv(q)
  BY DEF Init, RequestInv, Inside
<1> QED
  BY <1>1, <1>2, <1>3, <1>4 DEF IInv

\* A cached model stays explained while trainings go on.
LEMMA CacheKept ==
  ASSUME IInv, [LoopNext]_loop, NEW p \in Paths, cache[p] # <<>>, cache'[p] = cache[p]
  PROVE  ReadsInv(cache[p], p)' /\ Len(cache'[p]) = Last
<1>1. PICK m \in Seq(ReadPieces) : m = cache[p]
  BY DEF IInv, TypeOK
<1>2. ReadsInv(m, p) /\ Len(m) = Last
  BY <1>1 DEF IInv, CacheInv
<1>3. ReadsInv(m, p)'
  BY <1>2, ReadsKept DEF IInv
<1> QED
  BY <1>1, <1>2, <1>3

\* A step of a training.
LEMMA TrainingKeeps ==
  ASSUME IInv, [LoopNext]_loop, UNCHANGED api
  PROVE  IInv'
<1>1. LoopInv' /\ FilesInv'
  BY LoopInvStep, FilesInvStep DEF IInv
<1>2. TypeOK'
  BY <1>1 DEF IInv, TypeOK, UnderWay, api, LoopInv
<1>3. CacheInv'
  BY CacheKept DEF CacheInv, api
<1>4. \A q \in Requests : RequestInv(q)'
  BY RequestKept DEF api
<1> QED
  BY <1>1, <1>2, <1>3, <1>4 DEF IInv

\* A step of the API: trainings and files stay, the rest is its own.
LEMMA ApiKeeps ==
  ASSUME IInv, UNCHANGED loop
  PROVE  /\ LoopInv' /\ LoopTypeOK' /\ FilesInv'
         /\ \A m, p : ReadsInv(m, p) => ReadsInv(m, p)'
<1>1. LoopInv' /\ FilesInv'
  BY LoopInvStep, FilesInvStep DEF IInv
<1>2. \A m, p : ReadsInv(m, p) => ReadsInv(m, p)'
  BY DEF loop, ReadsInv, WasBest
<1> QED
  BY <1>1, <1>2 DEF LoopInv

LEMMA ResolveKeeps ==
  ASSUME IInv, NEW q \in Requests, Resolve(q) \/ NotFound(q)
  PROVE  IInv'
<1>1. UNCHANGED loop /\ cache' = cache /\ lock' = lock /\ loaded' = loaded
  BY DEF Resolve, NotFound
<1>2. /\ state'[q] \in {"resolved", "over"} /\ loaded[q] = <<>>
      /\ state'[q] = "resolved" =>
           asks'[q] \in Paths /\ floor'[q] = saves[asks'[q]] /\ floor'[q] > 0
  BY DEF IInv, TypeOK, RequestInv, Resolve, NotFound, Goto
<1>3. TypeOK'
  <2>1. state' \in [Requests -> {"new", "resolved", "looking", "loading", "predicting", "over"}]
    BY DEF IInv, TypeOK, Resolve, NotFound, Goto
  <2>2. asks' \in [Requests -> Paths \cup {Nobody}] /\ floor' \in [Requests -> Nat]
    <3>1. /\ asks \in [Requests -> Paths \cup {Nobody}] /\ floor \in [Requests -> Nat]
          /\ saves \in [Paths -> Nat]
      BY DEF IInv, LoopInv, LoopTypeOK, TypeOK
    <3> QED
      BY <3>1 DEF Resolve, NotFound
  <2>3. \A o \in Requests : UnderWay(o)' => asks'[o] \in Paths
    BY <1>2 DEF IInv, TypeOK, UnderWay, Resolve, NotFound, Goto
  <2> QED
    BY <1>1, <2>1, <2>2, <2>3, ApiKeeps DEF IInv, TypeOK, Resolve, NotFound
<1>4. RequestInv(q)'
  <2>1. state'[q] = "resolved" => floor'[q] \in 1 .. saves'[asks'[q]]
    BY <1>1, <1>2 DEF loop, IInv, LoopInv, LoopTypeOK
  <2> QED
    BY <1>1, <1>2, <2>1 DEF RequestInv, Inside
<1>5. \A o \in Requests \ {q} : RequestInv(o)'
  <2> SUFFICES ASSUME NEW o \in Requests \ {q}
               PROVE  RequestInv(o)'
    OBVIOUS
  <2>1. /\ state'[o] = state[o] /\ asks'[o] = asks[o] /\ floor'[o] = floor[o]
    BY DEF IInv, TypeOK, Resolve, NotFound, Goto
  <2> QED
    BY <1>1, <2>1, RequestKept
<1>6. CacheInv'
  BY <1>1, CacheKept DEF CacheInv
<1> QED
  BY <1>1, <1>3, <1>4, <1>5, <1>6, ApiKeeps DEF IInv

\* Only the holder of the lock is between lock and unlock.
LEMMA LockedOut ==
  ASSUME IInv, NEW q \in Requests, Acquire(q) \/ Inside(q), NEW o \in Requests \ {q}
  PROVE  ~Inside(o)
<1>1. lock \in {q, Nobody} /\ Nobody # o
  BY ServingAssumption DEF ServingAssumption, IInv, RequestInv, Acquire, LockHeld
<1> QED
  BY <1>1 DEF IInv, RequestInv

\* What an answering request touches.
LEMMA AnswerTouches ==
  ASSUME IInv, NEW q \in Requests, Answer(q)
  PROVE  /\ UNCHANGED loop
         /\ UnderWay(q) /\ asks[q] \in Paths
         /\ \A o \in Requests \ {q} : /\ state'[o] = state[o] /\ asks'[o] = asks[o]
                                      /\ loaded'[o] = loaded[o] /\ floor'[o] = floor[o]
         /\ ~Acquire(q) /\ ~Inside(q) => lock' = lock /\ cache' = cache
<1>1. UNCHANGED loop
  BY DEF Answer, Acquire, Hit, Miss, Direct, Load, ReadPiece, LoadError, Insert, UseOnce, Respond
<1>2. UnderWay(q)
  BY DEF Answer, Acquire, Hit, Miss, Direct, Load, Reading, ReadPiece, LoadError, Insert, UseOnce,
         Respond, Goto, UnderWay
<1>3. ASSUME NEW o \in Requests \ {q}
      PROVE  /\ state'[o] = state[o] /\ asks'[o] = asks[o]
             /\ loaded'[o] = loaded[o] /\ floor'[o] = floor[o]
  <2>1. CASE LoadError(q) \/ Respond(q)
    BY <2>1 DEF IInv, TypeOK, LoadError, Respond, Forget, Goto
  <2>2. CASE ~LoadError(q) /\ ~Respond(q)
    BY <2>2 DEF IInv, TypeOK, Answer, Acquire, Hit, Miss, Direct, Load, ReadPiece, Insert, UseOnce, Goto
  <2> QED
    BY <2>1, <2>2
<1>4. ASSUME ~Acquire(q), ~Inside(q)
      PROVE  lock' = lock /\ cache' = cache
  BY <1>4 DEF Inside, Answer, Hit, Miss, Direct, Load, ReadPiece, LoadError, Insert, UseOnce, Respond,
              UsesCache, Goto
<1> QED
  BY <1>1, <1>2, <1>3, <1>4 DEF IInv, TypeOK

\* A piece read is well typed and explained.
LEMMA PieceRead ==
  ASSUME IInv, NEW q \in Requests, ReadPiece(q)
  PROVE  /\ loaded' \in [Requests -> Seq(ReadPieces)]
         /\ ReadsInv(loaded'[q], asks[q])
         /\ asks[q] \notin Cached =>
              \A i \in 1 .. Len(loaded'[q]) : loaded'[q][i].stamp >= floor[q]
<1> DEFINE p == asks[q]
           k == NextPiece(q)
           x == [run |-> file[p][k].run, epoch |-> file[p][k].epoch, stamp |-> saves[p]]
<1>1. /\ p \in Paths /\ state[q] = "loading" /\ loaded[q] \in Seq(ReadPieces)
      /\ Len(loaded[q]) < Last /\ InFile(p, k)
      /\ loaded' = [loaded EXCEPT ![q] = Append(@, x)]
  BY DEF IInv, TypeOK, UnderWay, ReadPiece, Reading
<1>2. RequestInv(q) /\ ReadsInv(loaded[q], p) /\ floor[q] \in 1 .. saves[p]
  BY <1>1 DEF IInv, RequestInv
<1>3. k \in 1 .. Last /\ saves[p] \in Nat /\ saves[p] > 0 /\ Len(loaded[q]) \in Nat
  <2>1. Len(loaded[q]) \in Nat /\ (loaded[q] # <<>> => Len(loaded[q]) > 0)
    BY <1>1
  <2> QED
    BY <1>1, <1>2, <2>1, LoopAssumption DEF LoopAssumption, IInv, LoopInv, LoopTypeOK, NextPiece
<1>4. loaded'[q] = Append(loaded[q], x)
  BY <1>1 DEF IInv, TypeOK
<1> HIDE DEF k
<1>5. ReadsInv(Append(loaded[q], x), p)
  BY <1>1, <1>2, <1>3, ReadOn DEF IInv
<1>6. x.stamp = saves[p]
  OBVIOUS
<1> HIDE DEF x
<1>7. Append(loaded[q], x) \in Seq(ReadPieces)
  BY <1>5 DEF ReadsInv
<1>8. loaded' \in [Requests -> Seq(ReadPieces)]
  BY <1>1, <1>7 DEF IInv, TypeOK
<1>9. ASSUME p \notin Cached, NEW i \in 1 .. Len(loaded'[q])
      PROVE  loaded'[q][i].stamp >= floor[q]
  <2>1. CASE i = Len(loaded[q]) + 1
    <3>1. loaded'[q][i] = x
      BY <1>1, <1>4, <2>1
    <3> QED
      BY <1>2, <1>3, <1>6, <3>1
  <2>2. CASE i # Len(loaded[q]) + 1
    <3>1. i \in 1 .. Len(loaded[q]) /\ loaded'[q][i] = loaded[q][i]
      BY <1>1, <1>4, <1>9, <2>2
    <3> QED
      BY <1>1, <1>2, <1>9, <3>1 DEF RequestInv
  <2> QED
    BY <2>1, <2>2
<1> QED
  BY <1>4, <1>5, <1>8, <1>9

LEMMA AnswerTypes ==
  ASSUME IInv, NEW q \in Requests, Answer(q)
  PROVE  TypeOK'
<1>1. UNCHANGED loop /\ asks[q] \in Paths /\ UnderWay(q) /\ LoopTypeOK'
  BY AnswerTouches, ApiKeeps
<1>2. state' \in [Requests -> {"new", "resolved", "looking", "loading", "predicting", "over"}]
  BY DEF IInv, TypeOK, Answer, Acquire, Hit, Miss, Direct, Load, ReadPiece, LoadError, Insert, UseOnce,
         Respond, Goto
<1>3. loaded' \in [Requests -> Seq(ReadPieces)]
  <2>1. CASE ReadPiece(q)
    BY <2>1, PieceRead
  <2>2. CASE ~ReadPiece(q)
    <3>1. /\ loaded \in [Requests -> Seq(ReadPieces)] /\ cache[asks[q]] \in Seq(ReadPieces)
          /\ <<>> \in Seq(ReadPieces)
      BY <1>1 DEF IInv, TypeOK
    <3>2. \/ loaded' = loaded
          \/ loaded' = [loaded EXCEPT ![q] = cache[asks[q]]]
          \/ loaded' = [o \in Requests |-> IF o \in {q} THEN <<>> ELSE loaded[o]]
      BY <2>2 DEF Answer, Acquire, Hit, Miss, Direct, Load, LoadError, Insert, UseOnce, Respond, Forget
    <3> QED
      BY <3>1, <3>2
  <2> QED
    BY <2>1, <2>2
<1>4. /\ asks' \in [Requests -> Paths \cup {Nobody}] /\ floor' \in [Requests -> Nat]
      /\ \A o \in Requests : UnderWay(o)' => asks'[o] \in Paths
  <2>1. CASE LoadError(q) \/ Respond(q)
    <3>1. \A o \in Requests \ {q} : state'[o] = state[o] /\ asks'[o] = asks[o]
      BY AnswerTouches
    <3>2. ~UnderWay(q)'
      BY <2>1 DEF LoadError, Respond, Goto, UnderWay, IInv, TypeOK
    <3>3. Forget({q})
      BY <2>1 DEF LoadError, Respond
    <3>4. asks' \in [Requests -> Paths \cup {Nobody}] /\ floor' \in [Requests -> Nat]
      BY <3>3 DEF Forget, IInv, TypeOK
    <3> QED
      BY <3>1, <3>2, <3>4 DEF UnderWay, IInv, TypeOK
  <2>2. CASE ~LoadError(q) /\ ~Respond(q)
    <3>1. asks' = asks /\ floor' = floor
      BY <2>2 DEF Answer, Acquire, Hit, Miss, Direct, Load, ReadPiece, Insert, UseOnce
    <3>2. \A o \in Requests \ {q} : state'[o] = state[o]
      BY AnswerTouches
    <3> QED
      BY <1>1, <3>1, <3>2 DEF IInv, TypeOK, UnderWay
  <2> QED
    BY <2>1, <2>2
<1>5. lock' \in Requests \cup {Nobody}
  BY DEF IInv, TypeOK, Answer, Acquire, Hit, Miss, Direct, Load, ReadPiece, LoadError, LockAfterError,
         Insert, UseOnce, Respond
<1>6. cache' \in [Paths -> Seq(ReadPieces)]
  BY <1>1 DEF IInv, TypeOK, Answer, Acquire, Hit, Miss, Direct, Load, ReadPiece, LoadError, Insert,
              UseOnce, Respond
<1> QED
  BY <1>1, <1>2, <1>3, <1>4, <1>5, <1>6 DEF TypeOK

\* The request that steps.
LEMMA AnswererKeeps ==
  ASSUME IInv, NEW q \in Requests, Answer(q)
  PROVE  CacheInv' /\ RequestInv(q)'
<1> DEFINE p == asks[q]
<1>1. UNCHANGED loop /\ p \in Paths /\ RequestInv(q) /\ CacheInv
  BY AnswerTouches DEF IInv
<1>2. \A m, o : ReadsInv(m, o) => ReadsInv(m, o)'
  BY <1>1, ApiKeeps
<1>3. /\ saves' = saves
      /\ Acquire(q) \/ Hit(q) \/ Miss(q) \/ Direct(q) \/ ReadPiece(q) \/ Insert(q) \/ UseOnce(q)
           => asks'[q] = p /\ floor'[q] = floor[q]
  BY <1>1 DEF loop, Acquire, Hit, Miss, Direct, ReadPiece, Insert, UseOnce
<1>4. cache' = cache => CacheInv'
  BY <1>1, <1>2 DEF CacheInv
<1>5. CASE Acquire(q)
  BY <1>1, <1>3, <1>4, <1>5 DEF Acquire, UsesCache, Goto, IInv, TypeOK, RequestInv, Inside
<1>6. CASE Hit(q)
  <2>1. /\ state'[q] = "predicting" /\ loaded'[q] = cache[p] /\ cache' = cache
        /\ p \in Cached /\ cache[p] # <<>>
    BY <1>1, <1>6 DEF Hit, Goto, IInv, TypeOK, RequestInv
  <2>2. ReadsInv(cache[p], p)' /\ Len(cache[p]) = Last
    BY <1>1, <1>2, <1>3, <1>6, <2>1 DEF CacheInv
  <2> QED
    BY <1>3, <1>4, <1>6, <2>1, <2>2 DEF RequestInv, Inside
<1>7. CASE Miss(q) \/ Direct(q)
  <2>1. /\ state'[q] = "loading" /\ loaded'[q] = <<>> /\ cache' = cache /\ lock' = lock
        /\ floor[q] \in 1 .. saves[p] /\ (p \in Cached => lock = q /\ cache[p] = <<>>)
    BY <1>1, <1>7 DEF Miss, Direct, UsesCache, Goto, IInv, TypeOK, RequestInv, Inside
  <2>2. ReadsInv(<<>>, p)'
    BY <1>1, <1>2, <1>3, <1>7, NothingRead
  <2> QED
    BY <1>3, <1>4, <1>7, <2>1, <2>2 DEF RequestInv, Inside
<1>8. CASE ReadPiece(q)
  <2>1. /\ state' = state /\ state[q] = "loading" /\ cache' = cache /\ lock' = lock
        /\ floor[q] \in 1 .. saves[p] /\ (p \in Cached => lock = q /\ cache[p] = <<>>)
    BY <1>1, <1>8 DEF ReadPiece, Reading, RequestInv, Inside
  <2>2. PICK m, o : m = loaded'[q] /\ o = p
    OBVIOUS
  <2>3. ReadsInv(m, o) /\ (p \notin Cached => \A i \in 1 .. Len(m) : m[i].stamp >= floor[q])
    BY <1>8, <2>2, PieceRead
  <2>4. ReadsInv(loaded[q], asks[q])'
    BY <1>2, <1>3, <1>8, <2>2, <2>3
  <2> QED
    BY <1>3, <1>4, <1>8, <2>1, <2>2, <2>3, <2>4 DEF RequestInv, Inside
<1>9. CASE LoadError(q) \/ Respond(q)
  <2>1. state'[q] = "over" /\ loaded'[q] = <<>> /\ cache' = cache
    BY <1>9 DEF LoadError, Respond, Forget, Goto, IInv, TypeOK
  <2> QED
    BY <1>4, <2>1 DEF RequestInv, Inside
<1>10. CASE Insert(q) \/ UseOnce(q)
  <2>1. /\ state'[q] = "predicting" /\ loaded' = loaded /\ ReadsInv(loaded[q], p) /\ Len(loaded[q]) = Last
        /\ cache' = cache \/ cache' = [cache EXCEPT ![p] = loaded[q]]
        /\ p \notin Cached => \A i \in 1 .. Len(loaded[q]) : loaded[q][i].stamp >= floor[q]
    BY <1>1, <1>10 DEF Insert, UseOnce, UsesCache, Goto, IInv, TypeOK, RequestInv
  <2>2. ReadsInv(loaded[q], p)'
    BY <1>1, <1>2, <1>3, <1>10, <2>1
  <2>3. CacheInv'
    BY <1>1, <1>2, <1>3, <1>4, <1>10, <2>1, <2>2 DEF IInv, TypeOK, CacheInv
  <2> QED
    BY <1>3, <1>10, <2>1, <2>2, <2>3 DEF RequestInv, Inside
<1> QED
  BY <1>5, <1>6, <1>7, <1>8, <1>9, <1>10 DEF Answer, Load

LEMMA AnswerKeeps ==
  ASSUME IInv, NEW q \in Requests, Answer(q)
  PROVE  IInv'
<1>1. LoopInv' /\ FilesInv'
  BY AnswerTouches, ApiKeeps
<1>2. ASSUME NEW o \in Requests \ {q}
      PROVE  RequestInv(o)'
  <2>1. Inside(o) => lock' = lock /\ cache' = cache
    BY AnswerTouches, LockedOut
  <2> QED
    BY <2>1, AnswerTouches, RequestKept
<1> QED
  BY <1>1, <1>2, AnswerTypes, AnswererKeeps DEF IInv

LEMMA RestartKeeps ==
  ASSUME IInv, Restart
  PROVE  IInv'
<1>1. UNCHANGED loop /\ cache' = [p \in Paths |-> <<>>] /\ lock' = Nobody
  BY DEF Restart
<1>2. LoopInv' /\ LoopTypeOK' /\ FilesInv'
  BY <1>1, ApiKeeps
<1>3. ASSUME NEW q \in Requests
      PROVE  state'[q] \in {"new", "over"} /\ (state'[q] = "new" => loaded'[q] = <<>>)
  BY DEF Restart, Forget, UnderWay, IInv, TypeOK, RequestInv
<1>4. TypeOK'
  <2>1. state' \in [Requests -> {"new", "resolved", "looking", "loading", "predicting", "over"}]
    BY <1>3 DEF Restart
  <2>2. loaded' \in [Requests -> Seq(ReadPieces)] /\ cache' \in [Paths -> Seq(ReadPieces)]
    <3>1. <<>> \in Seq(ReadPieces)
      OBVIOUS
    <3> QED
      BY <1>1, <3>1 DEF Restart, Forget, IInv, TypeOK
  <2>3. asks' \in [Requests -> Paths \cup {Nobody}] /\ floor' \in [Requests -> Nat]
    BY DEF Restart, Forget, IInv, TypeOK
  <2> QED
    BY <1>1, <1>2, <1>3, <2>1, <2>2, <2>3 DEF TypeOK, UnderWay
<1>5. \A q \in Requests : RequestInv(q)'
  BY <1>3 DEF RequestInv, Inside
<1>6. CacheInv'
  BY <1>1 DEF CacheInv
<1> QED
  BY <1>2, <1>4, <1>5, <1>6 DEF IInv

LEMMA IInvStep == IInv /\ [Next]_vars => IInv'
<1> SUFFICES ASSUME IInv, [Next]_vars
             PROVE  IInv'
  OBVIOUS
<1>1. CASE UNCHANGED vars
  BY <1>1, TrainingKeeps DEF vars
<1>2. CASE LoopNext /\ UNCHANGED api
  BY <1>2, TrainingKeeps
<1>3. ASSUME NEW q \in Requests, Resolve(q) \/ NotFound(q) \/ Answer(q)
      PROVE  IInv'
  BY <1>3, ResolveKeeps, AnswerKeeps
<1>4. CASE Restart
  BY <1>4, RestartKeeps
<1> QED
  BY <1>1, <1>2, <1>3, <1>4 DEF Next

LEMMA Inductive == Spec => []IInv
<1> QED
  BY IInvInit, IInvStep, PTL DEF Spec

-----------------------------------------------------------------------------
(* What the module promises.                                               *)

\* Every variable keeps its type; in particular no run counts more idle
\* epochs than its patience.
THEOREM TypeCorrect == Spec => []TypeOK
<1>1. IInv => TypeOK
  BY DEF IInv
<1> QED
  BY <1>1, Inductive, PTL

\* A training that returns leaves its best epoch whole on disk (do_training,
\* train_informer.py), however the pieces of its saves are written beside what
\* other runs and the API do.
THEOREM BestIsOnDisk == Spec => []ReturnedBestIsOnDisk
<1>1. IInv => ReturnedBestIsOnDisk
  <2>1. SUFFICES ASSUME IInv, NEW r \in Runs, pc[r] = "returned", Alone(r)
                 PROVE  \/ \E k \in 1 .. Len(val_losses[r]) :
                             /\ BestEpoch(val_losses[r], k)
                             /\ best[r] = [loss |-> val_losses[r][k], epoch |-> k]
                             /\ file[pathOf[r]] = [i \in 1 .. Last |-> Saved(r, k)]
                        \/ /\ \A k \in 1 .. Len(val_losses[r]) : val_losses[r][k] = NoNumber
                           /\ saves[pathOf[r]] = 0
    BY DEF ReturnedBestIsOnDisk
  <2>2. /\ Tracks(best[r], val_losses[r])
        /\ best[r] \in [loss : Losses \cup {NoNumber}, epoch : Nat]
        /\ IF best[r].epoch = 0 THEN saves[pathOf[r]] = 0
           ELSE file[pathOf[r]] = [i \in 1 .. Last |-> Saved(r, best[r].epoch)]
    BY <2>1, LoopTypes DEF IInv, LoopInv, RunOK, Progress, FileOK
  <2>3. CASE best[r].epoch = 0
    BY <2>2, <2>3 DEF Tracks
  <2>4. CASE best[r].epoch # 0
    <3> DEFINE k == best[r].epoch
    <3>1. k \in 1 .. Len(val_losses[r]) /\ BestEpoch(val_losses[r], k) /\ val_losses[r][k] = best[r].loss
      BY <2>2, <2>4, LoopTypes DEF Tracks, IInv, LoopInv
    <3>2. best[r] = [loss |-> val_losses[r][k], epoch |-> k]
      BY <2>2, <3>1
    <3> QED
      BY <2>2, <2>4, <3>1, <3>2
  <2> QED
    BY <2>3, <2>4
<1> QED
  BY <1>1, Inductive, PTL

\* Early stopping is exact (do_training).
THEOREM EarlyStopping == Spec => []StopsWhenOutOfPatience
<1>1. IInv => StopsWhenOutOfPatience
  <2>1. SUFFICES ASSUME IInv, NEW r \in Runs
                 PROVE  /\ \A m \in 1 .. Len(val_losses[r]) - 1 : ~OutOfPatience(val_losses[r], m)
                        /\ pc[r] = "returned" =>
                             \/ Len(val_losses[r]) = Epochs[r]
                             \/ OutOfPatience(val_losses[r], Len(val_losses[r]))
    BY DEF StopsWhenOutOfPatience
  <2>2. RunOK(r) /\ LoopTypeOK
    BY <2>1 DEF IInv, LoopInv
  <2>3. ASSUME pc[r] = "returned", Len(val_losses[r]) # Epochs[r]
        PROVE  OutOfPatience(val_losses[r], Len(val_losses[r]))
    <3>1. /\ Tracks(best[r], val_losses[r]) /\ Len(val_losses[r]) > 0
          /\ Len(val_losses[r]) - best[r].epoch >= Patience
      BY <2>2, <2>3 DEF RunOK, Progress
    <3> QED
      BY <2>2, <3>1, LoopTypes, PatienceByBest
  <2> QED
    BY <2>2, <2>3 DEF RunOK, Progress
<1> QED
  BY <1>1, Inductive, PTL

\* A model torn by saves it overlaps is all that can go wrong: however torch.load
\* and torch.save interleave on one file, every piece read of a save that began
\* alone is of that save's best epoch (_get_cached_informer,
\* predict_testmodel_api, predict_autoformer_api; do_training).
THEOREM TearsExplained == Spec => []TornOnlyByOverlap
<1>1. ASSUME NEW m, NEW p, ReadsInv(m, p), Len(m) = Last
      PROVE  MixedBySavesOnly(m, p)
  BY <1>1 DEF ReadsInv, MixedBySavesOnly
<1>2. IInv => TornOnlyByOverlap
  BY <1>1 DEF IInv, RequestInv, CacheInv, TornOnlyByOverlap
<1> QED
  BY <1>2, Inductive, PTL

\* Requests that load their model read nothing older than the checkpoint of
\* their arrival (predict_testmodel_api, predict_autoformer_api).
THEOREM NothingElseIsStale == Spec => []StaleOnlyFromMemory
<1>1. IInv => StaleOnlyFromMemory
  BY DEF IInv, RequestInv, StaleOnlyFromMemory
<1> QED
  BY <1>1, Inductive, PTL

\* A cached model is never replaced by another while the process lives
\* (_get_cached_informer).
THEOREM CacheIsStable == Spec => OneModelPerProcess
<1>1. IInv /\ [Next]_vars =>
        [\A p \in Paths : cache[p] # <<>> => cache'[p] = cache[p] \/ Restart]_vars
  <2> SUFFICES ASSUME IInv, Next, NEW p \in Paths, cache[p] # <<>>,
                      ~Restart
               PROVE  cache'[p] = cache[p]
    OBVIOUS
  <2>1. CASE LoopNext /\ UNCHANGED api
    BY <2>1 DEF api
  <2>2. ASSUME NEW q \in Requests, Resolve(q) \/ NotFound(q) \/ Answer(q)
        PROVE  cache'[p] = cache[p]
    <3>1. CASE Insert(q)
      BY <3>1 DEF Insert, UsesCache, Goto, IInv, RequestInv, TypeOK
    <3> QED
      BY <2>2, <3>1 DEF Resolve, NotFound, Answer, Acquire, Hit, Miss, Direct, Load, ReadPiece,
                        LoadError, UseOnce, Respond
  <2> QED
    BY <2>1, <2>2 DEF Next
<1> QED
  BY <1>1, Inductive, PTL DEF Spec, OneModelPerProcess
=============================================================================
