---------------------------- MODULE TrainingLoop ----------------------------
(***************************************************************************)
(* do_training of the three trainers: epochs, validation losses, early     *)
(* stopping, and the checkpoint torch.save overwrites in place.  A run     *)
(* with a ModelInfoID owns its directory; `valeo-pdm train' without one    *)
(* writes the default checkpoint of its scenario and model type, which     *)
(* nothing guards: runs there may follow or overlap each other.            *)
(*                                                                         *)
(* A checkpoint is a zip archive, written piece by piece into the emptied  *)
(* file, its directory last.  A piece is where it is in every archive of   *)
(* the same layout, so that two saves at once mix.                         *)
(*                                                                         *)
(* `shared' is a history variable: no guard reads it.                      *)
(***************************************************************************)
EXTENDS Naturals, Sequences

CONSTANTS
  Runs,
  Paths,       \* checkpoint files
  Placements,  \* the file each run writes, possible choices
  Losses,      \* validation losses that are finite numbers
  NoNumber,    \* NaN, an infinite loss, and best_val before the first epoch
  Epochs,      \* epochs of each run
  Patience,
  Last         \* pieces of an archive; the last one is its directory

\* A training plan has a patience of at least one (_validate_train_params).
ASSUME LoopAssumption ==
  /\ Placements \subseteq [Runs -> Paths]
  /\ Losses \subseteq Nat
  /\ NoNumber \notin Losses
  /\ Epochs \in [Runs -> Nat \ {0}]
  /\ Patience \in Nat \ {0}
  /\ Last \in Nat \ {0}

VARIABLES
  pathOf,      \* the checkpoint each run writes; never changes
  pc,          \* where each run is
  val_losses,  \* the list of the same name
  best,        \* (best_val, its epoch)
  no_improve,
  written,     \* pieces of its save under way that each run has written
  file,        \* what is in each checkpoint file
  saves,       \* saves begun on each file; there is no file before the first
  shared       \* history: those of them begun while another was under way

loop == <<pathOf, pc, val_losses, best, no_improve, written, file, saves, shared>>

\* The epoch a piece was saved in; bytes nobody has written since the file was
\* emptied are a hole.
Piece   == [run : Runs \cup {NoNumber}, epoch : Nat]
Content == [1 .. Last -> Piece]
Hole    == [run |-> NoNumber, epoch |-> 0]
Saved(r, epoch) == [run |-> r, epoch |-> epoch]

\* Mutant: a save writes over what is there.
NotEmptied(p) == file[p]

\* torch.save opens the file for writing.
Emptied(p) == [i \in 1 .. Last |-> Hole]

LoopInit ==
  /\ pathOf \in Placements
  /\ pc = [r \in Runs |-> "waiting"]
  /\ val_losses = [r \in Runs |-> <<>>]
  /\ best = [r \in Runs |-> [loss |-> NoNumber, epoch |-> 0]]
  /\ no_improve = [r \in Runs |-> 0]
  /\ written = [r \in Runs |-> 0]
  /\ file = [p \in Paths |-> [i \in 1 .. Last |-> Hole]]
  /\ saves = [p \in Paths |-> 0]
  /\ shared = [p \in Paths |-> {}]

Start(r) ==
  /\ pc[r] = "waiting"
  /\ pc' = [pc EXCEPT ![r] = "training"]
  /\ UNCHANGED <<pathOf, val_losses, best, no_improve, written, file, saves, shared>>

\* Mutant: a loss that is no number counts as an improvement (not loss >= best).
NotWorse(loss, than) == loss # NoNumber /\ than # NoNumber => loss < than

\* val_loss < best_val: no comparison with NaN holds, and best_val is infinite
\* at first.
Improves(loss, than) == loss # NoNumber /\ (than # NoNumber => loss < than)

\* Mutant: one epoch too late.
EndsLate(r, epochs, idle) == epochs = Epochs[r] \/ idle > Patience

\* The loop is over after that many epochs, the last `idle' without progress.
Ends(r, epochs, idle) == epochs = Epochs[r] \/ idle >= Patience

AfterEpoch(r, epochs, idle) == IF Ends(r, epochs, idle) THEN "returned" ELSE "training"

\* Another run is in the middle of a save to the file of r.
Contended(r) == \E s \in Runs \ {r} : pathOf[s] = pathOf[r] /\ pc[s] = "saving"

\* One epoch: training, validation, and the start of a save if it improved.
ImprovingEpoch(r) ==
  LET p == pathOf[r]
  IN /\ pc[r] = "training"
     /\ \E loss \in Losses \cup {NoNumber} :
          /\ Improves(loss, best[r].loss)
          /\ val_losses' = [val_losses EXCEPT ![r] = Append(@, loss)]
          /\ best' = [best EXCEPT ![r] = [loss |-> loss, epoch |-> Len(val_losses[r]) + 1]]
     /\ file' = [file EXCEPT ![p] = Emptied(p)]
     /\ written' = [written EXCEPT ![r] = 0]
     /\ saves' = [saves EXCEPT ![p] = @ + 1]
     /\ shared' = [shared EXCEPT ![p] = IF Contended(r) THEN @ \cup {saves[p] + 1} ELSE @]
     /\ pc' = [pc EXCEPT ![r] = "saving"]
     /\ UNCHANGED <<pathOf, no_improve>>

IdleEpoch(r) ==
  /\ pc[r] = "training"
  /\ \E loss \in Losses \cup {NoNumber} :
       /\ ~Improves(loss, best[r].loss)
       /\ val_losses' = [val_losses EXCEPT ![r] = Append(@, loss)]
  /\ no_improve' = [no_improve EXCEPT ![r] = @ + 1]
  /\ pc' = [pc EXCEPT ![r] = AfterEpoch(r, Len(val_losses[r]) + 1, no_improve[r] + 1)]
  /\ UNCHANGED <<pathOf, best, written, file, saves, shared>>

\* The next piece, wherever the file has been emptied or written by others.
Write(r) ==
  /\ pc[r] = "saving"
  /\ file' = [file EXCEPT ![pathOf[r]][written[r] + 1] = Saved(r, best[r].epoch)]
  /\ written' = [written EXCEPT ![r] = @ + 1]

WritePiece(r) ==
  /\ Write(r)
  /\ written[r] + 1 < Last
  /\ UNCHANGED <<pathOf, pc, val_losses, best, no_improve, saves, shared>>

\* The directory is written and torch.save returns.
FinishSave(r) ==
  /\ Write(r)
  /\ written[r] + 1 = Last
  /\ no_improve' = [no_improve EXCEPT ![r] = 0]
  /\ pc' = [pc EXCEPT ![r] = AfterEpoch(r, Len(val_losses[r]), 0)]
  /\ UNCHANGED <<pathOf, val_losses, best, saves, shared>>

\* An exception, a full disk or a killed process, the file left as it is.
Stop(r) ==
  /\ pc[r] \in {"training", "saving"}
  /\ pc' = [pc EXCEPT ![r] = "stopped"]
  /\ UNCHANGED <<pathOf, val_losses, best, no_improve, written, file, saves, shared>>

RunStep(r) ==
  Start(r) \/ ImprovingEpoch(r) \/ IdleEpoch(r) \/ WritePiece(r) \/ FinishSave(r)

LoopNext == \E r \in Runs : RunStep(r) \/ Stop(r)

LoopSpec == LoopInit /\ [][LoopNext]_loop

-----------------------------------------------------------------------------
LoopTypeOK ==
  /\ pathOf \in Placements
  /\ pc \in [Runs -> {"waiting", "training", "saving", "returned", "stopped"}]
  /\ val_losses \in [Runs -> Seq(Losses \cup {NoNumber})]
  /\ best \in [Runs -> [loss : Losses \cup {NoNumber}, epoch : Nat]]
  /\ no_improve \in [Runs -> 0 .. Patience]
  /\ written \in [Runs -> 0 .. Last]
  /\ file \in [Paths -> Content]
  /\ saves \in [Paths -> Nat]
  /\ shared \in [Paths -> SUBSET Nat]

\* Epoch k had a loss below every loss before it: the improvements of a run,
\* told from its list of losses alone.
Improvement(losses, k) ==
  losses[k] # NoNumber /\ \A i \in 1 .. k - 1 : losses[i] = NoNumber \/ losses[k] < losses[i]

\* Epoch k is the one to keep: the first of the smallest losses.
BestEpoch(losses, k) ==
  losses[k] # NoNumber /\
    \A i \in 1 .. Len(losses) :
      losses[i] = NoNumber \/ losses[k] < losses[i] \/ (losses[k] = losses[i] /\ k <= i)

Alone(r) == \A s \in Runs \ {r} : pathOf[s] = pathOf[r] => pc[s] = "waiting"

\* A run that returns leaves the weights of its best epoch whole in the file,
\* or no file when no epoch had a number for a loss: the metrics it returns are
\* those of what POST /predict will load.
ReturnedBestIsOnDisk ==
  \A r \in Runs :
    pc[r] = "returned" /\ Alone(r) =>
      \/ \E k \in 1 .. Len(val_losses[r]) :
           /\ BestEpoch(val_losses[r], k)
           /\ best[r] = [loss |-> val_losses[r][k], epoch |-> k]
           /\ file[pathOf[r]] = [i \in 1 .. Last |-> Saved(r, k)]
      \/ /\ \A k \in 1 .. Len(val_losses[r]) : val_losses[r][k] = NoNumber
         /\ saves[pathOf[r]] = 0

\* The last Patience epochs of the first n bring no improvement.
OutOfPatience(losses, n) ==
  /\ n >= Patience
  /\ \A k \in (n - Patience + 1) .. n : ~Improvement(losses, k)

\* Early stopping ends a run at the first moment it is out of patience, NaN
\* losses included, and never earlier.
StopsWhenOutOfPatience ==
  \A r \in Runs :
    LET losses == val_losses[r]  n == Len(losses)
    IN /\ \A m \in 1 .. n - 1 : ~OutOfPatience(losses, m)
       /\ pc[r] = "returned" => n = Epochs[r] \/ OutOfPatience(losses, n)
=============================================================================
