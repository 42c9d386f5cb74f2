------------------------------ MODULE Serving -------------------------------
(***************************************************************************)
(* POST /measPredict/predict beside running trainings.  Handlers run in    *)
(* threads of one API process.  Informer checkpoints are loaded once into  *)
(* _MODEL_CACHE, under _CACHE_LOCK, and kept until the process ends; the   *)
(* other model types load their checkpoint on every request.  torch.load   *)
(* reads an archive piece by piece, its directory first, and checks no     *)
(* checksums; a training may empty and rewrite the file meanwhile.         *)
(*                                                                         *)
(* `floor' is a history variable: no guard reads it.                       *)
(***************************************************************************)
EXTENDS TrainingLoop

CONSTANTS
  Requests,
  Cached,      \* the checkpoints of Informers
  Nobody

ASSUME ServingAssumption ==
  /\ Cached \subseteq Paths
  /\ Nobody \notin Requests

VARIABLES
  state,     \* progress of each request; "over" once answered or refused
  asks,      \* the checkpoint it resolved to
  loaded,    \* the pieces of a checkpoint it has in hand, in the order of reading
  lock,      \* who holds _CACHE_LOCK
  cache,     \* _MODEL_CACHE
  floor      \* history: saves begun on its checkpoint when it was resolved

api  == <<state, asks, loaded, lock, cache, floor>>
vars == <<loop, api>>

Init ==
  /\ LoopInit
  /\ state = [q \in Requests |-> "new"]
  /\ asks = [q \in Requests |-> Nobody]
  /\ loaded = [q \in Requests |-> <<>>]
  /\ lock = Nobody
  /\ cache = [p \in Paths |-> <<>>]
  /\ floor = [q \in Requests |-> 0]

Goto(q, from, to) == state[q] = from /\ state' = [state EXCEPT ![q] = to]

\* Nothing is left of requests that are over.
Forget(over) ==
  /\ asks' = [q \in Requests |-> IF q \in over THEN Nobody ELSE asks[q]]
  /\ loaded' = [q \in Requests |-> IF q \in over THEN <<>> ELSE loaded[q]]
  /\ floor' = [q \in Requests |-> IF q \in over THEN 0 ELSE floor[q]]

\* _resolve_prediction_plan asks only whether the file exists.
Resolve(q) ==
  /\ Goto(q, "new", "resolved")
  /\ \E p \in Paths :
       /\ saves[p] > 0
       /\ asks' = [asks EXCEPT ![q] = p]
       /\ floor' = [floor EXCEPT ![q] = saves[p]]
  /\ UNCHANGED <<loop, loaded, lock, cache>>

\* 404 MODEL_FILE_NOT_FOUND
NotFound(q) ==
  /\ Goto(q, "new", "over")
  /\ \E p \in Paths : saves[p] = 0
  /\ UNCHANGED <<loop, asks, loaded, lock, cache, floor>>

\* Mutant: only the dictionary is guarded, not the load.
LockTaken(q) == FALSE

\* Another thread is inside _get_cached_informer.
LockHeld(q) == lock # Nobody

\* Mutant: every model type goes through the cache.
AllCached(q) == TRUE

UsesCache(q) == asks[q] \in Cached

Acquire(q) ==
  /\ Goto(q, "resolved", "looking")
  /\ UsesCache(q)
  /\ ~LockHeld(q)
  /\ lock' = q
  /\ UNCHANGED <<loop, asks, loaded, cache, floor>>

\* The model is in memory.
Hit(q) ==
  /\ Goto(q, "looking", "predicting")
  /\ cache[asks[q]] # <<>>
  /\ loaded' = [loaded EXCEPT ![q] = cache[asks[q]]]
  /\ lock' = Nobody
  /\ UNCHANGED <<loop, asks, cache, floor>>

Miss(q) ==
  /\ Goto(q, "looking", "loading")
  /\ cache[asks[q]] = <<>>
  /\ UNCHANGED <<loop, asks, loaded, lock, cache, floor>>

\* predict_autoformer_api, predict_testmodel_api: torch.load on every request.
Direct(q) ==
  /\ Goto(q, "resolved", "loading")
  /\ ~UsesCache(q)
  /\ UNCHANGED <<loop, asks, loaded, lock, cache, floor>>

Reading(q) == state[q] = "loading" /\ Len(loaded[q]) < Last

\* The directory tells where the other pieces are.
NextPiece(q) == IF loaded[q] = <<>> THEN Last ELSE Len(loaded[q])

\* The file reaches that far.
InFile(p, k) == \E i \in k .. Last : file[p][i] # Hole

\* What is there is taken for the piece, whichever save it is of; a hole that
\* another writer went past reads as zeros.
ReadPiece(q) ==
  LET p == asks[q]  k == NextPiece(q)
  IN /\ Reading(q)
     /\ InFile(p, k)
     /\ loaded' = [loaded EXCEPT ![q] =
          Append(@, [run |-> file[p][k].run, epoch |-> file[p][k].epoch, stamp |-> saves[p]])]
     /\ UNCHANGED <<loop, state, asks, lock, cache, floor>>

\* Mutant: the lock is not given back when the load raises.
KeepLock(q) == q

\* `with _CACHE_LOCK' lets go on an exception too.
LockAfterError(q) == Nobody

\* torch.load raises where nothing is written, and may raise where another run,
\* with a layout of its own, wrote than the one whose directory was read.
Unreadable(q) ==
  LET piece == file[asks[q]][NextPiece(q)]
  IN piece = Hole \/ (loaded[q] # <<>> /\ piece.run # loaded[q][1].run)

\* 500 PREDICTION_FAILED, the cache untouched.
LoadError(q) ==
  /\ Reading(q)
  /\ Unreadable(q)
  /\ Goto(q, "loading", "over")
  /\ Forget({q})
  /\ lock' = IF UsesCache(q) THEN LockAfterError(q) ELSE lock
  /\ UNCHANGED <<loop, cache>>

Insert(q) ==
  /\ Goto(q, "loading", "predicting")
  /\ Len(loaded[q]) = Last
  /\ UsesCache(q)
  /\ cache' = [cache EXCEPT ![asks[q]] = loaded[q]]
  /\ lock' = Nobody
  /\ UNCHANGED <<loop, asks, loaded, floor>>

\* The model is used by this request alone.
UseOnce(q) ==
  /\ Goto(q, "loading", "predicting")
  /\ Len(loaded[q]) = Last
  /\ ~UsesCache(q)
  /\ UNCHANGED <<loop, asks, loaded, lock, cache, floor>>

\* The forecast is sent, or what follows the load raises.
Respond(q) ==
  /\ Goto(q, "predicting", "over")
  /\ Forget({q})
  /\ UNCHANGED <<loop, lock, cache>>

UnderWay(q) == state[q] \notin {"new", "over"}

\* The API process ends and is started again, any number of times; requests under
\* way are lost.
Restart ==
  /\ state' = [q \in Requests |-> IF UnderWay(q) THEN "over" ELSE state[q]]
  /\ Forget({q \in Requests : UnderWay(q)})
  /\ lock' = Nobody
  /\ cache' = [p \in Paths |-> <<>>]
  /\ UNCHANGED loop

Load(q) == ReadPiece(q) \/ LoadError(q)
Answer(q) == Acquire(q) \/ Hit(q) \/ Miss(q) \/ Direct(q) \/ Load(q) \/ Insert(q) \/ UseOnce(q) \/ Respond(q)

Next ==
  \/ LoopNext /\ UNCHANGED api
  \/ \E q \in Requests : Resolve(q) \/ NotFound(q) \/ Answer(q)
  \/ Restart

\* Threads of a live process run; a training may stop for good at any time.
Fairness == \A q \in Requests : WF_vars(Answer(q))

Spec == Init /\ [][Next]_vars /\ Fairness

-----------------------------------------------------------------------------
\* A piece as it was read, and how many saves had begun by then.
ReadPieces == [run : Runs \cup {NoNumber}, epoch : Nat, stamp : Nat]

TypeOK ==
  /\ LoopTypeOK
  /\ state \in [Requests -> {"new", "resolved", "looking", "loading", "predicting", "over"}]
  /\ asks \in [Requests -> Paths \cup {Nobody}]
  /\ \A q \in Requests : UnderWay(q) => asks[q] \in Paths
  /\ loaded \in [Requests -> Seq(ReadPieces)]
  /\ lock \in Requests \cup {Nobody}
  /\ cache \in [Paths -> Seq(ReadPieces)]
  /\ floor \in [Requests -> Nat]

\* Weights that were, when they were saved, the best of a run of file p.
WasBest(v, p) ==
  /\ v.run \in Runs
  /\ pathOf[v.run] = p
  /\ v.epoch \in 1 .. Len(val_losses[v.run])
  /\ Improvement(val_losses[v.run], v.epoch)

\* The pieces read after one and the same save began, no other save being under
\* way then, are of one epoch, the best of its run when it was saved.
MixedBySavesOnly(model, p) ==
  /\ Len(model) = Last
  /\ \A i, j \in 1 .. Last :
       model[i].stamp \notin shared[p] =>
         /\ WasBest(model[i], p)
         /\ model[j].stamp = model[i].stamp => model[j] = model[i]

\* torch.load neither locks nor checks the file that torch.save empties and
\* rewrites.  Still a model that predicts, or stays in memory, is one whole
\* checkpoint, the best of its run when it was saved, unless a save began while
\* it was being read or saves of two runs overlapped; and whatever begins
\* meanwhile, without such an overlap every piece of it is of such a checkpoint.
TornOnlyByOverlap ==
  /\ \A q \in Requests : state[q] = "predicting" => MixedBySavesOnly(loaded[q], asks[q])
  /\ \A p \in Paths : cache[p] # <<>> => MixedBySavesOnly(cache[p], p)

\* A request that does not find its model in memory never predicts with a piece
\* older than the checkpoint on disk when it arrived: only the Informers' cache
\* serves stale models.
StaleOnlyFromMemory ==
  \A q \in Requests :
    state[q] = "predicting" /\ asks[q] \notin Cached =>
      \A i \in 1 .. Len(loaded[q]) : loaded[q][i].stamp >= floor[q]

\* One process answers for one Informer checkpoint from one model, however
\* many threads miss at once and whatever a training saves meanwhile.
OneModelPerProcess ==
  [][\A p \in Paths :
       cache[p] # <<>> => cache'[p] = cache[p] \/ Restart]_vars

\* No request that found a checkpoint stays under way: also after a failed load
\* of another thread, each is answered or refused.  (A request is made once, so
\* that none can be under way again and again.)
RequestsEnd == []<>(\A q \in Requests : ~UnderWay(q))
=============================================================================
