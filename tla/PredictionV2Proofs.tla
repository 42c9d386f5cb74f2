-------------------------- MODULE PredictionV2Proofs --------------------------
(***************************************************************************)
(* Proofs about PredictionV2: types, answers of one deployment, forecasts  *)
(* that continue the history.                                              *)
(***************************************************************************)
EXTENDS PredictionV2, TLAPS

-----------------------------------------------------------------------------
(* The inductive invariant: what a call has read, and why an exchange was  *)
(* answered.                                                               *)

World ==
  /\ now \in Times
  /\ manifest \in Manifests \cup {NoCatalog}
  /\ files \in [Models -> Contents]

\* A call has read nothing, or a manifest and the artifacts it names.
CallInv ==
  \/ call = Idle
  \/ \E r \in Requests :
       call = [stage |-> "authorized", request |-> r, catalog |-> NoCatalog, hashes |-> NoCatalog]
  \/ \E r \in Requests, c \in Manifests : \E h :
       /\ call = [stage |-> "hashing", request |-> r, catalog |-> c, hashes |-> h]
       /\ DOMAIN h \subseteq DOMAIN c
       /\ \A m \in DOMAIN h : h[m] = c[m].sha256

\* What an exchange was answered from.
Justified(e) ==
  /\ e.status \in Statuses
  /\ e.catalog \in Manifests \cup {NoCatalog}
  /\ e.status # "OK" => e.answer = NoAnswer
  /\ e.status = "OK" =>
       /\ e.catalog \in Manifests
       /\ e.request.window_start \in Nat /\ e.request.window_end \in Nat
       /\ \E t : Normalizable(e.request, Profile(e), t)
       /\ e.answer = Predicted(e.request, Profile(e), Profile(e).sha256)

ExchangesInv ==
  /\ \E S : exchanges \in Seq(S)
  /\ Len(exchanges) <= MaxExchanges
  /\ \A i \in DOMAIN exchanges : Justified(exchanges[i])

\* A call is only made while there is room for its exchange.
RoomInv == call # Idle => More

IInv == World /\ CallInv /\ ExchangesInv /\ RoomInv

-----------------------------------------------------------------------------
(* Arithmetic of the window.                                               *)

\* Two multiples of the interval W intervals apart.
LEMMA WindowLength ==
  ASSUME NEW s \in Nat, NEW e \in Nat, NEW d \in Nat, d > 0, NEW n \in Nat,
         s % d = 0, e % d = 0, (e - s) \div d = n
  PROVE  e = s + n * d
<1>1. PICK a \in Int : s = d * a
  <2>1. s = d * (s \div d) /\ s \div d \in Int
    BY SMT
  <2> QED
    BY <2>1
<1>2. PICK b \in Int : e = d * b
  <2>1. e = d * (e \div d) /\ e \div d \in Int
    BY SMT
  <2> QED
    BY <2>1
<1>3. e - s = d * (b - a)
  BY <1>1, <1>2
<1>4. (d * (b - a)) \div d = b - a
  <2>1. ASSUME NEW x \in Int PROVE (d * x) \div d = x
    BY SMT
  <2> QED
    BY <2>1
<1>5. n = b - a
  BY <1>3, <1>4
<1>6. e = s + d * (b - a)
  BY <1>3
<1> QED
  BY <1>5, <1>6

\* The last bucket with a sample exists and is one of the last three.
LEMMA LastIsRecent ==
  ASSUME NEW missing \in SUBSET Points, Tolerable(missing)
  PROVE  /\ LastValued(missing) \in W - 3 .. W - 1
         /\ LastValued(missing) \notin missing
         /\ \A l \in Points : l > LastValued(missing) => l \in missing
<1> DEFINE IsLast(k) == k \in Points \ missing /\ \A l \in Points : l > k => l \in missing
<1>1. W \in Nat /\ W >= 3
  BY PredictionAssumption
<1>2. ~ ({W - 3, W - 2, W - 1} \subseteq missing)
  BY <1>1 DEF Tolerable
<1>3. \E k \in Points \ missing : \A l \in Points : l > k => l \in missing
  <2>1. CASE W - 1 \notin missing
    BY <1>1, <2>1 DEF Points
  <2>2. CASE W - 1 \in missing /\ W - 2 \notin missing
    BY <1>1, <2>2 DEF Points
  <2>3. CASE W - 1 \in missing /\ W - 2 \in missing
    BY <1>1, <1>2, <2>3 DEF Points
  <2> QED
    BY <2>1, <2>2, <2>3
<1>4. IsLast(LastValued(missing))
  BY <1>3 DEF LastValued
<1>5. LastValued(missing) >= W - 3
  BY <1>1, <1>2, <1>4 DEF Points
<1> QED
  BY <1>1, <1>4, <1>5 DEF Points

\* An answer that is justified continues its history.
LEMMA AnswerContinues ==
  ASSUME NEW e, Justified(e), e.status = "OK"
  PROVE  LET missing == Missing(e.request)
         IN  /\ Cardinality(missing) <= W \div 10
             /\ \E k \in W - 3 .. W - 1 :
                  /\ k \notin missing /\ k + 1 .. W - 1 \subseteq missing
                  /\ \A h \in 1 .. Horizon :
                       LET point == e.answer.forecast[h]
                       IN  /\ point.value = {Mean(e.request, k)}
                           /\ point.timestamp = BucketTime(e.request, W - 1 + h)
<1> DEFINE r == e.request
           missing == Missing(r)
           k == LastValued(missing)
<1>1. PICK t : Normalizable(r, Profile(e), t)
  BY DEF Justified
<1>2. Tolerable(missing)
  BY <1>1 DEF Normalizable
<1>3. missing \in SUBSET Points
  BY DEF Missing
<1>4. /\ k \in W - 3 .. W - 1
      /\ k \notin missing
      /\ \A l \in Points : l > k => l \in missing
  BY <1>2, <1>3, LastIsRecent
<1>5. W \in Nat /\ W >= 3 /\ Interval \in Nat \ {0} /\ Horizon \in Nat
  BY PredictionAssumption
<1>6. k + 1 .. W - 1 \subseteq missing
  BY <1>4, <1>5 DEF Points
<1>7. r.window_end = r.window_start + W * Interval
  <2>1. r.window_start \in Nat /\ r.window_end \in Nat
    BY DEF Justified
  <2>2. /\ r.window_start % Interval = 0 /\ r.window_end % Interval = 0
        /\ (r.window_end - r.window_start) \div Interval = W
    BY <1>1 DEF Normalizable, Aligned
  <2>3. Interval \in Nat /\ Interval > 0 /\ W \in Nat
    BY <1>5
  <2>4. ASSUME NEW s \in Nat, NEW x \in Nat,
               s % Interval = 0, x % Interval = 0, (x - s) \div Interval = W
        PROVE  x = s + W * Interval
    BY <2>3, <2>4, WindowLength, ZenonT(20)
  <2> QED
    BY <2>1, <2>2, <2>4
<1>8. ASSUME NEW h \in 1 .. Horizon
      PROVE  /\ e.answer.forecast[h].value = {Mean(r, k)}
             /\ e.answer.forecast[h].timestamp = BucketTime(r, W - 1 + h)
  <2>1. e.answer.forecast = Forecast(r, Profile(e))
    BY DEF Justified, Predicted
  <2>2. /\ e.answer.forecast[h].value = Buckets(r)[k]
        /\ e.answer.forecast[h].timestamp = r.window_end - Interval + h * Interval
    BY <2>1 DEF Forecast
  <2>3. k \in Points
    BY <1>4, <1>5 DEF Points
  <2>4. Buckets(r)[k] = {Mean(r, k)}
    BY <1>4, <2>3 DEF Buckets
  <2>5. r.window_end - Interval + h * Interval = r.window_start + (W - 1 + h) * Interval
    <3>1. r.window_start \in Nat
      BY DEF Justified
    <3> QED
      BY <1>5, <1>7, <3>1
  <2> QED
    BY <2>2, <2>4, <2>5 DEF BucketTime
<1> QED
  BY <1>2, <1>4, <1>6, <1>8 DEF Tolerable

-----------------------------------------------------------------------------
(* Every step keeps the invariant.                                         *)

LEMMA InitHolds == Init => IInv
<1> SUFFICES ASSUME Init PROVE IInv
  OBVIOUS
<1> USE DEF Init
<1>1. World /\ CallInv
  BY DEF World, CallInv
<1>2. ExchangesInv
  <2>1. exchanges \in Seq({})
    OBVIOUS
  <2>2. Len(exchanges) = 0 /\ DOMAIN exchanges = {}
    OBVIOUS
  <2> QED
    BY <2>1, <2>2, PredictionAssumption DEF ExchangesInv
<1> QED
  BY <1>1, <1>2 DEF IInv, RoomInv

\* An exchange that is justified is recorded: the invariant holds again.
LEMMA Recorded ==
  ASSUME IInv, More,
         NEW r, NEW c, NEW status, NEW answer,
         Answer(r, c, status, answer),
         Justified([request |-> r, catalog |-> c, status |-> status, answer |-> answer])
  PROVE  IInv'
<1> DEFINE e == [request |-> r, catalog |-> c, status |-> status, answer |-> answer]
<1>1. call' = Idle /\ exchanges' = Append(exchanges, e) /\ UNCHANGED world
  BY DEF Answer
<1>2. PICK S : exchanges \in Seq(S)
  BY DEF IInv, ExchangesInv
<1>3. exchanges \in Seq(S \cup {e})
  BY <1>2
<1>4. exchanges' \in Seq(S \cup {e})
  BY <1>1, <1>3
<1>5. Len(exchanges') = Len(exchanges) + 1 /\ Len(exchanges) \in Nat
  BY <1>1, <1>3
<1>6. \A i \in DOMAIN exchanges' : Justified(exchanges'[i])
  <2>1. ASSUME NEW i \in DOMAIN exchanges' PROVE exchanges'[i] = e \/ (i \in DOMAIN exchanges /\ exchanges'[i] = exchanges[i])
    BY <1>1, <1>3, <1>4
  <2>2. Justified(e)
    OBVIOUS
  <2> QED
    BY <2>1, <2>2 DEF IInv, ExchangesInv
<1>7. Len(exchanges') <= MaxExchanges
  BY <1>5, PredictionAssumption DEF More
<1>8. ExchangesInv'
  BY <1>4, <1>6, <1>7 DEF ExchangesInv, Justified, Profile, Predicted, Normalizable
<1>9. World' /\ CallInv' /\ RoomInv'
  BY <1>1 DEF IInv, World, CallInv, RoomInv, world
<1> QED
  BY <1>8, <1>9 DEF IInv

\* A refusal needs no justification.
LEMMA Refused ==
  ASSUME IInv, More, NEW r, NEW c \in Manifests \cup {NoCatalog}, NEW status \in Statuses \ {"OK"},
         Answer(r, c, status, NoAnswer)
  PROVE  IInv'
<1>1. Justified([request |-> r, catalog |-> c, status |-> status, answer |-> NoAnswer])
  BY DEF Justified, Statuses
<1> QED
  BY <1>1, Recorded

\* Steps that record nothing keep what was recorded.
LEMMA Unrecorded ==
  ASSUME IInv, UNCHANGED exchanges, World', CallInv', call' # Idle => More
  PROVE  IInv'
BY DEF IInv, ExchangesInv, RoomInv, More

\* In a call that is under way there is room, and its catalogue is known.
LEMMA UnderWay ==
  ASSUME IInv, call.stage \in {"authorized", "hashing"}
  PROVE  /\ More
         /\ call.request \in Requests
         /\ call.catalog \in Manifests \cup {NoCatalog}
BY DEF IInv, CallInv, RoomInv, Idle

LEMMA SendKeeps ==
  ASSUME IInv, NEW request \in Requests, Send(request)
  PROVE  IInv'
<1>1. More
  BY DEF Send
<1>2. CASE ~ request.token /\ Answer(request, NoCatalog, "Unauthorized", NoAnswer)
  BY <1>1, <1>2, Refused DEF Statuses
<1>3. CASE /\ call' = [stage |-> "authorized", request |-> request, catalog |-> NoCatalog, hashes |-> NoCatalog]
           /\ UNCHANGED <<world, exchanges>>
  <2>1. World' /\ CallInv'
    BY <1>3 DEF IInv, World, CallInv, world
  <2> QED
    BY <1>1, <1>3, <2>1, Unrecorded
<1> QED
  BY <1>2, <1>3 DEF Send

LEMMA ReadManifestKeeps ==
  ASSUME IInv, ReadManifest
  PROVE  IInv'
<1>1. call.stage = "authorized"
  BY DEF ReadManifest
<1>2. More /\ call.request \in Requests /\ call.catalog \in Manifests \cup {NoCatalog}
  BY <1>1, UnderWay
<1>3. CASE manifest = NoCatalog /\ Refuse("NotReady")
  BY <1>2, <1>3, Refused DEF Refuse, Statuses
<1>4. CASE /\ manifest # NoCatalog
           /\ call' = [call EXCEPT !.stage = "hashing", !.catalog = manifest]
           /\ UNCHANGED <<world, exchanges>>
  <2>1. PICK r \in Requests :
          call = [stage |-> "authorized", request |-> r, catalog |-> NoCatalog, hashes |-> NoCatalog]
    BY <1>1 DEF IInv, CallInv, Idle
  <2>2. call' = [stage |-> "hashing", request |-> r, catalog |-> manifest, hashes |-> NoCatalog]
    BY <1>4, <2>1
  <2>3. manifest \in Manifests
    BY <1>4 DEF IInv, World
  <2>4. DOMAIN NoCatalog = {}
    BY DEF NoCatalog
  <2>5. CallInv'
    BY <2>2, <2>3, <2>4 DEF CallInv
  <2>6. World'
    BY <1>4 DEF IInv, World, world
  <2> QED
    BY <1>2, <1>4, <2>5, <2>6, Unrecorded
<1> QED
  BY <1>3, <1>4 DEF ReadManifest

LEMMA HashArtifactKeeps ==
  ASSUME IInv, NEW m \in Models, HashArtifact(m)
  PROVE  IInv'
<1>1. call.stage = "hashing"
  BY DEF HashArtifact
<1>2. More /\ call.request \in Requests /\ call.catalog \in Manifests \cup {NoCatalog}
  BY <1>1, UnderWay
<1>3. CASE ~ Verified(m) /\ Refuse("NotReady")
  BY <1>2, <1>3, Refused DEF Refuse, Statuses
<1>4. CASE /\ Verified(m)
           /\ call' = [call EXCEPT !.hashes = [x \in DOMAIN @ \cup {m} |-> IF x = m THEN files[m] ELSE @[x]]]
           /\ UNCHANGED <<world, exchanges>>
  <2>0. PICK r \in Requests, c \in Manifests :
          \E h : /\ call = [stage |-> "hashing", request |-> r, catalog |-> c, hashes |-> h]
                 /\ DOMAIN h \subseteq DOMAIN c
                 /\ \A x \in DOMAIN h : h[x] = c[x].sha256
    BY <1>1 DEF IInv, CallInv, Idle
  <2>1. PICK h :
          /\ call = [stage |-> "hashing", request |-> r, catalog |-> c, hashes |-> h]
          /\ DOMAIN h \subseteq DOMAIN c
          /\ \A x \in DOMAIN h : h[x] = c[x].sha256
    BY <2>0
  <2> DEFINE g == [x \in DOMAIN h \cup {m} |-> IF x = m THEN files[m] ELSE h[x]]
  <2>2. call' = [stage |-> "hashing", request |-> r, catalog |-> c, hashes |-> g]
    BY <1>4, <2>1
  <2>3. DOMAIN g = {m} \cup DOMAIN h /\ g[m] = files[m] /\ \A x \in DOMAIN h : x # m => g[x] = h[x]
    OBVIOUS
  <2>4. m \in DOMAIN c /\ files[m] = c[m].sha256
    BY <1>4, <2>1 DEF HashArtifact, Verified
  <2>5. DOMAIN g \subseteq DOMAIN c /\ \A x \in DOMAIN g : g[x] = c[x].sha256
    BY <2>1, <2>3, <2>4
  <2> HIDE DEF g
  <2>6. CallInv'
    BY <2>1, <2>2, <2>5 DEF CallInv
  <2>7. World'
    BY <1>4 DEF IInv, World, world
  <2> QED
    BY <1>2, <1>4, <2>6, <2>7, Unrecorded
<1> QED
  BY <1>3, <1>4 DEF HashArtifact

\* Canonicalization keeps the model and the window.
LEMMA CanonicalKeeps ==
  ASSUME NEW r \in Requests, NEW profile
  PROVE  LET canonical == Canonical(r, profile)
         IN  /\ canonical.model = r.model
             /\ canonical.window_start = r.window_start
             /\ canonical.window_end = r.window_end
BY RequestAssumption DEF Canonical

LEMMA PredictKeeps ==
  ASSUME IInv, Predict
  PROVE  IInv'
<1> DEFINE request   == call.request
           catalog   == call.catalog
           profile   == catalog[request.model]
           verdict   == Verdict(request, catalog, now)
           canonical == Canonical(request, profile)
<1>1. call.stage = "hashing" /\ DOMAIN call.hashes = DOMAIN catalog
  BY DEF Predict
<1>2. More /\ request \in Requests /\ catalog \in Manifests \cup {NoCatalog}
  BY <1>1, UnderWay
<1>3. CASE verdict # "OK" /\ Refuse(verdict)
  <2>1. verdict \in Statuses
    BY DEF Verdict, Statuses
  <2> QED
    BY <1>2, <1>3, <2>1, Refused DEF Refuse
<1>4. CASE verdict = "OK" /\ Answer(canonical, catalog, "OK", Predicted(canonical, profile, call.hashes[request.model]))
  <2>1. catalog \in Manifests /\ \A m \in DOMAIN call.hashes : call.hashes[m] = catalog[m].sha256
    BY <1>1 DEF IInv, CallInv, Idle
  <2>2. request.model \in DOMAIN catalog /\ Normalizable(canonical, profile, now)
    BY <1>4 DEF Verdict
  <2>3. call.hashes[request.model] = profile.sha256
    BY <1>1, <2>1, <2>2
  <2>4. /\ canonical.model = request.model
        /\ canonical.window_start \in Nat /\ canonical.window_end \in Nat
    BY <1>2, CanonicalKeeps, RequestAssumption
  <2> DEFINE e == [request |-> canonical, catalog |-> catalog, status |-> "OK",
                   answer |-> Predicted(canonical, profile, call.hashes[request.model])]
  <2> HIDE DEF canonical
  <2>5. Profile(e) = profile
    BY <2>4 DEF Profile
  <2>6. Justified(e)
    BY <2>1, <2>2, <2>3, <2>4, <2>5 DEF Justified, Statuses
  <2> QED
    BY <1>2, <1>4, <2>6, Recorded
<1> QED
  BY <1>3, <1>4 DEF Predict

LEMMA WorldStepKeeps ==
  ASSUME IInv, Tick \/ DeployManifest \/ \E m \in Models : DeployArtifact(m)
  PROVE  IInv'
<1>1. More /\ UNCHANGED <<call, exchanges>>
  BY DEF Tick, DeployManifest, DeployArtifact
<1>2. World'
  BY DEF IInv, World, Tick, DeployManifest, DeployArtifact
<1>3. CallInv'
  BY <1>1 DEF IInv, CallInv
<1> QED
  BY <1>1, <1>2, <1>3, Unrecorded

LEMMA NextKeeps == IInv /\ [Next]_vars => IInv'
<1> SUFFICES ASSUME IInv, [Next]_vars PROVE IInv'
  OBVIOUS
<1>1. ASSUME NEW request \in Requests, Send(request) PROVE IInv'
  BY <1>1, SendKeeps
<1>2. CASE ReadManifest
  BY <1>2, ReadManifestKeeps
<1>3. ASSUME NEW m \in Models, HashArtifact(m) PROVE IInv'
  BY <1>3, HashArtifactKeeps
<1>4. CASE Predict
  BY <1>4, PredictKeeps
<1>5. CASE Tick \/ DeployManifest \/ \E m \in Models : DeployArtifact(m)
  BY <1>5, WorldStepKeeps
<1>6. CASE UNCHANGED vars
  <2>1. UNCHANGED <<call, exchanges>> /\ World' /\ CallInv'
    BY <1>6 DEF IInv, World, CallInv, vars
  <2> QED
    BY <2>1, Unrecorded DEF IInv, RoomInv
<1> QED
  BY <1>1, <1>2, <1>3, <1>4, <1>5, <1>6 DEF Next

LEMMA Invariance == Spec => []IInv
BY InitHolds, NextKeeps, PTL DEF Spec

-----------------------------------------------------------------------------
(* The theorems.                                                           *)

\* Calls, catalogues and exchanges are what they should be; a refusal (from_manifest,
\* create_prediction) carries no answer.
THEOREM TypeCorrect == Spec => []TypeOK
<1>1. IInv => TypeOK
  <2> SUFFICES ASSUME IInv PROVE TypeOK
    OBVIOUS
  <2>1. World
    BY DEF IInv
  <2>2. /\ call.stage \in Stages
        /\ call.stage # "idle" => call.request \in Requests
        /\ call.catalog \in Manifests \cup {NoCatalog}
        /\ DOMAIN call.hashes \subseteq DOMAIN call.catalog
    BY DEF IInv, CallInv, Idle, Stages, NoCatalog
  <2>3. /\ Len(exchanges) <= MaxExchanges
        /\ \A i \in DOMAIN exchanges : Justified(exchanges[i])
    BY DEF IInv, ExchangesInv
  <2> QED
    BY <2>1, <2>2, <2>3 DEF TypeOK, World, Justified
<1> QED
  BY <1>1, Invariance, PTL

\* create_prediction never answers from half a deployment: ModelCatalog.from_manifest
\* compares every artifact with the manifest it read.
THEOREM AnswersOneDeployment == Spec => []OneDeployment
<1>1. IInv => OneDeployment
  <2> SUFFICES ASSUME IInv, NEW i \in Answered
               PROVE  \E f \in Manifests : /\ exchanges[i].catalog = f
                                            /\ exchanges[i].answer.sha256 = {f[exchanges[i].request.model].sha256}
    BY DEF OneDeployment
  <2>1. Justified(exchanges[i]) /\ exchanges[i].status = "OK"
    BY DEF IInv, ExchangesInv, Answered
  <2> QED
    BY <2>1 DEF Justified, Predicted, Profile
<1> QED
  BY <1>1, Invariance, PTL

\* Whatever the window, the predictor (RepeatLastFixturePredictor) always finds a value
\* to repeat, at most three intervals old, and at most a tenth was missing.
THEOREM ContinuesHistory == Spec => []ForecastContinuesHistory
<1>1. IInv => ForecastContinuesHistory
  <2> SUFFICES ASSUME IInv PROVE ForecastContinuesHistory
    OBVIOUS
  <2>1. \A i \in Answered : Justified(exchanges[i]) /\ exchanges[i].status = "OK"
    BY DEF IInv, ExchangesInv, Answered
  <2> QED
    BY <2>1, AnswerContinues DEF ForecastContinuesHistory
<1> QED
  BY <1>1, Invariance, PTL
=============================================================================
