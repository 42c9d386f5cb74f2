---------------------------- MODULE PredictionV2 -----------------------------
(***************************************************************************)
(* POST /api/v2/predictions promises a replayable forecast: the caller     *)
(* sends the digest of its request, and sends the request again when in    *)
(* doubt - in another order, with the numbers and units spelled            *)
(* differently, later, and while somebody deploys another catalogue.  Each *)
(* call loads the catalogue anew: first the manifest, then the artifacts   *)
(* it names, one file at a time.                                           *)
(*                                                                         *)
(* A digest stands for what is hashed.  A decimal of the wire is an        *)
(* integer in units of 10^-Fraction, a canonical decimal of scale s the    *)
(* pair <<s, integer in units of 10^-s>>; a lexeme that is no decimal is a *)
(* value out of range, refused at the same place.                          *)
(***************************************************************************)
EXTENDS Integers, SequencesExt

CONSTANTS Requests,     \* what callers send (parsed bodies)
          Manifests,    \* manifests that may be deployed: model -> entry
          Contents,     \* contents (and hashes) of an artifact file
          Models,       \* model identities, each with its artifact file
          Tenants,      \* VALEO_PDM_ALLOWED_TENANT_IDS
          Times,        \* bound: the times of the clock
          Interval,     \* interval_ms
          W,            \* request_window_points
          Horizon,      \* horizon_points
          Fraction,     \* bound: decimals of a number on the wire
          Digits,       \* precision of the decimal context (28)
          MaxExchanges  \* bound: calls made

ASSUME PredictionAssumption ==
  /\ W \in Nat /\ W >= 3
  /\ Interval \in Nat \ {0}
  /\ Horizon \in Nat
  /\ Fraction \in Nat /\ Digits \in Nat \ {0}
  /\ Times \subseteq Nat
  /\ MaxExchanges \in Nat
  /\ \A k \in 0 .. Fraction : 10^k > 0   \* arithmetic, which the provers take from here
  /\ \A f \in Manifests : DOMAIN f \subseteq Models /\ \A m \in DOMAIN f : f[m].sha256 \in Contents /\ f[m].scale \in 0 .. Fraction

\* A unit is a name as it is spelled, an identifier stands for its place among all
\* (data_id is compared as a string).
Unit  == [name : STRING, spelling : STRING]
Point == [timestamp : Nat, data_id : Nat, value : Int, unit : Unit]

ASSUME RequestAssumption ==
  \A r \in Requests :
    /\ DOMAIN r = {"token", "tenant", "model", "unit", "frequency", "window_start", "window_end", "history", "digest"}
    /\ r.window_start \in Nat /\ r.window_end \in Nat
    /\ r.unit \in Unit /\ r.history \in Seq(Point)

VARIABLES
  now,       \* the clock of the API
  manifest,  \* manifest file
  files,     \* artifact files
  call,      \* the call in progress: stage, request, catalogue read, artifact hashes read
  exchanges  \* calls answered: request (canonical in an answer), catalogue, status, answer

vars  == <<now, manifest, files, call, exchanges>>
world == <<now, manifest, files>>

Stages   == {"idle", "authorized", "hashing"}
Statuses == {"OK", "Unauthorized", "NotReady", "NotFound", "Mismatch", "Invalid"}

\* No catalogue, as when the manifest is missing, malformed or of another shape.
NoCatalog == [m \in {} |-> {}]

NoAnswer == [sha256 |-> {}, input |-> {}, forecast |-> <<>>]

TypeOK ==
  /\ now \in Times
  /\ manifest \in Manifests \cup {NoCatalog}
  /\ files \in [Models -> Contents]
  /\ call.stage \in Stages
  /\ call.stage # "idle" => call.request \in Requests
  /\ call.catalog \in Manifests \cup {NoCatalog}
  /\ DOMAIN call.hashes \subseteq DOMAIN call.catalog
  /\ Len(exchanges) <= MaxExchanges
  /\ \A i \in DOMAIN exchanges :
       /\ exchanges[i].status \in Statuses
       /\ exchanges[i].catalog \in Manifests \cup {NoCatalog}
       /\ exchanges[i].status # "OK" => exchanges[i].answer = NoAnswer

-----------------------------------------------------------------------------
(* Canonical form.                                                         *)

Abs(n) == IF n < 0 THEN -n ELSE n

\* n / d, rounded half to even
HalfEven(n, d) ==
  LET q == n \div d
      r == n % d
  IN  IF 2 * r < d \/ (2 * r = d /\ q % 2 = 0) THEN q ELSE q + 1

Representable(n) == Abs(n) < 10^Digits

\* canonical_decimal
CanonicalDecimal(value, scale) == <<scale, HalfEven(value, 10^(Fraction - scale))>>

\* canonical_unit: stripped and in normal form, or empty and refused
CanonicalUnit(unit) == [unit EXCEPT !.spelling = "canonical"]

\* canonicalize_request
CanonicalPoint(point, profile) ==
  [point EXCEPT !.value = CanonicalDecimal(point.value, profile.scale), !.unit = CanonicalUnit(point.unit)]

Canonical(request, profile) ==
  [request EXCEPT !.unit = CanonicalUnit(request.unit),
                  !.history = [i \in DOMAIN request.history |-> CanonicalPoint(request.history[i], profile)]]

Canonicalizable(request, profile) ==
  /\ request.unit.name # ""
  /\ CanonicalUnit(request.unit) = CanonicalUnit(profile.unit)
  /\ \A i \in DOMAIN request.history :
       LET point == CanonicalPoint(request.history[i], profile)
       IN  Representable(point.value[2]) /\ point.unit = CanonicalUnit(request.unit)

Before(p, q) == p.timestamp < q.timestamp \/ (p.timestamp = q.timestamp /\ p.data_id < q.data_id)

\* Mutant: the history is hashed as it came.
AsReceived(history) == history

\* The place of point i when the history is sorted, points of equal keys as they came.
Place(history, i) ==
  Cardinality({j \in DOMAIN history :
                 Before(history[j], history[i]) \/ (~ Before(history[i], history[j]) /\ j <= i)})

Sorted(history) ==
  LET placed == {<<Place(history, i), history[i]>> : i \in DOMAIN history}
  IN  [n \in DOMAIN history |-> (CHOOSE p \in placed : p[1] = n)[2]]

\* request_projection, calculate_request_digest
RequestDigest(request) ==
  <<request.tenant, request.model, request.unit, request.frequency,
    request.window_start, request.window_end, Sorted(request.history)>>

-----------------------------------------------------------------------------
(* normalize_history: sums and quotients keep Digits significant digits.   *)

Points == 0 .. W - 1

BucketTime(request, k) == request.window_start + k * Interval

\* The positions of the samples of a bucket.
SamplesAt(request, k) ==
  {i \in DOMAIN request.history : request.history[i].timestamp = BucketTime(request, k)}

Missing(request) ==
  LET sampled == {request.history[i].timestamp : i \in DOMAIN request.history}
  IN  {k \in Points : BucketTime(request, k) \notin sampled}

Significant(n) ==
  LET cut == CHOOSE e \in 1 .. Digits :
               Abs(n) < 10^(Digits + e) /\ \A f \in 0 .. e - 1 : Abs(n) >= 10^(Digits + f)
  IN  IF Representable(n) THEN n ELSE HalfEven(n, 10^cut) * 10^cut

\* Mutant: the last sample of a bucket wins.
Latest(x, y) == y

Add(x, y) == Significant(x + y)

\* The samples at some positions, added in the order they came.
SumOf(history, samples) ==
  LET sum[S \in SUBSET DOMAIN history] ==
        IF S = {} THEN 0 ELSE Add(sum[S \ {Max(S)}], history[Max(S)].value[2])
  IN  sum[samples]

MeanOf(sum, count) ==
  LET fits   == {k \in 0 .. Digits : Abs(sum) * 10^k < count * 10^Digits}
      places == IF fits = {} THEN 0 ELSE CHOOSE k \in fits : \A l \in fits : l <= k
  IN  HalfEven(HalfEven(sum * 10^places, count), 10^places)

Mean(request, k) ==
  LET samples == SamplesAt(request, k)
  IN  MeanOf(SumOf(request.history, samples), Cardinality(samples))

\* The value of every bucket: {} when it is missing.
Buckets(request) ==
  LET missing == Missing(request)
  IN  [k \in Points |-> IF k \in missing THEN {} ELSE {Mean(request, k)}]

\* Mutant: only the number of missing buckets counts.
FewMissing(missing) == Cardinality(missing) <= W \div 10

\* At most a tenth is missing and never three in a row (the run at the end included).
Tolerable(missing) ==
  /\ Cardinality(missing) <= W \div 10
  /\ \A k \in 0 .. W - 3 : ~ ({k, k + 1, k + 2} \subseteq missing)

Aligned(t) == t % Interval = 0

Normalizable(request, profile, time) ==
  /\ request.window_start < request.window_end
  /\ profile.frequency = "1min" /\ request.frequency = profile.frequency
  /\ request.window_end <= time
  /\ Aligned(request.window_start) /\ Aligned(request.window_end)
  /\ (request.window_end - request.window_start) \div Interval = W
  /\ \A i \in DOMAIN request.history :
       /\ request.history[i].timestamp >= request.window_start
       /\ request.history[i].timestamp < request.window_end
       /\ Aligned(request.history[i].timestamp)
       /\ \A j \in DOMAIN request.history :
            i # j => <<request.history[i].timestamp, request.history[i].data_id>>
                       # <<request.history[j].timestamp, request.history[j].data_id>>
  /\ LET buckets == Buckets(request)
     IN  \A k \in Points : \A value \in buckets[k] : Representable(value)
  /\ Tolerable(Missing(request))

InputDigest(request, profile) ==
  <<request.model, profile.preprocessing, profile.scale, Buckets(request)>>

\* RepeatLastFixturePredictor.predict
LastValued(missing) == CHOOSE k \in Points \ missing : \A l \in Points : l > k => l \in missing

Forecast(request, profile) ==
  [h \in 1 .. Horizon |-> [timestamp |-> request.window_end - Interval + h * Interval,
                           value |-> Buckets(request)[LastValued(Missing(request))],
                           unit |-> profile.unit]]

-----------------------------------------------------------------------------
(* A call.                                                                 *)

Idle == [stage |-> "idle", catalog |-> NoCatalog, hashes |-> NoCatalog]

Init ==
  /\ now \in Times
  /\ manifest \in Manifests
  /\ files \in [Models -> Contents]
  /\ call = Idle
  /\ exchanges = <<>>

More == Len(exchanges) < MaxExchanges

Answer(request, catalog, status, answer) ==
  /\ call' = Idle
  /\ exchanges' = Append(exchanges, [request |-> request, catalog |-> catalog,
                                     status |-> status, answer |-> answer])
  /\ UNCHANGED world

\* Mutant: a refusal tells what was loaded.
RefuseInDetail(status) ==
  Answer(call.request, call.catalog, status, [NoAnswer EXCEPT !.sha256 = Range(call.hashes)])

Refuse(status) == Answer(call.request, call.catalog, status, NoAnswer)

\* authenticate_prediction_v2
Send(request) ==
  /\ call.stage = "idle" /\ More
  /\ \/ /\ request.token
        /\ call' = [stage |-> "authorized", request |-> request, catalog |-> NoCatalog, hashes |-> NoCatalog]
        /\ UNCHANGED <<world, exchanges>>
     \/ ~ request.token /\ Answer(request, NoCatalog, "Unauthorized", NoAnswer)

\* from_manifest: read and parse the manifest.
ReadManifest ==
  /\ call.stage = "authorized"
  /\ \/ /\ manifest # NoCatalog
        /\ call' = [call EXCEPT !.stage = "hashing", !.catalog = manifest]
        /\ UNCHANGED <<world, exchanges>>
     \/ manifest = NoCatalog /\ Refuse("NotReady")

\* Mutant: the hash of an artifact is reported, not verified.
Trusted(m) == TRUE

Verified(m) == files[m] = call.catalog[m].sha256

\* from_manifest, _digest_regular_artifact: hash the artifact of the next entry.
\* (Any entry may be next: the manifest's order is left open.)
HashArtifact(m) ==
  /\ call.stage = "hashing" /\ m \in DOMAIN call.catalog \ DOMAIN call.hashes
  /\ \/ /\ Verified(m)
        /\ call' = [call EXCEPT !.hashes = [x \in DOMAIN @ \cup {m} |-> IF x = m THEN files[m] ELSE @[x]]]
        /\ UNCHANGED <<world, exchanges>>
     \/ ~ Verified(m) /\ Refuse("NotReady")

\* PredictionV2Service.predict: what is refused first, 404, 422, 409, 422.
Verdict(request, catalog, time) ==
  LET profile   == catalog[request.model]
      canonical == Canonical(request, profile)
  IN  IF request.tenant \notin Tenants \/ request.model \notin DOMAIN catalog THEN "NotFound"
      ELSE IF ~ Canonicalizable(request, profile) THEN "Invalid"
      ELSE IF RequestDigest(canonical) # request.digest THEN "Mismatch"
      ELSE IF ~ Normalizable(canonical, profile, time) THEN "Invalid"
      ELSE "OK"

Predicted(canonical, profile, hash) ==
  [sha256   |-> {hash},
   input    |-> {InputDigest(canonical, profile)},
   forecast |-> Forecast(canonical, profile)]

\* create_prediction, with the catalogue loaded
Predict ==
  LET request == call.request
      profile == call.catalog[request.model]
      verdict == Verdict(request, call.catalog, now)
  IN  /\ call.stage = "hashing" /\ DOMAIN call.hashes = DOMAIN call.catalog
      /\ \/ verdict # "OK" /\ Refuse(verdict)
         \/ verdict = "OK" /\ Answer(Canonical(request, profile), call.catalog, "OK",
                                    Predicted(Canonical(request, profile), profile, call.hashes[request.model]))

\* Time passes; whoever deploys replaces one file at a time.
Tick == More /\ \E t \in Times : t > now /\ now' = t /\ UNCHANGED <<manifest, files, call, exchanges>>

DeployManifest ==
  /\ More
  /\ \E f \in Manifests \cup {NoCatalog} : f # manifest /\ manifest' = f
  /\ UNCHANGED <<now, files, call, exchanges>>

DeployArtifact(m) ==
  /\ More
  /\ \E content \in Contents : content # files[m] /\ files' = [files EXCEPT ![m] = content]
  /\ UNCHANGED <<now, manifest, call, exchanges>>

Next ==
  \/ \E request \in Requests : Send(request)
  \/ ReadManifest
  \/ \E m \in Models : HashArtifact(m)
  \/ Predict
  \/ Tick
  \/ DeployManifest
  \/ \E m \in Models : DeployArtifact(m)

Spec == Init /\ [][Next]_vars

-----------------------------------------------------------------------------
(* Properties.                                                             *)

Answered == {i \in DOMAIN exchanges : exchanges[i].status = "OK"}

Profile(e) == e.catalog[e.request.model]

\* The samples at some positions, added without their signs.
Magnitude(history, samples) ==
  LET sum[S \in SUBSET DOMAIN history] ==
        IF S = {} THEN 0 ELSE sum[S \ {Max(S)}] + Abs(history[Max(S)].value[2])
  IN  sum[samples]

\* No partial sum of a bucket leaves the precision of the decimal context,
\* in whatever order the samples are added.
WithinPrecision(request) ==
  \A k \in Points : Representable(Magnitude(request.history, SamplesAt(request, k)))

\* A forecast, its unit in canonical form: the unit is repeated as the profile spells it.
Read(forecast) == [h \in DOMAIN forecast |-> [forecast[h] EXCEPT !.unit = CanonicalUnit(@)]]

\* Replay: two answers to the same request digest carry the same forecast, however
\* the history was ordered and spelled, whenever and under whatever catalogue, and
\* the same input digest unless the preprocessing version changed.  (Beyond the
\* precision of the decimal context the mean depends on the order of the history.)
ReplayStable ==
  \A i, j \in Answered : i < j =>
    LET e == exchanges[i]
        f == exchanges[j]
    IN  (e.request.digest = f.request.digest /\ WithinPrecision(e.request))
          => /\ Read(e.answer.forecast) = Read(f.answer.forecast)
             /\ e.answer.input = f.answer.input <=> Profile(e).preprocessing = Profile(f).preprocessing

\* r is the answered request: equal digests claimed, equal points once canonical.
SameRequest(e, r) ==
  /\ e.request.digest = r.digest
  /\ e.request.tenant = r.tenant /\ e.request.model = r.model /\ e.request.frequency = r.frequency
  /\ e.request.window_start = r.window_start /\ e.request.window_end = r.window_end
  /\ e.request.unit = CanonicalUnit(r.unit)
  /\ Len(e.request.history) = Len(r.history)
  /\ Range(e.request.history) = {CanonicalPoint(p, Profile(e)) : p \in Range(r.history)}

\* A retry of an answered request is answered, in any order and spelling and at any
\* later time, if it reads a catalogue with the same profile and the sums of the
\* answered history fit the decimal precision (WithinPrecision): beyond it their
\* rounding depends on the order.
RetryAccepted ==
  \A i \in Answered, j \in DOMAIN exchanges :
    LET e == exchanges[i]
        f == exchanges[j]
    IN  (/\ i < j
         /\ f.status \notin {"Unauthorized", "NotReady", "OK"}
         /\ e.request.model \in DOMAIN f.catalog /\ Profile(e) = f.catalog[e.request.model])
           => ~ (SameRequest(e, f.request) /\ WithinPrecision(e.request))

\* What is answered continues what was sent: at most a tenth of the window is
\* missing, and the value repeated is that of the last bucket with a sample, one of
\* the last three.
ForecastContinuesHistory ==
  \A i \in Answered :
    LET request == exchanges[i].request
        missing == Missing(request)
    IN  /\ Cardinality(missing) <= W \div 10
        /\ \E k \in W - 3 .. W - 1 :
             /\ k \notin missing /\ k + 1 .. W - 1 \subseteq missing
             /\ \A h \in 1 .. Horizon :
                  LET point == exchanges[i].answer.forecast[h]
                  IN  /\ point.value = {Mean(request, k)}
                      /\ point.timestamp = BucketTime(request, W - 1 + h)

\* An answer never mixes deployments: the artifact hash it reports is the one its
\* profile was deployed with, although manifest and artifacts are replaced one by one
\* while the call reads them.
OneDeployment ==
  \A i \in Answered :
    \E f \in Manifests : exchanges[i].catalog = f
                         /\ exchanges[i].answer.sha256 = {f[exchanges[i].request.model].sha256}
=============================================================================
