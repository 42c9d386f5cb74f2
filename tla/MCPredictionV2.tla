--------------------------- MODULE MCPredictionV2 ----------------------------
(* A window of 30 buckets: three may be missing, so that a run of three and *)
(* a count of four are different refusals.                                  *)
EXTENDS PredictionV2

MCTimes == {59, 60}

Bar    == [name |-> "bar", spelling |-> "canonical"]
Padded == [name |-> "bar", spelling |-> "padded"]
Other  == [name |-> "rpm", spelling |-> "canonical"]

Entry(scale, preprocessing, sha256) ==
  [unit |-> Bar, scale |-> scale, frequency |-> "1min", preprocessing |-> preprocessing, sha256 |-> sha256]

Old   == ("pump" :> Entry(1, "v1", "a"))
New   == ("pump" :> [Entry(1, "v2", "b") EXCEPT !.unit = Padded])
Finer == ("pump" :> Entry(2, "v1", "b"))

MCManifests == {Old, New, Finer}

Sample(k, id, value, unit) == [timestamp |-> 2 * k, data_id |-> id, value |-> value, unit |-> unit]

Bucket(k, values, unit) == [i \in DOMAIN values |-> Sample(k, i, values[i], unit)]

\* 4.00 in every bucket except those missing, then the last bucket's samples.
Series(missing, value, unit) ==
  LET kept == SelectSeq([i \in 1 .. 29 |-> i - 1], LAMBDA k : k \notin missing)
  IN  [i \in DOMAIN kept |-> Sample(kept[i], 1, value, unit)]

Whole(values) == Series({}, 400, Bar) \o Bucket(29, values, Bar)
Gappy(missing) == IF 29 \in missing THEN Series(missing, 400, Bar)
                  ELSE Series(missing, 400, Bar) \o Bucket(29, <<400>>, Bar)

Body(history) ==
  [tenant |-> "plant", model |-> "pump", unit |-> Bar, frequency |-> "1min",
   window_start |-> 0, window_end |-> 60, history |-> history, token |-> TRUE, digest |-> {}]

\* The caller hashes its request in order, in the canonical form of the profile it knows.
Signed(body) ==
  [body EXCEPT !.digest = RequestDigest(Canonical([body EXCEPT !.history = SortSeq(@, Before)], Old["pump"]))]

Plain   == Body(Whole(<<-10, 15, 20>>))
Respelt == [Body(Reverse(Series({}, 401, Padded) \o Bucket(29, <<-9, 16, 24>>, Padded))) EXCEPT !.unit = Padded]
Large(v) == Body(Series({}, 400, Bar) \o
                 LET p == Bucket(29, <<9990, 60, -9990>>, Bar) IN [i \in 1 .. 3 |-> p[v[i]]])

Good == {Plain, Respelt, Large(<<1, 2, 3>>), Large(<<1, 3, 2>>), Body(Gappy({5, 28, 29}))}

Bad == {Body(Gappy({5, 10, 15, 20})), Body(Gappy({27, 28, 29})),
        Body(<<Sample(29, 1, 500, Bar)>> \o Whole(<<400>>)),
        [Plain EXCEPT !.history[3].unit = Other],
        [Plain EXCEPT !.history[3].value = 10000]}

Strangers == {[Plain EXCEPT !.model = "valve"], [Plain EXCEPT !.token = FALSE]}

Forged == [Signed(Plain) EXCEPT !.history[1].value = 500]

\* (Named once more for TLC, which computes a definition once but a constant's value every time.)
Sent       == {Signed(body) : body \in Good \cup Bad \cup Strangers} \cup {Forged}
MCRequests == Sent
=============================================================================
