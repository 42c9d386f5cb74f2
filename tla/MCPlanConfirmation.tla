------------------------- MODULE MCPlanConfirmation -------------------------
(* One scenario and one caller: callers share nothing but the configuration, *)
(* which the edits change under each of them.                                *)
EXTENDS PlanConfirmation

MCText == ApiModelTypes \cup DataSources \cup {Unset, "testmodel", "15min", "60min", "file"}

P(v) == [text |-> FALSE, value |-> v]
T(v) == [text |-> TRUE, value |-> v]
Params(lr, moving_avg, extra) == [lr |-> lr, moving_avg |-> moving_avg, extra |-> extra]
None == NotGiven

\* A row that takes its model type and source from the defaults, and one of an
\* Autoformer, which cannot name its CSV file.
MCRows == {
  [model_type |-> Unset, freq |-> "15min", source |-> Unset, data_path |-> Unset,
   train_params |-> Params(P(3), None, None)],
  [model_type |-> "autoformer", freq |-> "15min", source |-> "csv", data_path |-> Unset,
   train_params |-> Params(None, P(3), None)]}

\* A complete Autoformer whose parameters are texts, and one of an even window.
MCEntries == {
  [model_type |-> "autoformer", freq |-> Unset, source |-> "csv", data_path |-> "file",
   train_params |-> Params(None, T(5), None)],
  [model_type |-> "autoformer", freq |-> Unset, source |-> "csv", data_path |-> "file",
   train_params |-> Params(None, P(4), None)]}

MCDefaults == {
  [model_type |-> "informer", freq |-> "15min", source |-> "db"],
  [model_type |-> "autoformer", freq |-> "60min", source |-> Unset]}

MCRequests == {
  [model_type |-> Unset, source |-> "csv", overrides |-> NoParams],
  [model_type |-> "testmodel", source |-> "db", overrides |-> NoParams],
  [model_type |-> "informer", source |-> "db", overrides |-> Params(T(2), None, None)]}

\* The second release has another default learning rate, the third one also
\* another parameter.
MCReleases == {"r1", "r2", "r3"}
MCModelDefaults ==
  [r1 |-> [informer |-> Params(P(1), None, None), autoformer |-> Params(P(1), P(7), None)],
   r2 |-> [informer |-> Params(P(2), None, None), autoformer |-> Params(P(2), P(7), None)],
   r3 |-> [informer |-> Params(P(2), None, P(1)), autoformer |-> Params(P(2), P(7), None)]]
=============================================================================
