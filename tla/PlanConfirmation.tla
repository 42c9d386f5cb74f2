-------------------------- MODULE PlanConfirmation --------------------------
(***************************************************************************)
(* The way of a training plan: POST /train/preview resolves the            *)
(* configuration of a scenario into a plan and answers it with its hash;   *)
(* POST /train resolves the configuration again, compares the hash the     *)
(* caller confirmed and freezes the plan in the job's row; a worker builds *)
(* the plan once more from the row.  `valeo-pdm train --model-info-id'     *)
(* resolves the configuration under the run lock and trains it directly.   *)
(*                                                                         *)
(* All the while operators edit the configuration (a database row and a    *)
(* YAML registry), the database is out of reach now and then, and releases *)
(* of API and workers change the defaults of the models.                   *)
(*                                                                         *)
(* `planner' and `recorded' are history variables: no guard reads them.    *)
(***************************************************************************)
EXTENDS Naturals

CONSTANTS
  Callers,        \* one ModelInfoID each
  Text,           \* what a field may hold
  Rows,           \* rows operators may write into mom_bas_ai_model_config
  Entries,        \* blocks they may write into model_registry.yaml
  Defaults,       \* `defaults' sections of the registry
  Requests,       \* what callers ask for
  Releases,       \* deployed versions of the program
  ModelDefaults,  \* INFORMER_DEFAULTS, AUTOFORMER_DEFAULTS of each release
  NotGiven,       \* a parameter left out
  NoBlock,        \* no row, or no entry in the registry
  BadRow,         \* a row that cannot be read as a configuration
  NoPlan,
  MaxEdits        \* bound: changes of configuration and releases

ApiModelTypes == {"informer", "autoformer"}
DataSources   == {"db", "postgres", "sqlserver", "csv"}
Unset         == "unset"   \* a field left out

\* Stand-ins for the 21 training parameters; a value is a JSON number or its
\* text, and a plan holds numbers.
ParamNames == {"lr", "moving_avg", "extra"}
Raw        == [text : BOOLEAN, value : Nat]
Number     == [text : {FALSE}, value : Nat]
ParamsOf(V) == [ParamNames -> V \cup {NotGiven}]
NoParams   == [n \in ParamNames |-> NotGiven]
Names(params) == {n \in ParamNames : params[n] # NotGiven}

Block    == [model_type : Text, freq : Text, source : Text, data_path : Text,
             train_params : ParamsOf(Raw)]
Default  == [model_type : Text, freq : Text, source : Text]
Request  == [model_type : Text, source : Text, overrides : ParamsOf(Raw)]
CliPlans == [model_type : Text, source : Text, freq : Text, data_path : Text,
             train_params : ParamsOf(Raw)]
\* Plans of the API: checked, complete, their parameters numbers.
Plan     == [model_type : ApiModelTypes, source : DataSources, freq : Text,
             data_path : Text, train_params : ParamsOf(Number)]

Hashes   == {"sha256"} \X CliPlans
Registry == [yaml : Entries \cup {NoBlock}, defaults : Defaults]
Job      == [plan : Plan, hash : {"sha256"} \X Plan]
Call     == [kind : {"preview", "train", "cli"}, req : Requests, hash : {NoPlan} \cup Hashes]

\* A row has no column for data_path.
ASSUME PlanAssumption ==
  /\ ApiModelTypes \cup DataSources \cup {"15min"} \subseteq Text
  /\ Rows \subseteq Block
  /\ \A b \in Rows : b.data_path = Unset
  /\ Entries \subseteq Block
  /\ Defaults \subseteq Default
  /\ Requests \subseteq Request
  /\ ModelDefaults \in [Releases -> [ApiModelTypes -> ParamsOf(Number)]]
  /\ NotGiven \notin Raw
  /\ NoBlock \notin Rows \cup Entries
  /\ BadRow \notin Rows \cup Entries
  /\ BadRow # NoBlock
  /\ NoPlan \notin CliPlans \cup Releases \cup Job \cup Call \cup Registry \cup Block \cup Hashes
  /\ MaxEdits \in Nat

VARIABLES
  db,        \* the scenario's row of mom_bas_ai_model_config
  yaml,      \* its block in model_registry.yaml
  defaults,  \* the registry's defaults section
  release,   \* release the API and the workers run
  edits,     \* changes so far
  strict,    \* VALEO_PDM_REQUIRE_TRAIN_PLAN_HASH; never changes
  phase,     \* progress of each caller
  call,      \* the request being served and the hash sent with it
  registry,  \* what its handler has read of the registry
  current,   \* the configuration a CLI training has resolved under its lock
  shown,     \* the plan of the last preview of each caller
  row,       \* plan_json and plan_hash of its job
  trained,   \* what was trained for it
  planner,   \* history: the release that accepted its job
  recorded   \* history: the plan_hash in the manifest of a CLI training

config == <<db, yaml, defaults, release, edits, strict>>
caller == <<phase, call, registry, current, shown, row, trained, planner, recorded>>
vars   == <<config, caller>>

-----------------------------------------------------------------------------
(* Resolving the configuration.                                            *)

Given(field, otherwise) == IF field = Unset THEN otherwise ELSE field

\* Mutant: the row is completed from the registry's block.
MergedBlock(row_, yaml_) ==
  IF row_ = NoBlock THEN yaml_
  ELSE IF yaml_ = NoBlock THEN row_
  ELSE [row_ EXCEPT !.data_path = Given(@, yaml_.data_path)]

\* resolve_model_config: the row whole, else the registry's block.
ChosenBlock(row_, yaml_) == IF row_ # NoBlock THEN row_ ELSE yaml_

\* apply_defaults completes the fields that have a default, never train_params
\* or data_path; the last resort is the one of every .get(field, ...).
Effective(b, d) ==
  [b EXCEPT !.model_type = Given(Given(@, d.model_type), "informer"),
            !.freq       = Given(Given(@, d.freq), "15min"),
            !.source     = Given(Given(@, d.source), "db")]

-----------------------------------------------------------------------------
(* build_training_plan.                                                    *)

\* Mutant: the defaults win over what was configured.
OverSwapped(f, g) == [n \in ParamNames |-> IF g[n] = NotGiven THEN f[n] ELSE g[n]]

\* {**g, **f}
Over(f, g) == [n \in ParamNames |-> IF f[n] = NotGiven THEN g[n] ELSE f[n]]

\* Mutant: parameters are taken as they are given.
Unconverted(params) == params

\* _convert_param: text and number give the same number.
Converted(params) ==
  [n \in ParamNames |-> IF params[n] = NotGiven THEN NotGiven
                        ELSE [text |-> FALSE, value |-> params[n].value]]

TypeFor(q, cfg) == Given(q.model_type, cfg.model_type)

\* MODEL_TRAIN_PARAM_NAMES; every name has a default.
Supported(def, t) == Names(def[t])

BuildPlan(q, cfg, def) ==
  LET t == TypeFor(q, cfg)
  IN [model_type   |-> t,
      source       |-> q.source,
      freq         |-> cfg.freq,
      data_path    |-> cfg.data_path,
      train_params |-> Over(Converted(q.overrides), Over(Converted(cfg.train_params), def[t]))]

\* _validate_train_params, for what the stand-ins can get wrong.
ValidParams(params) ==
  /\ \A n \in Names(params) : params[n].value >= 1
  /\ "moving_avg" \in Names(params) => params["moving_avg"].value % 2 = 1

\* Every check of build_training_plan passes.
Plannable(q, cfg, def) ==
  LET t == TypeFor(q, cfg)
  IN /\ t \in ApiModelTypes
     /\ q.source \in DataSources
     /\ t = "autoformer" => q.source = "csv"
     /\ Names(q.overrides) \cup Names(cfg.train_params) \subseteq Supported(def, t)
     /\ ValidParams(BuildPlan(q, cfg, def).train_params)
     /\ q.source = "csv" => cfg.data_path # Unset

\* Mutant: the parameters are left out of what is hashed.
HashWithoutParams(p) == <<"sha256", [p EXCEPT !.train_params = NoParams]>>

\* plan_hash: SHA-256 over the canonical JSON of every field.
PlanHash(p) == <<"sha256", p>>

\* as_dict: train_params holds every parameter, defaults included.
AsDict(p) == p

\* from_dict: the stored plan serves as request and as configuration.
StoredRequest(s) == [model_type |-> s.model_type, source |-> s.source, overrides |-> NoParams]
StoredConfig(s)  == [model_type |-> s.model_type, freq |-> s.freq, source |-> s.source,
                     data_path |-> s.data_path, train_params |-> s.train_params]

Restored(s, r)   == BuildPlan(StoredRequest(s), StoredConfig(s), ModelDefaults[r])
Restorable(s, r) == Plannable(StoredRequest(s), StoredConfig(s), ModelDefaults[r])

\* train_from_config: the source is the configuration's and the parameters are
\* passed on as configured.
CliPlan(q, cfg) ==
  [model_type |-> TypeFor(q, cfg), source |-> cfg.source, freq |-> cfg.freq,
   data_path |-> cfg.data_path, train_params |-> cfg.train_params]

-----------------------------------------------------------------------------
TypeOK ==
  /\ db \in Rows \cup {NoBlock, BadRow}
  /\ yaml \in Entries \cup {NoBlock}
  /\ defaults \in Defaults
  /\ release \in [{"api", "worker"} -> Releases]
  /\ edits \in 0 .. MaxEdits
  /\ strict \in BOOLEAN
  /\ phase \in [Callers -> {"idle", "asked", "queued", "identified", "locked", "training", "over"}]
  /\ call \in [Callers -> Call \cup {NoPlan}]
  /\ registry \in [Callers -> Registry \cup {NoPlan}]
  /\ current \in [Callers -> Block \cup {NoPlan}]
  /\ shown \in [Callers -> Plan \cup {NoPlan}]
  /\ row \in [Callers -> Job \cup {NoPlan}]
  /\ trained \in [Callers -> CliPlans \cup {NoPlan}]
  /\ planner \in [Callers -> Releases \cup {NoPlan}]
  /\ recorded \in [Callers -> Hashes \cup {NoPlan}]

Init ==
  /\ db \in Rows \cup {NoBlock, BadRow}
  /\ yaml \in Entries \cup {NoBlock}
  /\ defaults \in Defaults
  /\ \E r \in Releases : release = [component \in {"api", "worker"} |-> r]
  /\ edits = 0
  /\ strict \in BOOLEAN
  /\ phase = [c \in Callers |-> "idle"]
  /\ call = [c \in Callers |-> NoPlan]
  /\ registry = [c \in Callers |-> NoPlan]
  /\ current = [c \in Callers |-> NoPlan]
  /\ shown = [c \in Callers |-> NoPlan]
  /\ row = [c \in Callers |-> NoPlan]
  /\ trained = [c \in Callers |-> NoPlan]
  /\ planner = [c \in Callers |-> NoPlan]
  /\ recorded = [c \in Callers |-> NoPlan]

-----------------------------------------------------------------------------
(* Operators.                                                              *)

Edit == edits < MaxEdits /\ edits' = edits + 1 /\ UNCHANGED <<strict, caller>>

EditRow ==
  /\ Edit
  /\ db' \in Rows \cup {NoBlock, BadRow}
  /\ UNCHANGED <<yaml, defaults, release>>

EditRegistry ==
  /\ Edit
  /\ yaml' \in Entries \cup {NoBlock}
  /\ defaults' \in Defaults
  /\ UNCHANGED <<db, release>>

Deploy ==
  /\ Edit
  /\ \E component \in {"api", "worker"}, r \in Releases :
       release' = [release EXCEPT ![component] = r]
  /\ UNCHANGED <<db, yaml, defaults>>

-----------------------------------------------------------------------------
(* get_model_config: the registry first, then the row, each at its own     *)
(* moment; a database out of reach counts as one without the row, and a    *)
(* row that cannot be read is an error.                                    *)

Step(c, from, to) == phase[c] = from /\ phase' = [phase EXCEPT ![c] = to]

ReadRegistry(c) == registry' = [registry EXCEPT ![c] = [yaml |-> yaml, defaults |-> defaults]]

RowRead == {db, NoBlock}

\* The configurations that can come of a registry read before and the row now.
Configs(reg) == {Effective(b, reg.defaults) :
                   b \in {ChosenBlock(r, reg.yaml) : r \in RowRead \ {BadRow}} \ {NoBlock}}

-----------------------------------------------------------------------------
(* The API.                                                                *)

\* A request arrives and its handler reads the registry.  A caller that
\* insists sends the hash of the plan it was shown last.
Ask(c) ==
  /\ Step(c, "idle", "asked")
  /\ \E kind \in {"preview", "train"}, q \in Requests,
        h \in {NoPlan} \cup {PlanHash(p) : p \in {shown[c]} \ {NoPlan}} :
       call' = [call EXCEPT ![c] = [kind |-> kind, req |-> q, hash |-> h]]
  /\ ReadRegistry(c)
  /\ UNCHANGED <<config, current, shown, row, trained, planner, recorded>>

\* _request_plan, once the row is read.
RequestPlans(c) ==
  LET q == call[c].req  def == ModelDefaults[release.api]
  IN {BuildPlan(q, cfg, def) : cfg \in {g \in Configs(registry[c]) : Plannable(q, g, def)}}

Preview(c) ==
  /\ Step(c, "asked", "idle")
  /\ call[c].kind = "preview"
  /\ \E p \in RequestPlans(c) : shown' = [shown EXCEPT ![c] = p]
  /\ UNCHANGED <<config, current, call, registry, row, trained, planner, recorded>>

\* _verify_expected_hash
Verified(p, h) == (strict => h # NoPlan) /\ (h # NoPlan => PlanHash(p) = h)

\* POST /train freezes the plan in the job's row.
Accept(c) ==
  /\ Step(c, "asked", "queued")
  /\ call[c].kind = "train"
  /\ \E p \in RequestPlans(c) :
       /\ Verified(p, call[c].hash)
       /\ row' = [row EXCEPT ![c] = [plan |-> AsDict(p), hash |-> PlanHash(p)]]
  /\ planner' = [planner EXCEPT ![c] = release.api]
  /\ UNCHANGED <<config, call, registry, current, shown, trained, recorded>>

\* 404, 409, 428, 400 or 500; the caller may ask again.  A refusal that the
\* configuration does not call for (a taken ModelInfoID, a lost database) may
\* come at any time.
Refuse(c) ==
  /\ Step(c, "asked", "idle")
  /\ UNCHANGED <<config, call, registry, current, shown, row, trained, planner, recorded>>

-----------------------------------------------------------------------------
(* The worker: TrainingPlan.from_json(job.plan_json, expected_hash).       *)

Faithful(c) ==
  /\ Restorable(row[c].plan, release.worker)
  /\ PlanHash(Restored(row[c].plan, release.worker)) = row[c].hash

Train(c) ==
  /\ Step(c, "queued", "over")
  /\ Faithful(c)
  /\ trained' = [trained EXCEPT ![c] = Restored(row[c].plan, release.worker)]
  /\ UNCHANGED <<config, call, registry, current, shown, row, planner, recorded>>

\* INVALID_STORED_PLAN, or the code of the check that fails.
Reject(c) ==
  /\ Step(c, "queued", "over")
  /\ ~Faithful(c)
  /\ UNCHANGED <<config, call, registry, current, shown, row, trained, planner, recorded>>

-----------------------------------------------------------------------------
(* train_from_config with a ModelInfoID.                                   *)

\* The first resolution only names the run and its lock.
CliIdentify(c) ==
  /\ Step(c, "idle", "identified")
  /\ \E q \in Requests : call' = [call EXCEPT ![c] = [kind |-> "cli", req |-> q, hash |-> NoPlan]]
  /\ Configs([yaml |-> yaml, defaults |-> defaults]) # {}
  /\ UNCHANGED <<config, registry, current, shown, row, trained, planner, recorded>>

\* The second resolution, under the lock, starts.
CliLock(c) ==
  /\ Step(c, "identified", "locked")
  /\ ReadRegistry(c)
  /\ UNCHANGED <<config, call, current, shown, row, trained, planner, recorded>>

\* The manifest records the hash of the second resolution.
CliRecord(c) ==
  /\ Step(c, "locked", "training")
  /\ \E cfg \in Configs(registry[c]) :
       /\ current' = [current EXCEPT ![c] = cfg]
       /\ recorded' = [recorded EXCEPT ![c] = PlanHash(CliPlan(call[c].req, cfg))]
  /\ UNCHANGED <<config, call, registry, shown, row, trained, planner>>

\* Mutant: _train_from_config_impl resolves the configuration once more.
ResolvedAgain(c) == Configs([yaml |-> yaml, defaults |-> defaults])

\* The configuration _train_from_config_impl takes: its _config_override.
ConfigTrained(c) == {current[c]}

CliTrain(c) ==
  /\ Step(c, "training", "over")
  /\ \E cfg \in ConfigTrained(c) :
       trained' = [trained EXCEPT ![c] = CliPlan(call[c].req, cfg)]
  /\ UNCHANGED <<config, call, registry, current, shown, row, planner, recorded>>

\* No configuration, or one that cannot be read.
CliGiveUp(c) ==
  /\ phase[c] \in {"identified", "locked"}
  /\ phase' = [phase EXCEPT ![c] = "over"]
  /\ UNCHANGED <<config, call, registry, current, shown, row, trained, planner, recorded>>

-----------------------------------------------------------------------------
Handle(c) == Ask(c) \/ Preview(c) \/ Accept(c) \/ Refuse(c)
Work(c)   == Train(c) \/ Reject(c)
Cli(c)    == CliIdentify(c) \/ CliLock(c) \/ CliRecord(c) \/ CliTrain(c) \/ CliGiveUp(c)

Next ==
  \/ EditRow \/ EditRegistry \/ Deploy
  \/ \E c \in Callers : Handle(c) \/ Work(c) \/ Cli(c)

Spec == Init /\ [][Next]_vars

-----------------------------------------------------------------------------
WholeConfigs == {Effective(b, d) : b \in Rows \cup Entries, d \in Defaults}

\* The plans of one whole block under one section of defaults and one release.
PlansOf(q, r) ==
  {BuildPlan(q, cfg, ModelDefaults[r]) :
     cfg \in {g \in WholeConfigs : Plannable(q, g, ModelDefaults[r])}}
OfOneBlock == UNION {PlansOf(q, r) : q \in Requests, r \in Releases}

AcceptedPlan == [c \in Callers |-> IF row[c] = NoPlan THEN NoPlan ELSE row[c].plan]
TrainedPlan  == [c \in Callers |-> IF row[c] = NoPlan THEN NoPlan ELSE trained[c]]

C == INSTANCE Confirmation
       WITH Plans <- OfOneBlock, accepted <- AcceptedPlan, trained <- TrainedPlan

\* A caller that insists gets the plan it was shown or none, and every
\* accepted job trains exactly the accepted plan, although the configuration,
\* the defaults and the releases move on between preview, POST and worker.
ImplementsConfirmation == C!Spec

\* A plan never mixes the row with the registry's block: whatever was shown or
\* accepted comes from one whole block, one section of defaults and one release
\* (config.py:149, "数据库整块优先、YAML 整块兜底").
WholeBlocks ==
  \A c \in Callers : {shown[c], AcceptedPlan[c]} \subseteq OfOneBlock \cup {NoPlan}

\* A worker rejects an accepted plan only when its release knows other
\* parameters for the model than the release that accepted it: other default
\* values, an edited configuration or a lost database never spoil a queued job.
RejectsOnlyOtherParameters ==
  [][\A c \in Callers :
       Reject(c) =>
         LET t == row[c].plan.model_type
         IN Supported(ModelDefaults[release.worker], t)
              # Supported(ModelDefaults[planner[c]], t)]_vars

\* A CLI training trains the configuration whose hash its manifest records,
\* also when the configuration changes right after the run was created.
CliTrainsWhatItRecords ==
  \A c \in Callers :
    recorded[c] # NoPlan /\ trained[c] # NoPlan => recorded[c] = PlanHash(trained[c])
=============================================================================
