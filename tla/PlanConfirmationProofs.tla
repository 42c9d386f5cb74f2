----------------------- MODULE PlanConfirmationProofs -----------------------
(***************************************************************************)
(* PlanConfirmation for any callers, configurations, requests, releases    *)
(* and number of changes: what is trained is what was accepted, and what a *)
(* caller insists on is what it was shown.                                 *)
(***************************************************************************)
EXTENDS PlanConfirmation, TLAPS

-----------------------------------------------------------------------------
(* Configurations and plans.                                               *)

\* Defaults complete a block to a block.
LEMMA EffectiveBlock ==
  ASSUME NEW b \in Block, NEW d \in Default
  PROVE  Effective(b, d) \in Block
<1>1. /\ b.model_type \in Text /\ b.freq \in Text /\ b.source \in Text
      /\ d.model_type \in Text /\ d.freq \in Text /\ d.source \in Text
  BY DEF Block, Default
<1>2. "informer" \in Text /\ "15min" \in Text /\ "db" \in Text
  BY PlanAssumption DEF PlanAssumption, ApiModelTypes, DataSources
<1>3. /\ Given(Given(b.model_type, d.model_type), "informer") \in Text
      /\ Given(Given(b.freq, d.freq), "15min") \in Text
      /\ Given(Given(b.source, d.source), "db") \in Text
  BY <1>1, <1>2 DEF Given
<1> QED
  BY <1>3 DEF Effective, Block

\* A configuration resolved is one whole block, completed.
LEMMA ConfigsWhole ==
  ASSUME db \in Rows \cup {NoBlock, BadRow}, NEW reg \in Registry, NEW g \in Configs(reg)
  PROVE  /\ g \in Block
         /\ \E b \in Rows \cup Entries : g = Effective(b, reg.defaults)
<1>1. PICK b \in {ChosenBlock(r, reg.yaml) : r \in RowRead \ {BadRow}} \ {NoBlock} :
        g = Effective(b, reg.defaults)
  BY DEF Configs
<1>2. b \in Rows \cup Entries
  BY <1>1 DEF ChosenBlock, RowRead, Registry
<1>3. b \in Block /\ reg.defaults \in Default
  BY <1>2, PlanAssumption DEF PlanAssumption, Registry
<1> QED
  BY <1>1, <1>2, <1>3, EffectiveBlock

LEMMA OverNumbers ==
  ASSUME NEW f \in ParamsOf(Number), NEW g \in ParamsOf(Number)
  PROVE  Over(f, g) \in ParamsOf(Number)
BY DEF Over, ParamsOf

LEMMA ConvertedNumbers ==
  ASSUME NEW f \in ParamsOf(Raw)
  PROVE  Converted(f) \in ParamsOf(Number)
BY DEF Converted, ParamsOf, Raw, Number

LEMMA DefaultNumbers ==
  ASSUME NEW r \in Releases, NEW t \in ApiModelTypes
  PROVE  ModelDefaults[r][t] \in ParamsOf(Number)
BY PlanAssumption DEF PlanAssumption

\* A number is its own conversion.
LEMMA ConvertedTwice ==
  ASSUME NEW f \in ParamsOf(Number)
  PROVE  Converted(f) = f
<1>1. ASSUME NEW n \in ParamNames
      PROVE  Converted(f)[n] = f[n]
  BY <1>1 DEF Converted, ParamsOf, Number
<1> QED
  BY <1>1 DEF Converted, ParamsOf

LEMMA NumbersAreRaw == ParamsOf(Number) \subseteq ParamsOf(Raw)
BY DEF ParamsOf, Number, Raw

\* build_training_plan makes plans.
LEMMA Planned ==
  ASSUME NEW q \in Request, NEW cfg \in Block, NEW r \in Releases,
         Plannable(q, cfg, ModelDefaults[r])
  PROVE  BuildPlan(q, cfg, ModelDefaults[r]) \in Plan
<1> DEFINE t == TypeFor(q, cfg)
<1>1. t \in ApiModelTypes /\ q.source \in DataSources
  BY DEF Plannable
<1>2. Converted(q.overrides) \in ParamsOf(Number) /\ Converted(cfg.train_params) \in ParamsOf(Number)
  BY ConvertedNumbers DEF Request, Block
<1>3. BuildPlan(q, cfg, ModelDefaults[r]).train_params \in ParamsOf(Number)
  BY <1>1, <1>2, OverNumbers, DefaultNumbers DEF BuildPlan
<1> QED
  BY <1>1, <1>3 DEF BuildPlan, Plan, Block

\* A stored plan is built again as it is by every release that knows the same
\* parameters for its model.
LEMMA RoundTrip ==
  ASSUME NEW q \in Request, NEW cfg \in Block, NEW r \in Releases, NEW s \in Releases,
         Plannable(q, cfg, ModelDefaults[r]),
         NEW p, p = BuildPlan(q, cfg, ModelDefaults[r]),
         Supported(ModelDefaults[s], p.model_type) = Supported(ModelDefaults[r], p.model_type)
  PROVE  Restored(p, s) = p /\ Restorable(p, s)
<1> DEFINE t == p.model_type
           old == ModelDefaults[r][t]
           new == ModelDefaults[s][t]
<1>1. p \in Plan
  BY Planned
<1>2. t \in ApiModelTypes /\ p.train_params \in ParamsOf(Number) /\ t # Unset
  BY <1>1 DEF Plan, ApiModelTypes, Unset
<1>3. /\ t = TypeFor(q, cfg)
      /\ TypeFor(StoredRequest(p), StoredConfig(p)) = t
  BY <1>2 DEF BuildPlan, TypeFor, Given, StoredRequest, StoredConfig
<1>4. old \in ParamsOf(Number) /\ new \in ParamsOf(Number)
  BY <1>2, DefaultNumbers
<1>5. NoParams \in ParamsOf(Number)
  BY DEF NoParams, ParamsOf
<1>6. Names(p.train_params) = Names(old)
  <2> DEFINE a == Converted(q.overrides)
             b == Converted(cfg.train_params)
  <2>1. p.train_params = Over(a, Over(b, old))
    BY <1>3 DEF BuildPlan
  <2>2. a \in ParamsOf(Number) /\ b \in ParamsOf(Number)
    BY ConvertedNumbers DEF Request, Block
  <2>3. Names(a) = Names(q.overrides) /\ Names(b) = Names(cfg.train_params)
    <3>1. ASSUME NEW f \in ParamsOf(Raw)
          PROVE  Names(Converted(f)) = Names(f)
      <4>1. ASSUME NEW n \in ParamNames, f[n] # NotGiven
            PROVE  Converted(f)[n] # NotGiven
        <5>1. Converted(f)[n] \in Raw
          BY <4>1 DEF Converted, ParamsOf, Raw
        <5> QED
          BY <5>1, PlanAssumption DEF PlanAssumption
      <4>2. ASSUME NEW n \in ParamNames, f[n] = NotGiven
            PROVE  Converted(f)[n] = NotGiven
        BY <4>2 DEF Converted
      <4> QED
        BY <4>1, <4>2 DEF Names
    <3> QED
      BY <3>1 DEF Request, Block
  <2>4. Names(a) \cup Names(b) \subseteq Names(old)
    BY <1>3, <2>3 DEF Plannable, Supported
  <2> HIDE DEF a, b, old
  <2> QED
    BY <2>1, <2>4 DEF Over, Names
<1>7. Over(Converted(NoParams), Over(Converted(p.train_params), new)) = p.train_params
  <2>1. Over(Converted(NoParams), Over(Converted(p.train_params), new))
          = Over(NoParams, Over(p.train_params, new))
    BY <1>2, <1>5, ConvertedTwice
  <2>2. Names(new) = Names(p.train_params)
    BY <1>6 DEF Supported
  <2>3. ASSUME NEW n \in ParamNames
        PROVE  Over(NoParams, Over(p.train_params, new))[n] = p.train_params[n]
    BY <2>2, <2>3 DEF Over, NoParams, Names
  <2> QED
    BY <1>2, <2>1, <2>3 DEF Over, ParamsOf
<1>8. Restored(p, s) = p
  <2>1. Restored(p, s) = [model_type |-> t, source |-> p.source, freq |-> p.freq,
                          data_path |-> p.data_path, train_params |-> p.train_params]
    BY <1>3, <1>7 DEF Restored, BuildPlan, StoredRequest, StoredConfig
  <2> QED
    BY <1>1, <2>1 DEF Plan
<1>9. Restorable(p, s)
  <2>1. /\ p.source = q.source /\ p.data_path = cfg.data_path
        /\ ValidParams(p.train_params)
        /\ t = "autoformer" => p.source = "csv"
        /\ p.source = "csv" => p.data_path # Unset
        /\ p.source \in DataSources
    BY <1>3 DEF BuildPlan, Plannable
  <2>2. Names(NoParams) \cup Names(p.train_params) \subseteq Supported(ModelDefaults[s], t)
    BY <1>6 DEF Supported, Names, NoParams
  <2>3. BuildPlan(StoredRequest(p), StoredConfig(p), ModelDefaults[s]) = p
    BY <1>8 DEF Restored
  <2>4. /\ StoredRequest(p).source = p.source /\ StoredRequest(p).overrides = NoParams
        /\ StoredConfig(p).train_params = p.train_params
        /\ StoredConfig(p).data_path = p.data_path
    BY DEF StoredRequest, StoredConfig
  <2> QED
    BY <1>2, <1>3, <2>1, <2>2, <2>3, <2>4 DEF Restorable, Plannable
<1> QED
  BY <1>8, <1>9

-----------------------------------------------------------------------------
(* The inductive invariant.                                                *)

\* A job's plan comes from one block, and every release that knows the
\* parameters of the one that accepted it builds it again as it is.
SoundJob(c) ==
  LET p == row[c].plan
  IN /\ row[c] \in Job
     /\ row[c].hash = PlanHash(p)
     /\ p \in OfOneBlock
     /\ \A s \in Releases :
          Supported(ModelDefaults[s], p.model_type)
              = Supported(ModelDefaults[planner[c]], p.model_type)
            => Restored(p, s) = p /\ Restorable(p, s)

\* What each phase knows.
Asking(c) ==
  phase[c] = "asked" =>
    /\ registry[c] \in Registry
    /\ call[c] \in Call
    /\ call[c].hash # NoPlan => shown[c] # NoPlan /\ call[c].hash = PlanHash(shown[c])

Untrained(c) ==
  /\ phase[c] \in {"idle", "asked", "identified", "locked", "training"} => row[c] = NoPlan
  /\ phase[c] = "queued" => row[c] # NoPlan
  /\ phase[c] # "over" => trained[c] = NoPlan
  /\ phase[c] \notin {"training", "over"} => recorded[c] = NoPlan

OnCli(c) ==
  /\ phase[c] \in {"identified", "locked", "training"} => call[c] \in Call
  /\ phase[c] = "locked" => registry[c] \in Registry
  /\ phase[c] = "training" =>
       current[c] \in Block /\ recorded[c] = PlanHash(CliPlan(call[c].req, current[c]))

CallerInv(c) ==
  /\ Asking(c)
  /\ Untrained(c)
  /\ OnCli(c)
  /\ row[c] # NoPlan => SoundJob(c)
  /\ shown[c] \in OfOneBlock \cup {NoPlan}
  /\ recorded[c] # NoPlan /\ trained[c] # NoPlan => recorded[c] = PlanHash(trained[c])

IInv == TypeOK /\ \A c \in Callers : CallerInv(c)

\* The plans a request can be answered with are checked plans of one block.
LEMMA RequestPlansSound ==
  ASSUME TypeOK, NEW c \in Callers, call[c] \in Call, registry[c] \in Registry,
         NEW p \in RequestPlans(c)
  PROVE  /\ p \in Plan
         /\ p \in OfOneBlock
         /\ \A s \in Releases :
              Supported(ModelDefaults[s], p.model_type)
                  = Supported(ModelDefaults[release.api], p.model_type)
                => Restored(p, s) = p /\ Restorable(p, s)
<1> DEFINE q == call[c].req
           r == release.api
<1>1. q \in Requests /\ q \in Request /\ r \in Releases
  BY PlanAssumption DEF PlanAssumption, Call, TypeOK
<1>2. PICK g \in Configs(registry[c]) :
        p = BuildPlan(q, g, ModelDefaults[r]) /\ Plannable(q, g, ModelDefaults[r])
  BY DEF RequestPlans
<1>3. /\ g \in Block
      /\ \E b \in Rows \cup Entries : g = Effective(b, registry[c].defaults)
  BY ConfigsWhole DEF TypeOK
<1>4. p \in Plan
  BY <1>1, <1>2, <1>3, Planned
<1>5. registry[c].defaults \in Defaults
  BY DEF Registry
<1>6. p \in OfOneBlock
  <2>1. g \in {h \in WholeConfigs : Plannable(q, h, ModelDefaults[r])}
    BY <1>2, <1>3, <1>5 DEF WholeConfigs
  <2>2. p \in PlansOf(q, r)
    BY <1>2, <2>1 DEF PlansOf
  <2> QED
    BY <1>1, <2>2 DEF OfOneBlock
<1>7. ASSUME NEW s \in Releases,
             Supported(ModelDefaults[s], p.model_type) = Supported(ModelDefaults[r], p.model_type)
      PROVE  Restored(p, s) = p /\ Restorable(p, s)
  <2> HIDE DEF q, r
  <2> QED
    BY <1>1, <1>2, <1>3, <1>7, RoundTrip
<1> QED
  BY <1>4, <1>6, <1>7

LEMMA CliPlanTyped ==
  ASSUME NEW q \in Requests, NEW cfg \in Block
  PROVE  CliPlan(q, cfg) \in CliPlans
BY PlanAssumption DEF PlanAssumption, CliPlan, CliPlans, TypeFor, Given, Request, Block

LEMMA PlansAreCliPlans == Plan \subseteq CliPlans
BY PlanAssumption, NumbersAreRaw DEF PlanAssumption, Plan, CliPlans

LEMMA InitInv == Init => IInv
<1> SUFFICES ASSUME Init PROVE IInv
  OBVIOUS
<1>1. TypeOK
  BY PlanAssumption DEF PlanAssumption, Init, TypeOK
<1> QED
  BY <1>1 DEF Init, IInv, CallerInv, Asking, Untrained, OnCli

\* A change of configuration leaves the callers alone.
LEMMA EditInv ==
  ASSUME IInv, EditRow \/ EditRegistry \/ Deploy
  PROVE  IInv'
<1>1. UNCHANGED caller
  BY DEF EditRow, EditRegistry, Deploy, Edit
<1>2. TypeOK'
  BY <1>1, PlanAssumption
  DEF PlanAssumption, IInv, TypeOK, EditRow, EditRegistry, Deploy, Edit, caller
<1>3. \A c \in Callers : SoundJob(c)' = SoundJob(c)
  BY <1>1 DEF caller, SoundJob
<1> QED
  BY <1>1, <1>2, <1>3 DEF IInv, CallerInv, Asking, Untrained, OnCli, caller

\* Each step of a caller's request keeps the invariant; others are not touched.
LEMMA OthersKeep ==
  ASSUME IInv, NEW c \in Callers, NEW d \in Callers, d # c,
         UNCHANGED config,
         phase'[d] = phase[d], call'[d] = call[d], registry'[d] = registry[d],
         current'[d] = current[d], shown'[d] = shown[d], row'[d] = row[d],
         trained'[d] = trained[d], planner'[d] = planner[d], recorded'[d] = recorded[d]
  PROVE  CallerInv(d)'
BY DEF IInv, CallerInv, Asking, Untrained, OnCli, SoundJob

LEMMA AskInv ==
  ASSUME IInv, NEW c \in Callers, Ask(c)
  PROVE  TypeOK' /\ CallerInv(c)'
<1> USE DEF IInv, CallerInv, TypeOK, Step, ReadRegistry, config
<1>1. PICK kind \in {"preview", "train"}, q \in Requests,
           h \in {NoPlan} \cup {PlanHash(p) : p \in {shown[c]} \ {NoPlan}} :
        call' = [call EXCEPT ![c] = [kind |-> kind, req |-> q, hash |-> h]]
  BY DEF Ask
<1>2. h \in {NoPlan} \cup Hashes /\ (h # NoPlan => shown[c] # NoPlan /\ h = PlanHash(shown[c]))
  BY <1>1, PlansAreCliPlans DEF PlanHash, Hashes
<1>3. [kind |-> kind, req |-> q, hash |-> h] \in Call
  BY <1>2 DEF Call
<1>4. [yaml |-> yaml, defaults |-> defaults] \in Registry
  BY DEF Registry
<1>5. TypeOK'
  BY <1>1, <1>3, <1>4 DEF Ask
<1>6. Asking(c)'
  BY <1>1, <1>2, <1>3, <1>4 DEF Ask, Asking
<1>7. SoundJob(c)' = SoundJob(c)
  BY DEF Ask, SoundJob
<1> QED
  BY <1>5, <1>6, <1>7 DEF Ask, CallerInv, Untrained, OnCli

LEMMA PreviewInv ==
  ASSUME IInv, NEW c \in Callers, Preview(c)
  PROVE  TypeOK' /\ CallerInv(c)'
<1> USE DEF IInv, CallerInv, TypeOK, Step, config
<1>1. PICK p \in RequestPlans(c) : shown' = [shown EXCEPT ![c] = p]
  BY DEF Preview
<1>2. p \in Plan /\ p \in OfOneBlock
  BY RequestPlansSound DEF Preview, Asking
<1>3. TypeOK'
  BY <1>1, <1>2 DEF Preview
<1> QED
  BY <1>1, <1>2, <1>3 DEF Preview, CallerInv, Asking, Untrained, OnCli, SoundJob

LEMMA AcceptInv ==
  ASSUME IInv, NEW c \in Callers, Accept(c)
  PROVE  TypeOK' /\ CallerInv(c)'
<1> USE DEF IInv, CallerInv, TypeOK, Step, config
<1>1. PICK p \in RequestPlans(c) : row' = [row EXCEPT ![c] = [plan |-> p, hash |-> PlanHash(p)]]
  BY DEF Accept, AsDict
<1>2. /\ p \in Plan /\ p \in OfOneBlock
      /\ \A s \in Releases :
           Supported(ModelDefaults[s], p.model_type)
               = Supported(ModelDefaults[release.api], p.model_type)
             => Restored(p, s) = p /\ Restorable(p, s)
  BY RequestPlansSound DEF Accept, Asking
<1>3. [plan |-> p, hash |-> PlanHash(p)] \in Job
  BY <1>2 DEF Job, PlanHash
<1>4. row'[c] = [plan |-> p, hash |-> PlanHash(p)] /\ planner'[c] = release.api
  BY <1>1 DEF Accept
<1>5. TypeOK'
  BY <1>1, <1>3 DEF Accept
<1>6. SoundJob(c)'
  BY <1>2, <1>3, <1>4 DEF SoundJob
<1>7. row'[c] # NoPlan
  BY <1>3, <1>4, PlanAssumption DEF PlanAssumption
<1> QED
  BY <1>5, <1>6, <1>7 DEF Accept, CallerInv, Asking, Untrained, OnCli

LEMMA RefuseInv ==
  ASSUME IInv, NEW c \in Callers, Refuse(c)
  PROVE  TypeOK' /\ CallerInv(c)'
<1> USE DEF IInv, CallerInv, TypeOK, Step, config
<1>1. TypeOK'
  BY DEF Refuse
<1> QED
  BY <1>1 DEF Refuse, CallerInv, Asking, Untrained, OnCli, SoundJob

\* A worker that finds the hash unchanged trains the accepted plan.
LEMMA FaithfulPlan ==
  ASSUME IInv, NEW c \in Callers, phase[c] = "queued", Faithful(c)
  PROVE  Restored(row[c].plan, release.worker) = row[c].plan /\ row[c] \in Job
BY DEF IInv, CallerInv, Faithful, SoundJob, PlanHash, Untrained

LEMMA TrainInv ==
  ASSUME IInv, NEW c \in Callers, Train(c)
  PROVE  TypeOK' /\ CallerInv(c)'
<1> USE DEF IInv, CallerInv, TypeOK, Step, config
<1>1. trained' = [trained EXCEPT ![c] = row[c].plan] /\ row[c].plan \in CliPlans
  BY FaithfulPlan, PlansAreCliPlans DEF Train, Job
<1>2. TypeOK'
  BY <1>1 DEF Train
<1>3. recorded[c] = NoPlan
  BY DEF Train, Untrained
<1> QED
  BY <1>1, <1>2, <1>3 DEF Train, CallerInv, Asking, Untrained, OnCli, SoundJob

LEMMA RejectInv ==
  ASSUME IInv, NEW c \in Callers, Reject(c)
  PROVE  TypeOK' /\ CallerInv(c)'
<1> USE DEF IInv, CallerInv, TypeOK, Step, config
<1>1. TypeOK'
  BY DEF Reject
<1> QED
  BY <1>1 DEF Reject, CallerInv, Asking, Untrained, OnCli, SoundJob
LEMMA CliIdentifyInv ==
  ASSUME IInv, NEW c \in Callers, CliIdentify(c) \/ CliLock(c) \/ CliGiveUp(c)
  PROVE  TypeOK' /\ CallerInv(c)'
<1> USE DEF IInv, CallerInv, TypeOK, Step, config, ReadRegistry
<1>1. CASE CliIdentify(c)
  <2>1. PICK q \in Requests : call' = [call EXCEPT ![c] = [kind |-> "cli", req |-> q, hash |-> NoPlan]]
    BY <1>1 DEF CliIdentify
  <2>2. [kind |-> "cli", req |-> q, hash |-> NoPlan] \in Call
    BY DEF Call
  <2>3. TypeOK'
    BY <1>1, <2>1, <2>2 DEF CliIdentify
  <2> QED
    BY <1>1, <2>1, <2>2, <2>3 DEF CliIdentify, Asking, Untrained, OnCli, SoundJob
<1>2. CASE CliLock(c)
  <2>1. [yaml |-> yaml, defaults |-> defaults] \in Registry
    BY DEF Registry
  <2>2. TypeOK'
    BY <1>2, <2>1 DEF CliLock
  <2> QED
    BY <1>2, <2>1, <2>2 DEF CliLock, Asking, Untrained, OnCli, SoundJob
<1>3. CASE CliGiveUp(c)
  <2>1. TypeOK'
    BY <1>3 DEF CliGiveUp
  <2> QED
    BY <1>3, <2>1 DEF CliGiveUp, Asking, Untrained, OnCli, SoundJob
<1> QED
  BY <1>1, <1>2, <1>3

LEMMA CliRecordInv ==
  ASSUME IInv, NEW c \in Callers, CliRecord(c)
  PROVE  TypeOK' /\ CallerInv(c)'
<1> USE DEF IInv, CallerInv, TypeOK, Step, config
<1>1. call[c] \in Call /\ registry[c] \in Registry /\ call[c].req \in Requests
  BY DEF CliRecord, OnCli, Call
<1>2. PICK cfg \in Configs(registry[c]) :
        /\ current' = [current EXCEPT ![c] = cfg]
        /\ recorded' = [recorded EXCEPT ![c] = PlanHash(CliPlan(call[c].req, cfg))]
  BY DEF CliRecord
<1>3. cfg \in Block
  BY <1>1, ConfigsWhole
<1>4. PlanHash(CliPlan(call[c].req, cfg)) \in Hashes
  BY <1>1, <1>3, CliPlanTyped DEF PlanHash, Hashes
<1>5. TypeOK'
  BY <1>2, <1>3, <1>4 DEF CliRecord
<1> QED
  BY <1>1, <1>2, <1>3, <1>5 DEF CliRecord, Asking, Untrained, OnCli, SoundJob

\* What is trained is the configuration the manifest's hash was computed from.
LEMMA CliTrainInv ==
  ASSUME IInv, NEW c \in Callers, CliTrain(c)
  PROVE  TypeOK' /\ CallerInv(c)'
<1> USE DEF IInv, CallerInv, TypeOK, Step, config
<1>1. /\ call[c] \in Call /\ call[c].req \in Requests /\ current[c] \in Block
      /\ recorded[c] = PlanHash(CliPlan(call[c].req, current[c]))
      /\ row[c] = NoPlan
  BY DEF CliTrain, OnCli, Call, Untrained
<1>2. trained' = [trained EXCEPT ![c] = CliPlan(call[c].req, current[c])]
  BY DEF CliTrain, ConfigTrained
<1>3. CliPlan(call[c].req, current[c]) \in CliPlans
  BY <1>1, CliPlanTyped
<1>4. TypeOK'
  BY <1>2, <1>3 DEF CliTrain
<1> QED
  BY <1>1, <1>2, <1>4 DEF CliTrain, Asking, Untrained, OnCli, SoundJob

CallerStep(c) == Handle(c) \/ Work(c) \/ Cli(c)

\* A step of one caller leaves every other caller as it was.
LEMMA OthersUnchanged ==
  ASSUME TypeOK, NEW c \in Callers, NEW d \in Callers, d # c, CallerStep(c)
  PROVE  /\ UNCHANGED config
         /\ phase'[d] = phase[d] /\ call'[d] = call[d] /\ registry'[d] = registry[d]
         /\ current'[d] = current[d] /\ shown'[d] = shown[d] /\ row'[d] = row[d]
         /\ trained'[d] = trained[d] /\ planner'[d] = planner[d] /\ recorded'[d] = recorded[d]
<1> USE DEF TypeOK, Step, ReadRegistry
<1>1. CASE Handle(c)
  BY <1>1 DEF Handle, Ask, Preview, Accept, Refuse
<1>2. CASE Work(c)
  BY <1>2 DEF Work, Train, Reject
<1>3. CASE Cli(c)
  BY <1>3 DEF Cli, CliIdentify, CliLock, CliRecord, CliTrain, CliGiveUp
<1> QED
  BY <1>1, <1>2, <1>3 DEF CallerStep

LEMMA NextInv == IInv /\ [Next]_vars => IInv'
<1> SUFFICES ASSUME IInv, [Next]_vars PROVE IInv'
  OBVIOUS
<1>1. CASE EditRow \/ EditRegistry \/ Deploy
  BY <1>1, EditInv
<1>2. ASSUME NEW c \in Callers, CallerStep(c)
      PROVE  IInv'
  <2>1. TypeOK' /\ CallerInv(c)'
    BY <1>2, AskInv, PreviewInv, AcceptInv, RefuseInv, TrainInv, RejectInv,
       CliIdentifyInv, CliRecordInv, CliTrainInv
    DEF CallerStep, Handle, Work, Cli
  <2>2. ASSUME NEW d \in Callers, d # c
        PROVE  CallerInv(d)'
    <3>1. TypeOK
      BY DEF IInv
    <3> QED
      BY <1>2, <2>2, <3>1, OthersUnchanged, OthersKeep
  <2> QED
    BY <2>1, <2>2 DEF IInv
<1>3. CASE UNCHANGED vars
  <2>1. TypeOK'
    BY <1>3 DEF IInv, TypeOK, vars, config, caller
  <2> QED
    BY <1>3, <2>1
    DEF vars, config, caller, IInv, CallerInv, Asking, Untrained, OnCli, SoundJob
<1> QED
  BY <1>1, <1>2, <1>3 DEF Next, CallerStep

LEMMA Inductive == Spec => []IInv
<1> QED
  BY InitInv, NextInv, PTL DEF Spec

-----------------------------------------------------------------------------
(* The theorems.                                                           *)

\* Every field keeps its type: plans shown and accepted are complete and their
\* parameters are numbers (build_training_plan).
THEOREM TypeCorrect == Spec => []TypeOK
<1>1. IInv => TypeOK
  BY DEF IInv
<1> QED
  BY <1>1, Inductive, PTL

\* No plan mixes the database's row with the registry's block
\* (resolve_model_config).
THEOREM NoMixedBlocks == Spec => []WholeBlocks
<1>1. IInv => WholeBlocks
  BY DEF IInv, CallerInv, WholeBlocks, AcceptedPlan, SoundJob
<1> QED
  BY <1>1, Inductive, PTL

\* A CLI training trains what its manifest's plan_hash records
\* (train_from_config's _config_override).
THEOREM CliRecordsWhatItTrains == Spec => []CliTrainsWhatItRecords
<1>1. IInv => CliTrainsWhatItRecords
  BY DEF IInv, CallerInv, CliTrainsWhatItRecords
<1> QED
  BY <1>1, Inductive, PTL

\* from_dict builds every accepted plan again unless the release of the worker
\* knows other parameters for its model.
THEOREM AcceptedPlansRestore == Spec => RejectsOnlyOtherParameters
<1> DEFINE A == \A c \in Callers :
                  Reject(c) =>
                    LET t == row[c].plan.model_type
                    IN Supported(ModelDefaults[release.worker], t)
                         # Supported(ModelDefaults[planner[c]], t)
<1>1. IInv /\ [Next]_vars => [A]_vars
  <2> SUFFICES ASSUME IInv, NEW c \in Callers, Reject(c),
                      Supported(ModelDefaults[release.worker], row[c].plan.model_type)
                        = Supported(ModelDefaults[planner[c]], row[c].plan.model_type)
               PROVE  FALSE
    OBVIOUS
  <2>1. SoundJob(c) /\ release.worker \in Releases
    BY DEF IInv, CallerInv, Untrained, Reject, Step, TypeOK
  <2>2. Faithful(c)
    BY <2>1 DEF SoundJob, Faithful
  <2> QED
    BY <2>2 DEF Reject
<1> QED
  BY <1>1, Inductive, PTL DEF Spec, RejectsOnlyOtherParameters
-----------------------------------------------------------------------------
(* The refinement.                                                         *)

LEMMA InitImplements == Init => C!Init
BY DEF Init, C!Init, AcceptedPlan, TrainedPlan

\* What every mapped variable is before a step of c, and after.
LEMMA MappedAt ==
  ASSUME IInv, NEW c \in Callers
  PROVE  /\ row[c] = NoPlan => AcceptedPlan[c] = NoPlan /\ TrainedPlan[c] = NoPlan
         /\ row[c] # NoPlan => /\ AcceptedPlan[c] = row[c].plan /\ row[c].plan \in Plan
                               /\ row[c].plan # NoPlan
                               /\ TrainedPlan[c] = trained[c]
<1>1. row[c] # NoPlan => row[c].plan \in Plan
  BY DEF IInv, CallerInv, SoundJob, Job
<1>2. NoPlan \notin Plan
  BY PlansAreCliPlans, PlanAssumption DEF PlanAssumption
<1> QED
  BY <1>1, <1>2 DEF AcceptedPlan, TrainedPlan

LEMMA StutterImplements ==
  ASSUME UNCHANGED <<strict, shown, row>>,
         \A c \in Callers : trained'[c] = trained[c] \/ row[c] = NoPlan
  PROVE  UNCHANGED C!vars
<1>1. UNCHANGED <<AcceptedPlan, TrainedPlan>>
  BY DEF AcceptedPlan, TrainedPlan
<1> QED
  BY <1>1 DEF C!vars

LEMMA PreviewImplements ==
  ASSUME IInv, IInv', NEW c \in Callers, Preview(c)
  PROVE  C!Next
<1>1. PICK p \in RequestPlans(c) : shown' = [shown EXCEPT ![c] = p]
  BY DEF Preview
<1>2. p \in OfOneBlock
  BY <1>1, RequestPlansSound DEF IInv, CallerInv, Preview, Asking, Step
<1>3. AcceptedPlan[c] = NoPlan
  BY MappedAt DEF IInv, CallerInv, Untrained, Preview, Step
<1>4. UNCHANGED <<strict, AcceptedPlan, TrainedPlan>>
  BY DEF Preview, AcceptedPlan, TrainedPlan, config
<1>5. C!Show(c, p)
  BY <1>1, <1>3, <1>4 DEF C!Show
<1> QED
  BY <1>2, <1>5 DEF C!Next

LEMMA AcceptImplements ==
  ASSUME IInv, IInv', NEW c \in Callers, Accept(c)
  PROVE  C!Next
<1> USE DEF Accept, Step
<1>1. PICK p \in RequestPlans(c) :
        /\ Verified(p, call[c].hash)
        /\ row' = [row EXCEPT ![c] = [plan |-> p, hash |-> PlanHash(p)]]
  BY DEF AsDict
<1>2. p \in OfOneBlock /\ p \in Plan
  BY <1>1, RequestPlansSound DEF IInv, CallerInv, Asking
<1>3. AcceptedPlan[c] = NoPlan /\ row[c] = NoPlan /\ trained[c] = NoPlan
  BY MappedAt DEF IInv, CallerInv, Untrained
<1>4. row'[c] = [plan |-> p, hash |-> PlanHash(p)] /\ row'[c] # NoPlan
  BY <1>1 DEF IInv, CallerInv, Untrained, TypeOK
<1>5. AcceptedPlan' = [AcceptedPlan EXCEPT ![c] = p]
  <2>1. ASSUME NEW d \in Callers, d # c
        PROVE  row'[d] = row[d]
    BY <1>1, <2>1 DEF IInv, TypeOK
  <2>2. ASSUME NEW d \in Callers
        PROVE  AcceptedPlan'[d] = [AcceptedPlan EXCEPT ![c] = p][d]
    BY <1>4, <2>1, <2>2 DEF AcceptedPlan
  <2> QED
    BY <2>2 DEF AcceptedPlan
<1>6. UNCHANGED <<strict, shown, TrainedPlan>>
  BY <1>1, <1>3, <1>4 DEF TrainedPlan, config
<1> DEFINE insist == call[c].hash # NoPlan
<1>7. insist => p = shown[c]
  BY <1>1 DEF IInv, CallerInv, Asking, Verified, PlanHash
<1>8. strict => insist
  BY <1>1 DEF Verified
<1>9. C!Accept(c, p, insist)
  BY <1>3, <1>5, <1>6, <1>7, <1>8 DEF C!Accept
<1>10. insist \in BOOLEAN
  OBVIOUS
<1> QED
  BY <1>2, <1>9, <1>10 DEF C!Next

LEMMA TrainImplements ==
  ASSUME IInv, IInv', NEW c \in Callers, Train(c)
  PROVE  C!Next
<1> USE DEF Train, Step
<1>1. row[c] # NoPlan /\ trained[c] = NoPlan
  BY DEF IInv, CallerInv, Untrained
<1>2. trained' = [trained EXCEPT ![c] = row[c].plan]
  BY FaithfulPlan
<1>3. AcceptedPlan[c] = row[c].plan /\ AcceptedPlan[c] # NoPlan /\ TrainedPlan[c] = NoPlan
  BY <1>1, MappedAt
<1>4. TrainedPlan' = [TrainedPlan EXCEPT ![c] = row[c].plan]
  <2>1. trained'[c] = row[c].plan /\ \A d \in Callers \ {c} : trained'[d] = trained[d]
    BY <1>2 DEF IInv, TypeOK
  <2>2. ASSUME NEW d \in Callers
        PROVE  TrainedPlan'[d] = [TrainedPlan EXCEPT ![c] = row[c].plan][d]
    BY <1>1, <2>1, <2>2 DEF TrainedPlan
  <2> QED
    BY <2>2 DEF TrainedPlan
<1>5. UNCHANGED <<strict, shown, AcceptedPlan>>
  BY DEF AcceptedPlan, config
<1>6. C!Train(c)
  BY <1>3, <1>4, <1>5 DEF C!Train
<1> QED
  BY <1>6 DEF C!Next

LEMMA StepImplements ==
  ASSUME IInv, IInv', [Next]_vars
  PROVE  [C!Next]_C!vars
<1>1. CASE EditRow \/ EditRegistry \/ Deploy
  BY <1>1, StutterImplements DEF EditRow, EditRegistry, Deploy, Edit, caller
<1>2. ASSUME NEW c \in Callers, Ask(c) \/ Refuse(c) \/ Reject(c)
      PROVE  UNCHANGED C!vars
  BY <1>2, StutterImplements DEF Ask, Refuse, Reject, config
<1>3. ASSUME NEW c \in Callers, Cli(c)
      PROVE  UNCHANGED C!vars
  <2>1. UNCHANGED <<strict, shown, row>>
    BY <1>3 DEF Cli, CliIdentify, CliLock, CliRecord, CliTrain, CliGiveUp, config
  <2>2. ASSUME NEW d \in Callers
        PROVE  trained'[d] = trained[d] \/ row[d] = NoPlan
    BY <1>3, <2>2 DEF Cli, CliIdentify, CliLock, CliRecord, CliTrain, CliGiveUp, Step,
                      IInv, CallerInv, Untrained, TypeOK
  <2> QED
    BY <2>1, <2>2, StutterImplements
<1>4. CASE UNCHANGED vars
  BY <1>4, StutterImplements DEF vars, config, caller
<1> QED
  BY <1>1, <1>2, <1>3, <1>4, PreviewImplements, AcceptImplements, TrainImplements
  DEF Next, Handle, Work

\* Preview, POST /train and worker keep the promise of Confirmation.
THEOREM Implements == Spec => ImplementsConfirmation
<1>1. Init => C!Init
  BY InitImplements
<1>2. IInv /\ IInv' /\ [Next]_vars => [C!Next]_C!vars
  BY StepImplements
<1> QED
  BY <1>1, <1>2, Inductive, PTL DEF Spec, ImplementsConfirmation, C!Spec
=============================================================================
