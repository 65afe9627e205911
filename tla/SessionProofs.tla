--------------------------- MODULE SessionProofs ---------------------------
(***************************************************************************)
(* What the provider cannot change, for any configuration and any answer:  *)
(* the walk stays within the configured depth, offline runs stay local,    *)
(* and the metadata of a finished run agrees with itself.                  *)
(***************************************************************************)
EXTENDS Session, TLAPS

\* The plan made without a model keeps within the configuration,
LEMMA DefaultPlanWithin ==
  ASSUME cfg \in Configs, NEW source \in {"none", "default", "llm", "fallback"}
  PROVE  /\ DefaultPlan(source) \in [source : {"none", "default", "llm", "fallback"},
                                     max_depth : Int, focus : SUBSET Modules]
         /\ DefaultPlan(source).max_depth \in 1 .. AtLeastOne(cfg.max_depth)
         /\ DefaultPlan(source).focus \subseteq cfg.focus
         /\ DefaultPlan(source).source = source
<1>1. cfg.max_depth \in Int /\ cfg.focus \in SUBSET Modules
  BY ConfigsAreConfigs
<1> QED BY <1>1 DEF DefaultPlan, AtLeastOne

\* and so does whatever a model answers, once it is clamped.
LEMMA ClampPlanWithin ==
  ASSUME cfg \in Configs, NEW depth \in Int, NEW focus \in SUBSET Modules
  PROVE  /\ ClampPlan(depth, focus) \in [source : {"none", "default", "llm", "fallback"},
                                         max_depth : Int, focus : SUBSET Modules]
         /\ ClampPlan(depth, focus).max_depth \in 1 .. AtLeastOne(cfg.max_depth)
         /\ ClampPlan(depth, focus).focus \subseteq cfg.focus
         /\ ClampPlan(depth, focus).source = "llm"
<1>1. cfg.max_depth \in Int /\ cfg.focus \in SUBSET Modules
  BY ConfigsAreConfigs
<1>2. AtMost(AtLeastOne(depth), AtLeastOne(cfg.max_depth)) \in 1 .. AtLeastOne(cfg.max_depth)
  BY <1>1 DEF AtMost, AtLeastOne
<1>3. 1 .. AtLeastOne(cfg.max_depth) \subseteq Int
  BY <1>1 DEF AtLeastOne
<1>4. (IF cfg.focus = {} THEN {} ELSE focus \cap cfg.focus) \subseteq cfg.focus
  OBVIOUS
<1> HIDE DEF AtMost
<1> QED BY <1>1, <1>2, <1>3, <1>4 DEF ClampPlan

PlanInv == TypeOK /\ PlanWithinConfig

\* No plan is made at first,
LEMMA PlanInvInit == Init => PlanInv
<1> SUFFICES ASSUME Init PROVE PlanInv
  OBVIOUS
<1>1. cfg \in Configs /\ cfg.max_depth \in Int
  BY ConfigsAreConfigs DEF Init
<1>2. TypeOK
  <2>1. plan \in [source : {"none", "default", "llm", "fallback"}, max_depth : Int,
                  focus : SUBSET Modules]
    BY DEF Init
  <2>2. outcome \in [Requests -> {"none", "ok", "failed"}]
    BY DEF Init
  <2>3. /\ phase = "planning" /\ cause = "none" /\ findings = {} /\ posts = {} /\ used = {}
        /\ fallback \in BOOLEAN /\ advice = {} /\ summary \in BOOLEAN
    BY DEF Init
  <2> QED BY <1>1, <2>1, <2>2, <2>3 DEF TypeOK
<1>3. 1 \in 1 .. AtLeastOne(cfg.max_depth)
  BY <1>1 DEF AtLeastOne
<1> QED BY <1>2, <1>3 DEF Init, PlanInv, PlanWithinConfig

\* A step that leaves the plan alone keeps what is known of the plan.
LEMMA PlanKept ==
  ASSUME PlanInv, UNCHANGED <<cfg, plan>>
  PROVE  /\ PlanWithinConfig'
         /\ cfg' \in Configs
         /\ plan' \in [source : {"none", "default", "llm", "fallback"}, max_depth : Int,
                       focus : SUBSET Modules]
BY DEF PlanInv, TypeOK, PlanWithinConfig

\* A failure only leaves Raise the causes of TypeOK.
LEMMA FailureTypes == Failures \subseteq {"request_error", "connection", "blocked"}
BY DEF Failures

\* and every step keeps within the configuration.
LEMMA PlanInvNext == PlanInv /\ [Next]_vars => PlanInv'
<1> SUFFICES ASSUME PlanInv, [Next]_vars PROVE PlanInv'
  OBVIOUS
<1> USE DEF PlanInv
<1>t. TypeOK
  OBVIOUS
<1>c. cfg \in Configs /\ cfg.features \in SUBSET FeatureNames /\ cfg.max_depth \in Int
  BY ConfigsAreConfigs DEF TypeOK
<1>1. CASE NoPlanning
  <2>1. PlanWithinConfig' /\ plan' \in [source : {"none", "default", "llm", "fallback"},
                                        max_depth : Int, focus : SUBSET Modules]
    BY <1>1, <1>c, DefaultPlanWithin DEF NoPlanning, PlanWithinConfig, AtLeastOne
  <2> QED BY <1>1, <1>t, <2>1 DEF NoPlanning, TypeOK
<1>2. CASE PlanAnswered
  <2> PICK depth \in Asked \cup {cfg.max_depth}, focus \in SUBSET Modules :
           plan' = ClampPlan(depth, focus)
    BY <1>2 DEF PlanAnswered
  <2>1. depth \in Int
    BY <1>c, AskedIsInt
  <2>2. PlanWithinConfig' /\ plan' \in [source : {"none", "default", "llm", "fallback"},
                                        max_depth : Int, focus : SUBSET Modules]
    BY <1>2, <1>c, <2>1, ClampPlanWithin DEF PlanAnswered, AskForPlan, PlanWithinConfig, AtLeastOne
  <2> QED BY <1>2, <1>t, <2>2
          DEF PlanAnswered, AskForPlan, TypeOK, Sent, Requests, FeatureNames
<1>3. CASE PlanIsInfinite
  BY <1>3, <1>t, PlanKept DEF PlanIsInfinite, AskForPlan, TypeOK, Sent, Raise, Requests
<1>4. CASE PlanFailed
  <2> PICK failure \in Failures :
        IF failure \in Caught
        THEN /\ plan' = DefaultPlan("fallback")
             /\ outcome' = [outcome EXCEPT !["exploration_planning"] = "failed"]
             /\ fallback' = TRUE
             /\ phase' = "analysing"
             /\ UNCHANGED cause
        ELSE Raise(failure) /\ UNCHANGED <<plan, outcome, fallback>>
    BY <1>4 DEF PlanFailed
  <2>1. CASE failure \in Caught
    <3>1. PlanWithinConfig' /\ plan' \in [source : {"none", "default", "llm", "fallback"},
                                          max_depth : Int, focus : SUBSET Modules]
      BY <1>4, <1>c, <2>1, DefaultPlanWithin DEF PlanFailed, AskForPlan, PlanWithinConfig, AtLeastOne
    <3> QED BY <1>4, <1>t, <2>1, <3>1 DEF PlanFailed, AskForPlan, TypeOK, Sent, Requests
  <2>2. CASE failure \notin Caught
    BY <1>4, <1>t, <2>2, PlanKept, FailureTypes
       DEF PlanFailed, AskForPlan, TypeOK, Sent, Raise, Requests, Caught
  <2> QED BY <2>1, <2>2
<1>5. CASE Analyze
  BY <1>5, <1>t, PlanKept DEF Analyze, TypeOK
<1>6. CASE AnalysisFails
  BY <1>6, <1>t, PlanKept DEF AnalysisFails, Raise, TypeOK
<1>7. CASE NoWording
  BY <1>7, <1>t, PlanKept DEF NoWording, TypeOK
<1>8. CASE NothingToWord
  BY <1>8, <1>t, <1>c, PlanKept
     DEF NothingToWord, AskForWording, WordingDone, NothingSent, TypeOK, Requests
<1>9. CASE WordingAnswered
  <2> PICK items \in SUBSET Items : advice' = KeptItems(items)
    BY <1>9 DEF WordingAnswered
  <2>1. advice' \in SUBSET [id : Ids, kind : KnownKinds]
    BY DEF KeptItems, Items
  <2> QED BY <1>9, <1>t, <1>c, <2>1, PlanKept
          DEF WordingAnswered, AskForWording, WordingDone, Sent, TypeOK, Requests
<1>10. CASE WordingFailed
  BY <1>10, <1>t, PlanKept, FailureTypes
     DEF WordingFailed, AskForWording, TypeOK, Sent, Raise, Requests, Caught
<1>11. CASE NoSummary
  BY <1>11, <1>t, PlanKept DEF NoSummary, TypeOK
<1>12. CASE SummaryAnswered
  BY <1>12, <1>t, PlanKept DEF SummaryAnswered, AskForSummary, Sent, TypeOK, Requests, FeatureNames
<1>13. CASE SummaryFailed
  BY <1>13, <1>t, PlanKept, FailureTypes
     DEF SummaryFailed, AskForSummary, TypeOK, Sent, Raise, Requests, Caught
<1>14. CASE UNCHANGED vars
  BY <1>14, <1>t, PlanKept DEF vars, TypeOK
<1> QED BY <1>1, <1>2, <1>3, <1>4, <1>5, <1>6, <1>7, <1>8, <1>9, <1>10, <1>11, <1>12, <1>13,
           <1>14 DEF Next

\* The variables of a session keep their types, for every configuration and answer.
THEOREM SessionTypes == Spec => []TypeOK
<1>1. PlanInv => TypeOK
  BY DEF PlanInv
<1> QED BY <1>1, PlanInvInit, PlanInvNext, PTL DEF Spec

\* Whatever depth and modules a provider asks for, the plan stays within the
\* configuration (clamp_plan, default_plan).
THEOREM PlanStaysWithinConfig == Spec => []PlanWithinConfig
<1>1. PlanInv => PlanWithinConfig
  BY DEF PlanInv
<1> QED BY <1>1, PlanInvInit, PlanInvNext, PTL DEF Spec

----------------------------------------------------------------------------
(* The story the metadata tells.  It has to be carried from the request to *)
(* the end: a request not made yet has no outcome, and between the steps   *)
(* the lists agree already.                                                *)

RequestOf(f) == IF f \in Wordings THEN "remediation_wording" ELSE f

StoryInv ==
  /\ phase = "planning" => outcome["exploration_planning"] = "none" /\ ~fallback
  /\ phase \in {"planning", "analysing", "wording"} => outcome["remediation_wording"] = "none"
  /\ phase \in {"planning", "analysing", "wording", "summary"} =>
       outcome["report_summary"] = "none"
  /\ phase \notin {"planning", "raised"} =>
       /\ plan.source = "llm" <=> outcome["exploration_planning"] = "ok"
       /\ plan.source = "fallback" <=> outcome["exploration_planning"] = "failed"
       /\ fallback <=> plan.source = "fallback"
  /\ used = {f \in cfg.features : outcome[RequestOf(f)] = "ok"}
  /\ phase # "raised" => \A r \in posts : outcome[r] # "none"

LocalInv ==
  /\ cause \in {"none", "analysis"} \/ Active(cfg)
  /\ cfg.privacy = "offline" => posts = {} /\ used = {}

\* The configuration is fixed and decides whether a provider exists at all.
LEMMA LocalInvNext == TypeOK /\ LocalInv /\ [Next]_vars => LocalInv'
<1> SUFFICES ASSUME TypeOK, LocalInv, [Next]_vars PROVE LocalInv'
  OBVIOUS
<1>1. CASE NoPlanning \/ Analyze \/ AnalysisFails \/ NoWording \/ NoSummary \/ UNCHANGED vars
  BY <1>1 DEF LocalInv, Active, NoPlanning, Analyze, AnalysisFails, NoWording, NoSummary,
              Raise, vars
<1>2. CASE PlanAnswered \/ PlanIsInfinite \/ PlanFailed
  <2>1. Active(cfg) /\ cfg' = cfg
    BY <1>2 DEF PlanAnswered, PlanIsInfinite, PlanFailed, AskForPlan
  <2> QED BY <2>1 DEF LocalInv, Active
<1>3. CASE NothingToWord \/ WordingAnswered \/ WordingFailed
  <2>1. Active(cfg) /\ cfg' = cfg
    BY <1>3 DEF NothingToWord, WordingAnswered, WordingFailed, AskForWording, WantsWording
  <2> QED BY <2>1 DEF LocalInv, Active
<1>4. CASE SummaryAnswered \/ SummaryFailed
  <2>1. Active(cfg) /\ cfg' = cfg
    BY <1>4 DEF SummaryAnswered, SummaryFailed, AskForSummary, WantsSummary
  <2> QED BY <2>1 DEF LocalInv, Active
<1> QED BY <1>1, <1>2, <1>3, <1>4 DEF Next

\* Offline runs send nothing and lose nothing by it (AssistPolicy.active, block_network).
THEOREM OfflineIsLocal == Spec => []OfflineStaysLocal
<1>1. Init => LocalInv
  BY DEF Init, LocalInv
<1>2. LocalInv => OfflineStaysLocal
  BY DEF LocalInv, OfflineStaysLocal, Active
<1>3. PlanInv => TypeOK
  BY DEF PlanInv
<1> QED BY <1>1, <1>2, <1>3, LocalInvNext, PlanInvInit, PlanInvNext, PTL DEF Spec

\* Recording the outcome of one request moves only that request's features in or out
\* of those that were answered.
LEMMA UsedAfter ==
  ASSUME TypeOK, StoryInv, NEW r \in Requests, NEW o \in {"ok", "failed"},
         outcome[r] = "none", outcome' = [outcome EXCEPT ![r] = o], cfg' = cfg,
         used' = IF o = "ok" THEN used \cup {f \in cfg.features : RequestOf(f) = r} ELSE used
  PROVE  used' = {f \in cfg.features : outcome'[RequestOf(f)] = "ok"}
<1>1. ASSUME NEW f \in cfg.features
      PROVE  RequestOf(f) \in Requests
  <2>1. f \in FeatureNames
    BY ConfigsAreConfigs DEF TypeOK
  <2> QED BY <2>1 DEF FeatureNames, RequestOf, Wordings, Requests
<1>2. ASSUME NEW q \in Requests
      PROVE  outcome'[q] = IF q = r THEN o ELSE outcome[q]
  BY DEF TypeOK
<1>3. used = {f \in cfg.features : outcome[RequestOf(f)] = "ok"}
  BY DEF StoryInv
<1> QED BY <1>1, <1>2, <1>3

\* Nothing is asked or told at first,
LEMMA StoryInvInit == Init => StoryInv
<1> SUFFICES ASSUME Init PROVE StoryInv
  OBVIOUS
<1>1. ASSUME NEW f \in cfg.features
      PROVE  RequestOf(f) \in Requests
  <2>1. f \in FeatureNames
    BY ConfigsAreConfigs DEF Init
  <2> QED BY <2>1 DEF FeatureNames, RequestOf, Wordings, Requests
<1>2. \A r \in Requests : outcome[r] = "none"
  BY DEF Init
<1>3. used = {f \in cfg.features : outcome[RequestOf(f)] = "ok"}
  BY <1>1, <1>2 DEF Init
<1> QED BY <1>2, <1>3 DEF Init, StoryInv, Requests

\* A step that records nothing keeps what was recorded.
LEMMA StoryKept ==
  ASSUME StoryInv, UNCHANGED <<cfg, outcome, used>>
  PROVE  used' = {f \in cfg'.features : outcome'[RequestOf(f)] = "ok"}
BY DEF StoryInv

\* and every step tells what it does.
LEMMA StoryInvNext == PlanInv /\ StoryInv /\ [Next]_vars => StoryInv'
<1> SUFFICES ASSUME PlanInv, StoryInv, [Next]_vars PROVE StoryInv'
  OBVIOUS
<1>t. TypeOK /\ cfg \in Configs /\ cfg.max_depth \in Int
  BY ConfigsAreConfigs DEF PlanInv, TypeOK
<1>o. outcome \in [Requests -> {"none", "ok", "failed"}]
  BY <1>t DEF TypeOK
<1>1. CASE NoPlanning
  <2>1. plan'.source = "default"
    BY <1>1, <1>t, DefaultPlanWithin DEF NoPlanning
  <2> QED BY <1>1, <2>1, StoryKept DEF NoPlanning, StoryInv
<1>2. CASE PlanAnswered
  <2>1. plan'.source = "llm"
    <3> PICK depth \in Asked \cup {cfg.max_depth}, focus \in SUBSET Modules :
             plan' = ClampPlan(depth, focus)
      BY <1>2 DEF PlanAnswered
    <3> QED BY AskedIsInt, <1>t, ClampPlanWithin
  <2>2. used' = {f \in cfg.features : outcome'[RequestOf(f)] = "ok"}
    <3>1. {f \in cfg.features : RequestOf(f) = "exploration_planning"} = {"exploration_planning"}
      BY <1>2 DEF PlanAnswered, AskForPlan, Enabled, RequestOf, Wordings
    <3>2. outcome["exploration_planning"] = "none" /\ "exploration_planning" \in Requests
      BY <1>2 DEF PlanAnswered, AskForPlan, StoryInv, Requests
    <3> QED BY <1>2, <1>t, <3>1, <3>2, UsedAfter DEF PlanAnswered, AskForPlan
  <2> QED BY <1>2, <1>o, <2>1, <2>2
          DEF PlanAnswered, AskForPlan, Sent, StoryInv, Requests
<1>3. CASE PlanIsInfinite
  BY <1>3, StoryKept DEF PlanIsInfinite, AskForPlan, Raise, StoryInv
<1>4. CASE PlanFailed
  <2> PICK failure \in Failures :
        IF failure \in Caught
        THEN /\ plan' = DefaultPlan("fallback")
             /\ outcome' = [outcome EXCEPT !["exploration_planning"] = "failed"]
             /\ fallback' = TRUE
             /\ phase' = "analysing"
             /\ UNCHANGED cause
        ELSE Raise(failure) /\ UNCHANGED <<plan, outcome, fallback>>
    BY <1>4 DEF PlanFailed
  <2>1. CASE failure \in Caught
    <3>1. plan'.source = "fallback"
      BY <1>t, <2>1, DefaultPlanWithin
    <3>2. used' = {f \in cfg.features : outcome'[RequestOf(f)] = "ok"}
      BY <1>4, <1>t, <2>1, UsedAfter DEF PlanFailed, AskForPlan, StoryInv, Requests
    <3>3. /\ phase' = "analysing" /\ outcome' = [outcome EXCEPT !["exploration_planning"] = "failed"]
          /\ fallback' = TRUE /\ phase = "planning" /\ UNCHANGED cfg
          /\ posts' \subseteq posts \cup {"exploration_planning"}
      BY <1>4, <2>1 DEF PlanFailed, AskForPlan, Sent
    <3> QED BY <1>o, <1>t, <3>1, <3>2, <3>3 DEF StoryInv, Requests, TypeOK
  <2>2. CASE failure \notin Caught
    BY <1>4, <2>2, StoryKept DEF PlanFailed, AskForPlan, Raise, StoryInv
  <2> QED BY <2>1, <2>2
<1>5. CASE Analyze
  BY <1>5, StoryKept DEF Analyze, StoryInv
<1>6. CASE AnalysisFails
  BY <1>6, StoryKept DEF AnalysisFails, Raise, StoryInv
<1>7. CASE NoWording
  BY <1>7, StoryKept DEF NoWording, StoryInv
<1>8. CASE NothingToWord \/ WordingAnswered
  <2>1. /\ phase = "wording" /\ WordingDone /\ UNCHANGED <<cfg, plan, fallback>>
        /\ posts' \subseteq posts \cup {"remediation_wording"}
    BY <1>8 DEF NothingToWord, WordingAnswered, AskForWording, NothingSent, Sent
  <2>2. used' = {f \in cfg.features : outcome'[RequestOf(f)] = "ok"}
    <3>1. {f \in cfg.features : RequestOf(f) = "remediation_wording"} = cfg.features \cap Wordings
      BY DEF RequestOf, Wordings
    <3>2. outcome["remediation_wording"] = "none" /\ "remediation_wording" \in Requests
      BY <2>1 DEF StoryInv, Requests
    <3> QED BY <1>t, <2>1, <3>1, <3>2, UsedAfter DEF WordingDone
  <2> QED BY <1>o, <1>t, <2>1, <2>2 DEF WordingDone, StoryInv, Requests, TypeOK
<1>9. CASE WordingFailed
  <2> PICK failure \in Failures :
        IF failure \in Caught
        THEN /\ outcome' = [outcome EXCEPT !["remediation_wording"] = "failed"]
             /\ phase' = "summary"
             /\ UNCHANGED cause
        ELSE Raise(failure) /\ UNCHANGED outcome
    BY <1>9 DEF WordingFailed
  <2>1. CASE failure \in Caught
    <3>1. used' = {f \in cfg.features : outcome'[RequestOf(f)] = "ok"}
      BY <1>9, <1>t, <2>1, UsedAfter DEF WordingFailed, AskForWording, StoryInv, Requests
    <3> QED BY <1>9, <1>o, <1>t, <2>1, <3>1
            DEF WordingFailed, AskForWording, Sent, StoryInv, Requests, TypeOK
  <2>2. CASE failure \notin Caught
    BY <1>9, <2>2, StoryKept DEF WordingFailed, AskForWording, Raise, StoryInv
  <2> QED BY <2>1, <2>2
<1>10. CASE NoSummary
  BY <1>10, StoryKept DEF NoSummary, StoryInv
<1>11. CASE SummaryAnswered
  <2>1. used' = {f \in cfg.features : outcome'[RequestOf(f)] = "ok"}
    <3>1. {f \in cfg.features : RequestOf(f) = "report_summary"} = {"report_summary"}
      BY <1>11 DEF SummaryAnswered, AskForSummary, WantsSummary, Enabled, RequestOf, Wordings
    <3>2. outcome["report_summary"] = "none" /\ "report_summary" \in Requests
      BY <1>11 DEF SummaryAnswered, AskForSummary, StoryInv, Requests
    <3> QED BY <1>11, <1>t, <3>1, <3>2, UsedAfter DEF SummaryAnswered, AskForSummary
  <2> QED BY <1>11, <1>o, <1>t, <2>1
          DEF SummaryAnswered, AskForSummary, Sent, StoryInv, Requests, TypeOK
<1>12. CASE SummaryFailed
  <2> PICK failure \in Failures :
        IF failure \in Caught
        THEN /\ outcome' = [outcome EXCEPT !["report_summary"] = "failed"]
             /\ phase' = "done"
             /\ UNCHANGED cause
        ELSE Raise(failure) /\ UNCHANGED outcome
    BY <1>12 DEF SummaryFailed
  <2>1. CASE failure \in Caught
    <3>1. used' = {f \in cfg.features : outcome'[RequestOf(f)] = "ok"}
      BY <1>12, <1>t, <2>1, UsedAfter DEF SummaryFailed, AskForSummary, StoryInv, Requests
    <3> QED BY <1>12, <1>o, <1>t, <2>1, <3>1
            DEF SummaryFailed, AskForSummary, Sent, StoryInv, Requests, TypeOK
  <2>2. CASE failure \notin Caught
    BY <1>12, <2>2, StoryKept DEF SummaryFailed, AskForSummary, Raise, StoryInv
  <2> QED BY <2>1, <2>2
<1>13. CASE UNCHANGED vars
  BY <1>13, StoryKept DEF vars, StoryInv
<1> QED BY <1>1, <1>2, <1>3, <1>4, <1>5, <1>6, <1>7, <1>8, <1>9, <1>10, <1>11, <1>12, <1>13
        DEF Next

\* What the report says of plan, fallback, features and requests is consistent, whatever
\* was answered and whatever failed (LLMSession.resolve_plan, metadata_after).
THEOREM MetadataIsConsistent == Spec => []MetadataAgrees
<1>1. StoryInv => MetadataAgrees
  BY DEF StoryInv, MetadataAgrees, RequestOf
<1> QED BY <1>1, StoryInvInit, StoryInvNext, PlanInvInit, PlanInvNext, PTL DEF Spec

\* Until the wording is answered there is no advice, until the end no summary.
AdviceInv ==
  /\ TypeOK
  /\ AdviceIsAboutFindings
  /\ phase \in {"planning", "analysing", "wording"} => advice = {}
  /\ phase # "done" => ~summary

\* No step advises on a finding the analysis does not report.
LEMMA AdviceInvNext == AdviceInv /\ [Next]_vars => (TypeOK' => AdviceInv')
<1> SUFFICES ASSUME AdviceInv, [Next]_vars, TypeOK' PROVE AdviceInv'
  OBVIOUS
<1> USE DEF AdviceInv, AdviceIsAboutFindings, Requests
<1>1. CASE NoPlanning \/ NoWording \/ NoSummary
  BY <1>1 DEF NoPlanning, NoWording, NoSummary
<1>2. CASE PlanAnswered \/ PlanIsInfinite \/ PlanFailed
  <2>1. UNCHANGED <<findings, advice, summary>> /\ phase = "planning"
        /\ phase' \in {"analysing", "raised"}
    BY <1>2 DEF PlanAnswered, PlanIsInfinite, PlanFailed, AskForPlan, Raise
  <2> QED BY <2>1
<1>3. CASE Analyze \/ AnalysisFails
  BY <1>3 DEF Analyze, AnalysisFails, Raise
<1>4. CASE NothingToWord
  <2>1. outcome'["remediation_wording"] = "ok" /\ advice' = {} /\ summary' = summary
        /\ phase = "wording" /\ phase' = "summary"
    BY <1>4 DEF NothingToWord, AskForWording, WordingDone, TypeOK
  <2> QED BY <2>1
<1>5. CASE WordingAnswered
  <2>1. outcome'["remediation_wording"] = "ok" /\ summary' = summary /\ findings' = findings
        /\ phase = "wording" /\ phase' = "summary"
    BY <1>5 DEF WordingAnswered, AskForWording, WordingDone, TypeOK
  <2>2. \A i \in advice' : i.id \in findings
    BY <1>5 DEF WordingAnswered, KeptItems
  <2> QED BY <2>1, <2>2
<1>6. CASE WordingFailed
  <2>1. advice' = {} /\ summary' = summary /\ phase = "wording" /\ phase' \in {"summary", "raised"}
    BY <1>6 DEF WordingFailed, AskForWording, Raise
  <2> QED BY <2>1
<1>7. CASE SummaryAnswered
  <2>1. /\ outcome' = [outcome EXCEPT !["report_summary"] = "ok"]
        /\ UNCHANGED <<advice, findings>> /\ phase = "summary" /\ phase' = "done"
    BY <1>7 DEF SummaryAnswered, AskForSummary
  <2>2. /\ outcome'["report_summary"] = "ok"
        /\ outcome'["remediation_wording"] = outcome["remediation_wording"]
    BY <2>1 DEF TypeOK
  <2> QED BY <2>1, <2>2
<1>8. CASE SummaryFailed
  <2>1. /\ UNCHANGED <<advice, findings, summary>> /\ phase = "summary" /\ phase' \in {"done", "raised"}
    BY <1>8 DEF SummaryFailed, AskForSummary, Raise
  <2>2. outcome'["remediation_wording"] = outcome["remediation_wording"]
    BY <1>8 DEF SummaryFailed, TypeOK
  <2> QED BY <2>1, <2>2
<1>9. CASE UNCHANGED vars
  BY <1>9 DEF vars
<1> QED BY <1>1, <1>2, <1>3, <1>4, <1>5, <1>6, <1>7, <1>8, <1>9 DEF Next

\* Advice names findings of this run and comes only of an answered request, and so does
\* the summary.
THEOREM AdviceIsEarned == Spec => []AdviceIsAboutFindings
<1>1. Init /\ TypeOK => AdviceInv
  BY DEF Init, AdviceInv, AdviceIsAboutFindings
<1>2. AdviceInv => AdviceIsAboutFindings
  BY DEF AdviceInv
<1> QED BY <1>1, <1>2, AdviceInvNext, SessionTypes, PTL DEF Spec
=============================================================================
