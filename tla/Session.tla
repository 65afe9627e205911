------------------------------ MODULE Session ------------------------------
(***************************************************************************)
(* One run of analyze_repository with its LLM assistance (llm/session.py): *)
(* the provider may be asked for an exploration plan before the analysis,  *)
(* for the wording of the findings and for a summary after it.  Whatever   *)
(* it answers is clamped, filtered or dropped; whatever goes wrong is      *)
(* meant to leave the analysis as it would have been without it.           *)
(*                                                                         *)
(* A configuration holds max_depth, focus (the modules of focusModules),   *)
(* privacy, enabled and features (llm.allowedFeatures).  The text of       *)
(* prompts and answers is left out, but for what the session reads in an   *)
(* answer.                                                                 *)
(***************************************************************************)
EXTENDS Integers

CONSTANTS
  Configs,      \* the configurations the command line may hand over
  Modules,      \* names an answer may put among the modules to focus on
  Ids,          \* the ids a finding may have, and an answer may name
  Asked         \* the depths an answer may ask for

\* llm/features.py
FeatureNames == {"exploration_planning", "remediation_wording", "reproduction_drafting",
                 "report_summary", "proof_prose_polishing"}
Wordings == {"remediation_wording", "reproduction_drafting", "proof_prose_polishing"}

\* The features of the requests that are made: one request drafts all wordings.
Requests == {"exploration_planning", "remediation_wording", "report_summary"}

\* The kinds of advice an answer may contain, after parse_advisory_items' own list.
KnownKinds == {"recommended_fix_wording", "reproduction_draft", "proof_prose",
               "report_summary"}

ASSUME ConfigsAreConfigs ==
  Configs \subseteq [max_depth : Int, focus : SUBSET Modules, enabled : BOOLEAN,
                     privacy : {"offline", "redacted", "full-assist"},
                     features : SUBSET FeatureNames]
ASSUME AskedIsInt == Asked \subseteq Int

VARIABLES
  cfg,
  phase,      \* "planning", "analysing", "wording", "summary", "done" or "raised"
  cause,      \* of an exception that left analyze_repository, or "none"
  plan,
  findings,   \* the ids of the findings
  posts,      \* the requests that reached the network
  outcome,    \* what the session recorded of each request
  used,       \* the features the report says were used
  fallback,   \* whether a reason for falling back is recorded
  advice,     \* the advisory items attached to findings
  summary     \* whether the report has a summary

vars == <<cfg, phase, cause, plan, findings, posts, outcome, used, fallback, advice, summary>>

----------------------------------------------------------------------------
(* The policy and the transport.                                           *)

\* Mutation: the privacy mode does not count.
ActiveIfEnabled(c) == c.enabled /\ c.features # {}

\* AssistPolicy.active: without it there is no provider and no request.
Active(c) == c.enabled /\ c.privacy # "offline" /\ c.features # {}

\* The second defence: the analysis runs under block_network.
Blocked(c) == c.privacy = "offline"

Enabled(feature) == feature \in cfg.features

\* How a request that yields no usable answer ends: an exception the session catches
\* (the provider reports an error, times out, or answers what cannot be read), one of
\* the socket or of http.client while the answer is awaited or read, or, when the
\* network is blocked, NetworkBlockedError.
Failures == IF Blocked(cfg) THEN {"blocked"} ELSE {"request_error", "connection"}

\* What the session's except clauses name.
Caught == {"request_error"}

Sent(feature) == posts' = IF Blocked(cfg) THEN posts ELSE posts \cup {feature}
NothingSent == posts' = posts

Raise(why) == phase' = "raised" /\ cause' = why

----------------------------------------------------------------------------
(* Planning.                                                               *)

AtLeastOne(n) == IF n < 1 THEN 1 ELSE n
AtMost(n, m) == IF n > m THEN m ELSE n

DefaultPlan(source) ==
  [source |-> source, max_depth |-> AtLeastOne(cfg.max_depth), focus |-> cfg.focus]

\* Mutation: an answer may ask for a deeper walk than the configuration allows.
ClampPlanLow(depth, focus) ==
  [source |-> "llm", max_depth |-> AtLeastOne(depth),
   focus |-> IF cfg.focus = {} THEN {} ELSE focus \cap cfg.focus]

\* The plan for an answer that asks for depth and focus, both within the configuration.
ClampPlan(depth, focus) ==
  [source |-> "llm", max_depth |-> AtMost(AtLeastOne(depth), AtLeastOne(cfg.max_depth)),
   focus |-> IF cfg.focus = {} THEN {} ELSE focus \cap cfg.focus]

Init ==
  /\ cfg \in Configs
  /\ phase = "planning"
  /\ cause = "none"
  /\ plan = [source |-> "none", max_depth |-> 1, focus |-> {}]
  /\ findings = {}
  /\ posts = {}
  /\ outcome = [r \in Requests |-> "none"]
  /\ used = {}
  /\ fallback = FALSE
  /\ advice = {}
  /\ summary = FALSE

NoPlanning ==
  /\ phase = "planning"
  /\ ~(Active(cfg) /\ Enabled("exploration_planning"))
  /\ plan' = DefaultPlan("default")
  /\ phase' = "analysing"
  /\ UNCHANGED <<cfg, cause, findings, posts, outcome, used, fallback, advice, summary>>

AskForPlan ==
  /\ phase = "planning"
  /\ Active(cfg) /\ Enabled("exploration_planning")
  /\ Sent("exploration_planning")
  /\ UNCHANGED <<cfg, findings, advice, summary>>

\* A depth that is missing or no number counts as the configured one.
PlanAnswered ==
  /\ AskForPlan
  /\ ~Blocked(cfg)
  /\ \E depth \in Asked \cup {cfg.max_depth}, focus \in SUBSET Modules :
       plan' = ClampPlan(depth, focus)
  /\ outcome' = [outcome EXCEPT !["exploration_planning"] = "ok"]
  /\ used' = used \cup {"exploration_planning"}
  /\ phase' = "analysing"
  /\ UNCHANGED <<cause, fallback>>

\* The JSON number Infinity makes int() raise OverflowError, which is no ValueError.
PlanIsInfinite ==
  /\ AskForPlan
  /\ ~Blocked(cfg)
  /\ Raise("answer")
  /\ UNCHANGED <<plan, outcome, used, fallback>>

\* Mutation: the failure is not recorded.
PlanFailedSilently ==
  /\ AskForPlan
  /\ \E failure \in Failures :
       IF failure \in Caught
       THEN /\ plan' = DefaultPlan("fallback")
            /\ phase' = "analysing"
            /\ UNCHANGED <<cause, outcome, fallback>>
       ELSE Raise(failure) /\ UNCHANGED <<plan, outcome, fallback>>
  /\ UNCHANGED used

PlanFailed ==
  /\ AskForPlan
  /\ \E failure \in Failures :
       IF failure \in Caught
       THEN /\ plan' = DefaultPlan("fallback")
            /\ outcome' = [outcome EXCEPT !["exploration_planning"] = "failed"]
            /\ fallback' = TRUE
            /\ phase' = "analysing"
            /\ UNCHANGED cause
       ELSE Raise(failure) /\ UNCHANGED <<plan, outcome, fallback>>
  /\ UNCHANGED used

----------------------------------------------------------------------------
(* The analysis, and the advice on what it found.                          *)

Analyze ==
  /\ phase = "analysing"
  /\ findings' \in SUBSET Ids
  /\ phase' = "wording"
  /\ UNCHANGED <<cfg, cause, plan, posts, outcome, used, fallback, advice, summary>>

\* The helper cannot be found, run or understood.
AnalysisFails ==
  /\ phase = "analysing"
  /\ Raise("analysis")
  /\ UNCHANGED <<cfg, plan, findings, posts, outcome, used, fallback, advice, summary>>

WantsWording == Active(cfg) /\ cfg.features \cap Wordings # {}

NoWording ==
  /\ phase = "wording"
  /\ ~WantsWording
  /\ phase' = "summary"
  /\ UNCHANGED <<cfg, cause, plan, findings, posts, outcome, used, fallback, advice, summary>>

AskForWording ==
  /\ phase = "wording"
  /\ WantsWording
  /\ UNCHANGED <<cfg, plan, findings, fallback, summary>>

WordingDone ==
  /\ outcome' = [outcome EXCEPT !["remediation_wording"] = "ok"]
  /\ used' = used \cup (cfg.features \cap Wordings)
  /\ phase' = "summary"
  /\ UNCHANGED cause

\* Without findings the request returns before it is sent, and counts as answered.
NothingToWord ==
  /\ AskForWording
  /\ findings = {}
  /\ NothingSent
  /\ advice' = {}
  /\ WordingDone

\* Mutation: what is said of other findings is kept.
KeptAnyItems(items) == {i \in items : i.kind \in KnownKinds}

\* Mutation: what is said under any heading is kept.
KeptAnyKind(items) == {i \in items : i.id \in findings}

\* parse_advisory_items: what names a finding of this run and has a known kind.
KeptItems(items) == {i \in items : i.id \in findings /\ i.kind \in KnownKinds}

Items == [id : Ids, kind : KnownKinds \cup {"severity"}]

WordingAnswered ==
  /\ AskForWording
  /\ findings # {} /\ ~Blocked(cfg)
  /\ Sent("remediation_wording")
  /\ \E items \in SUBSET Items : advice' = KeptItems(items)
  /\ WordingDone

WordingFailed ==
  /\ AskForWording
  /\ findings # {}
  /\ Sent("remediation_wording")
  /\ \E failure \in Failures :
       IF failure \in Caught
       THEN /\ outcome' = [outcome EXCEPT !["remediation_wording"] = "failed"]
            /\ phase' = "summary"
            /\ UNCHANGED cause
       ELSE Raise(failure) /\ UNCHANGED outcome
  /\ UNCHANGED <<used, advice>>

WantsSummary == Active(cfg) /\ Enabled("report_summary")

NoSummary ==
  /\ phase = "summary"
  /\ ~WantsSummary
  /\ phase' = "done"
  /\ UNCHANGED <<cfg, cause, plan, findings, posts, outcome, used, fallback, advice, summary>>

AskForSummary ==
  /\ phase = "summary"
  /\ WantsSummary
  /\ Sent("report_summary")
  /\ UNCHANGED <<cfg, plan, findings, fallback, advice>>

\* A blank text is no summary, but counts as answered.
SummaryAnswered ==
  /\ AskForSummary
  /\ ~Blocked(cfg)
  /\ summary' \in BOOLEAN
  /\ outcome' = [outcome EXCEPT !["report_summary"] = "ok"]
  /\ used' = used \cup {"report_summary"}
  /\ phase' = "done"
  /\ UNCHANGED cause

SummaryFailed ==
  /\ AskForSummary
  /\ \E failure \in Failures :
       IF failure \in Caught
       THEN /\ outcome' = [outcome EXCEPT !["report_summary"] = "failed"]
            /\ phase' = "done"
            /\ UNCHANGED cause
       ELSE Raise(failure) /\ UNCHANGED outcome
  /\ UNCHANGED <<used, summary>>

Next ==
  \/ NoPlanning \/ PlanAnswered \/ PlanIsInfinite \/ PlanFailed
  \/ Analyze \/ AnalysisFails
  \/ NoWording \/ NothingToWord \/ WordingAnswered \/ WordingFailed
  \/ NoSummary \/ SummaryAnswered \/ SummaryFailed

Spec == Init /\ [][Next]_vars

----------------------------------------------------------------------------
(* Properties.                                                             *)

\* The variables have their types; in particular only the known kinds of advice are kept.
TypeOK ==
  /\ cfg \in Configs
  /\ phase \in {"planning", "analysing", "wording", "summary", "done", "raised"}
  /\ cause \in {"none", "answer", "connection", "blocked", "analysis"}
  /\ plan \in [source : {"none", "default", "llm", "fallback"}, max_depth : Int,
               focus : SUBSET Modules]
  /\ findings \in SUBSET Ids
  /\ posts \in SUBSET Requests
  /\ outcome \in [Requests -> {"none", "ok", "failed"}]
  /\ used \in SUBSET FeatureNames
  /\ fallback \in BOOLEAN
  /\ advice \in SUBSET [id : Ids, kind : KnownKinds]
  /\ summary \in BOOLEAN

\* Whatever the provider answers, the walk is at least one node deep and never deeper
\* than the configuration asks, and no file is hidden that the configuration does not
\* hide (planning.py: "within those limits").
PlanWithinConfig ==
  /\ plan.max_depth \in 1 .. AtLeastOne(cfg.max_depth)
  /\ plan.focus \subseteq cfg.focus

\* Offline means that nothing leaves the machine, and that this costs the run nothing:
\* no request is even attempted, so the block on the network never has to bite.
OfflineStaysLocal ==
  cfg.privacy = "offline" => posts = {} /\ cause \in {"none", "analysis"} /\ used = {}

\* The metadata of a finished run tells one story: the plan says where it came from, the
\* reason for a fallback is there exactly when there was one, a feature is listed as used
\* exactly when it is allowed and its request was answered, and every request that was
\* sent is on record.
MetadataAgrees ==
  phase = "done" =>
    /\ plan.source = "llm" <=> outcome["exploration_planning"] = "ok"
    /\ plan.source = "fallback" <=> outcome["exploration_planning"] = "failed"
    /\ fallback <=> plan.source = "fallback"
    /\ used = {f \in cfg.features :
                 outcome[IF f \in Wordings THEN "remediation_wording" ELSE f] = "ok"}
    /\ \A r \in posts : outcome[r] # "none"

\* Advice is about findings of this run, and there is none unless wording was asked for
\* and answered; nor is there a summary that was not (advisory.py, "invent findings").
AdviceIsAboutFindings ==
  /\ \A i \in advice : i.id \in findings
  /\ advice # {} => outcome["remediation_wording"] = "ok"
  /\ summary => outcome["report_summary"] = "ok"

\* llm/errors.py:9 says of a provider failure: "Never fatal to analysis."
NeverFatal == phase = "raised" => cause = "analysis"
=============================================================================
