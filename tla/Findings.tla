------------------------------ MODULE Findings ------------------------------
(***************************************************************************)
(* analyze_unit (engine/pipeline.py): from what the walks of the functions *)
(* of a unit saw to the sorted list of findings.  For every function the   *)
(* six rules of rules/ group the events of one kind by site, pick the      *)
(* event to quote and emit a finding whose severity, confidence and proof  *)
(* tier depend on the event and on how much of the function the frontend   *)
(* understood.                                                             *)
(*                                                                         *)
(* A symbol is a function or method:                                       *)
(*   id, state, unsupported, warnings    its identity and its eligibility  *)
(*   body                                "none", "unlocated" or "located"  *)
(*   events[rule]                        what the walk saw, in order       *)
(* An event has a site (the expression), the place where that expression   *)
(* starts, and what the walk found out about it that the rule asks for.  A *)
(* place stands for (file, line, column); the places are numbered in their *)
(* order.                                                                  *)
(* Titles, descriptions and proof texts are left out.                      *)
(***************************************************************************)
EXTENDS Integers, SequencesExt, Listing

VARIABLES
  unit,       \* the symbols, file after file
  todo,       \* the functions not analysed yet
  findings,
  phase       \* "waiting" for a unit, "analysing", "sorted"; then what follows

findingsVars == <<unit, todo, findings, phase>>

\* The rules in the order of core_rules.
Rules == <<"unwrap", "try", "cast", "bounds", "taint", "dead">>

Ready == {"cfg-ready", "partially-analyzed"}

----------------------------------------------------------------------------
(* Coverage: what the frontend's doubts do to a finding.                   *)

\* Mutation: constructs the frontend could not model do not count.
AllowHighIfReady(sym) == sym.state = "cfg-ready"

AllowHigh(sym) == sym.state = "cfg-ready" /\ sym.unsupported = 0

Lowered(severity) == IF severity = "high" THEN "medium" ELSE severity

ApplyCoverage(f, sym) ==
  IF sym.state = "partially-analyzed"
  THEN [f EXCEPT !.confidence = "low", !.severity = Lowered(@)]
  ELSE IF sym.unsupported > 0
  THEN [f EXCEPT !.confidence = Lowered(@), !.severity = Lowered(@)]
  ELSE IF sym.warnings > 0 THEN [f EXCEPT !.confidence = Lowered(@)]
  ELSE f

\* A proof has the reproduction steps (tier 2) or a path that may fail (tier 3);
\* no rule asks for the unsupported kind.
Proof(high) == [tier |-> IF high THEN 2 ELSE 3, supported |-> TRUE]

EnforceProofTier(f) ==
  IF f.proof.tier = 4 \/ ~f.proof.supported THEN [f EXCEPT !.severity = Lowered(@)] ELSE f

----------------------------------------------------------------------------
(* Rules.                                                                  *)

UnwrapRisk(what) == what.nilness \in {"nil", "unknown"}
TryRisk(what) == what.may_throw # "no"
CastRisk(what) == ~what.safe
BoundsRisk(what) == ~what.guarded /\ ~what.constant_safe
DeadRisk(what) == what.located

Risky(rule, e) ==
  CASE rule = "unwrap" -> UnwrapRisk(e.what)
    [] rule = "try"    -> TryRisk(e.what)
    [] rule = "cast"   -> CastRisk(e.what)
    [] rule = "bounds" -> BoundsRisk(e.what)
    [] rule = "taint"  -> TRUE
    [] rule = "dead"   -> DeadRisk(e.what)

\* Dead branches are only reported where nothing was left out.
Looks(rule, sym) == IF rule = "dead" THEN AllowHigh(sym) ELSE sym.state \in Ready

\* What lets a risk count as a defect.
TryClear(what) == what.may_throw = "yes" \/ ~what.resolved
BoundsClear(what) == what.known_oob
TaintClear(what) == what.dangerous

High(rule, sym, e) ==
  /\ AllowHigh(sym)
  /\ CASE rule = "try"    -> TryClear(e.what)
       [] rule = "bounds" -> BoundsClear(e.what)
       [] rule = "taint"  -> TaintClear(e.what)
       [] rule = "dead"   -> FALSE
       [] OTHER           -> TRUE

\* The reason of a dead branch names its verdict, so it always counts as clear.
Confidence(rule, high) == IF high /\ rule \in {"unwrap", "try"} THEN "high" ELSE "medium"

\* force_unwrap degrades for itself; the other rules go through apply_coverage.
Covered(rule, f, sym) ==
  IF rule # "unwrap" THEN ApplyCoverage(f, sym)
  ELSE IF sym.state = "partially-analyzed" THEN [f EXCEPT !.confidence = "low"]
  ELSE f

\* A finding is identified by its rule and the place where its expression starts.
Emit(rule, sym, e) ==
  LET high == High(rule, sym, e)
      f == [rule |-> rule, place |-> e.place, symbol |-> sym.id,
            state |-> sym.state, unsupported |-> sym.unsupported, proof |-> Proof(high),
            severity |-> IF high THEN "high" ELSE "medium",
            confidence |-> Confidence(rule, high)]
  IN  EnforceProofTier(Covered(rule, f, sym))

\* Whether an earlier event than the j-th is of its site.
Met(evs, i, j) == i < j /\ evs[i].site = evs[j].site

\* Mutation: the first event of the site decides, whatever a later path saw.
QuotedFirst(rule, evs) ==
  {j \in DOMAIN evs : Risky(rule, evs[j]) /\ \A i \in DOMAIN evs : ~Met(evs, i, j)}

\* The events the findings quote: of each site the first risky one.  Whether a call
\* throws is the same on every path, so try! looks at the first event only.
Quoted(rule, evs) ==
  {j \in DOMAIN evs :
     /\ Risky(rule, evs[j])
     /\ \A i \in DOMAIN evs : Met(evs, i, j) => rule # "try" /\ ~Risky(rule, evs[i])}

\* Where the site of the j-th event first occurs, which orders the findings of a rule.
FirstOf(evs, j) == Min({i \in DOMAIN evs : evs[i].site = evs[j].site})

Evaluate(rule, sym) ==
  LET evs == sym.events[rule]
      quoted == IF Looks(rule, sym) THEN Quoted(rule, evs) ELSE {}
      listing == Listing(quoted, [j \in quoted |-> <<FirstOf(evs, j), j, 0>>])
  IN  [n \in 1 .. Cardinality(quoted) |-> Emit(rule, sym, evs[listing[n]])]

AllRules(sym) == Concatenated([i \in DOMAIN Rules |-> Evaluate(Rules[i], sym)])

----------------------------------------------------------------------------
(* The unit.                                                               *)

Eligible(s) == s.body # "none" /\ s.state \in Ready

\* Mutation: a symbol the unit lists twice is analysed twice.
SelectedWithDuplicates(symbols) ==
  Kept(symbols, {i \in DOMAIN symbols : Eligible(symbols[i])})

\* The functions with a body that are eligible, each id once.
Selected(symbols) ==
  Kept(symbols, {i \in DOMAIN symbols :
                   /\ Eligible(symbols[i])
                   /\ \A j \in 1 .. i - 1 : Eligible(symbols[j]) => symbols[j].id # symbols[i].id})

\* The alphabetical order of the rule ids, which break ties at one place.
Rank(rule) ==
  CHOOSE i \in 1 .. 6 :
    <<"bounds", "dead", "unwrap", "cast", "taint", "try">>[i] = rule
SortKey(f) == 6 * f.place + Rank(f.rule)

Sorted(s) == InOrder(s, [i \in DOMAIN s |-> s[i].place], [i \in DOMAIN s |-> Rank(s[i].rule)])

FindingsInit ==
  /\ unit = <<>>
  /\ todo = <<>>
  /\ findings = <<>>
  /\ phase = "waiting"

TakeUnit(symbols) ==
  /\ phase = "waiting"
  /\ unit' = symbols
  /\ todo' = Selected(symbols)
  /\ phase' = "analysing"
  /\ UNCHANGED findings

\* A function whose body has no valid location is passed over.
Found(sym) == IF sym.body = "located" THEN AllRules(sym) ELSE <<>>

Analyze ==
  /\ todo # <<>>
  /\ findings' = findings \o Found(Head(todo))
  /\ todo' = Tail(todo)
  /\ UNCHANGED <<unit, phase>>

\* Mutation: the findings stay in the order of the files.
FinishUnsorted ==
  /\ todo = <<>> /\ phase = "analysing"
  /\ phase' = "sorted"
  /\ UNCHANGED <<unit, todo, findings>>

Finish ==
  /\ todo = <<>> /\ phase = "analysing"
  /\ phase' = "sorted"
  /\ findings' = Sorted(findings)
  /\ UNCHANGED <<unit, todo>>

FindingsNext == Analyze \/ Finish

----------------------------------------------------------------------------
(* Properties.                                                             *)

\* What a finding claims is backed by its proof and by what the frontend saw: "high"
\* goes with reproduction steps and a fully modelled function, and the other way
\* round; nothing is claimed with high confidence on less; a partially analysed
\* function gives low confidence only (README: unsupported constructs "do not justify
\* High findings").
Earned(f) ==
  /\ f.severity = "high" <=> f.proof.tier = 2
  /\ f.severity = "high" => f.state = "cfg-ready" /\ f.unsupported = 0 /\ f.proof.supported
  /\ f.confidence = "high" => f.severity = "high"
  /\ f.state = "partially-analyzed" => f.confidence = "low"

HighIsEarned == \A f \in Range(findings) : Earned(f)

\* Every site at which some path sees a risk has one finding, and there is no other:
\* no path that happened to be safe hides it, no path and no second listing of the
\* function doubles it.
OneFindingPerRiskySite ==
  phase = "sorted" =>
    \A i \in DOMAIN unit, rule \in Range(Rules) :
      LET s == unit[i]
          own == {n \in DOMAIN findings : findings[n].rule = rule /\ findings[n].symbol = s.id}
          risky == {e.site : e \in {x \in Range(s.events[rule]) : Risky(rule, x)}}
          Again == \E j \in 1 .. i - 1 : unit[j].id = s.id /\ Eligible(unit[j])
      IN  s.body = "located" /\ Looks(rule, s) /\ ~Again => Cardinality(own) = Cardinality(risky)

\* What a finding says, but for how sure it is of an index out of bounds: of the paths
\* on which a subscript is unguarded, the first decides whether it is known to fail.
Verdict(f) ==
  IF f.rule = "bounds" THEN <<f.rule, f.place>>
  ELSE <<f.rule, f.place, f.severity, f.confidence, f.proof>>

\* Had the walk taken the branches of the functions the other way round, the same
\* risks would be reported as strongly.
Backwards(sym) == [sym EXCEPT !.events = [r \in DOMAIN @ |-> Reverse(@[r])]]
PathOrderIrrelevant ==
  phase = "sorted" =>
    LET located == {s \in Range(Selected(unit)) : s.body = "located"}
        other == UNION {Range(AllRules(Backwards(s))) : s \in located}
    IN  {Verdict(f) : f \in Range(findings)} = {Verdict(f) : f \in other}

\* Unless two findings share an id, or a function is listed twice, the report does not
\* depend on the order of the files.
FileOrderIrrelevant ==
  phase = "sorted" =>
    LET listed == Selected(Reverse(unit))
        other == Concatenated([i \in DOMAIN listed |-> Found(listed[i])])
        Distinct == /\ \A m, n \in DOMAIN findings :
                          SortKey(findings[m]) = SortKey(findings[n]) => m = n
                    /\ \A i, j \in DOMAIN unit : unit[i].id = unit[j].id => i = j
    IN  Distinct => findings = Sorted(other)
=============================================================================
