------------------------------ MODULE Pipeline ------------------------------
(***************************************************************************)
(* From the helper's answer to the report: Frontend, Findings and Report   *)
(* put together as engine/pipeline.py and the commands analyze and report  *)
(* of cli.py do.  A site's events reach the rules with what the frontend   *)
(* found out about the function they are in: its eligibility, and for try! *)
(* whether the callee is known and throws.                                 *)
(***************************************************************************)
EXTENDS Report

VARIABLE report

vars == <<frontendVars, findingsVars, report>>

NoReport == [notes |-> {"none yet"}]

----------------------------------------------------------------------------

\* The symbols of all files by their ids, as summaries are looked up.
Throws(id) ==
  \E i \in DOMAIN files : \E s \in Range(SymbolsOf(files[i])) :
    s.id = id /\ s.body # NoBody /\ s.code.throws

\* What is known of the callee of a try!, the index of a call or 0 for another operand.
TryFacts(s, call) ==
  LET known == call # 0 /\ s.code.calls[call].status = "resolved"
  IN  [resolved |-> known,
       may_throw |-> IF known /\ Throws(s.code.calls[call].callee) THEN "yes" ELSE "unknown"]

PlaceOf(path, e) == (path * Width + e.line) * Width + e.col

Placed(s, rule, e) ==
  [site |-> e.site, place |-> PlaceOf(s.path, e),
   what |-> IF rule = "try" THEN TryFacts(s, e.what) ELSE e.what]

EventsOf(s) ==
  [rule \in Range(Rules) |->
     IF rule \in DOMAIN s.code.seen
     THEN [i \in DOMAIN s.code.seen[rule] |-> Placed(s, rule, s.code.seen[rule][i])]
     ELSE <<>>]

\* A symbol as the rules see it.
Seen(s) ==
  [id |-> s.id, state |-> s.eligibility.state, unsupported |-> s.eligibility.unsupported,
   warnings |-> s.eligibility.warnings,
   body |-> CASE s.body = NoBody -> "none"
              [] s.body # NoBody /\ IsValid(s.body) -> "located"
              [] OTHER -> "unlocated",
   events |-> EventsOf(s)]

UnitSymbols ==
  Concatenated([i \in DOMAIN files |->
    [j \in DOMAIN SymbolsOf(files[i]) |-> Seen(SymbolsOf(files[i])[j])]])

Init == FrontendInit /\ FindingsInit /\ report = NoReport

Normalize == FrontendNext /\ UNCHANGED <<findingsVars, report>>

HandOver ==
  /\ Normalized
  /\ TakeUnit(UnitSymbols)
  /\ UNCHANGED <<frontendVars, report>>

AnalyzeUnit == FindingsNext /\ UNCHANGED <<frontendVars, report>>

WriteReport ==
  /\ phase = "sorted"
  /\ report' = ReportOf(files, findings)
  /\ phase' = "reported"
  /\ UNCHANGED <<frontendVars, unit, todo, findings>>

\* The command report, on the JSON that analyze wrote.
Rerender ==
  /\ phase = "reported"
  /\ report' = NormalizePayload(report)
  /\ phase' = "rendered"
  /\ UNCHANGED <<frontendVars, unit, todo, findings>>

Next == Normalize \/ HandOver \/ AnalyzeUnit \/ WriteReport \/ Rerender

Spec == Init /\ [][Next]_vars

----------------------------------------------------------------------------
(* Properties.                                                             *)

TypeOK ==
  /\ stage \in {"building", "resolving"}
  /\ phase \in {"waiting", "analysing", "sorted", "reported", "rendered"}
  /\ Len(files) <= Len(built) /\ Len(built) <= Len(payload)
  /\ \A i \in DOMAIN files :
       /\ files[i].eligibility.state \in States
       /\ \A s \in Range(SymbolsOf(files[i])) :
            s.eligibility.state \in States /\ s.kind \in TypeKinds \cup Callable \cup {"closure"}
  /\ \A f \in Range(findings) :
       f.severity \in Range(Severities) /\ f.confidence \in {"high", "medium", "low"}

\* Whether a place lies within a location, by lines and columns.
Holds(loc, place) ==
  At(loc) <= At(place) /\ place.end * Width + place.endcol <= loc.end * Width + loc.endcol

\* The functions of the payload: the index of a file and that of a function in it.
Functions ==
  UNION {{i} \X DOMAIN payload[i].functions : i \in DOMAIN payload}
Fn(k) == payload[k[1]].functions[k[2]]

\* Whether a symbol's id is that of a function of the payload.
IsOf(id, k) == id[1] = payload[k[1]].path /\ id[4] = At(Fn(k).loc) /\ Last(id[3]) = Fn(k).name

HasBody(k) == payload[k[1]].parse_ok /\ Fn(k).body # NoBody /\ IsValid(Fn(k).body)

\* Whatever type it is nested in, found by name or by lines, each function with a body
\* is handed to the rules exactly once (normalize.py moves it from the top level to its
\* type; pipeline.py drops what is listed twice).
EachFunctionOnce ==
  phase = "analysing" =>
    \A k \in Functions :
      HasBody(k) => Cardinality({i \in DOMAIN Selected(unit) : IsOf(Selected(unit)[i].id, k)}) = 1

\* A call is resolved only to the one function of all files that it can mean, and left
\* open only if there is none or a choice, wherever in the order of files they come.
CallsSeeEveryFile ==
  \A i \in DOMAIN files : \A s \in Range(SymbolsOf(files[i])) : \A c \in Range(s.code.calls) :
    LET name == IF c.text = <<>> THEN "" ELSE Bare(Last(c.text))
        same == {k \in Functions : name # "" /\ Fn(k).name = name}
    IN  /\ c.status = "resolved" =>
             \E k \in same : /\ IsOf(c.callee, k)
                            /\ \A l \in same \ {k} : Fn(l) # Fn(k) => c.text = c.callee[3]
        /\ c.status = "unresolved" <=> same = {}

\* What lies around a place in a file: types by their declaration, functions by their
\* bodies if they have one.
Extents(file, but) ==
  {t.loc : t \in Range(file.types)}
  \cup {IF g.body = NoBody THEN g.loc ELSE g.body : g \in Range(file.functions) \ {but}}

\* A construct the frontend cannot model, inside the body of a function, costs that
\* function its high findings; unless something else on its lines has as few of them,
\* as when a type and its method are written on one line.
DoubtsReachTheirFunction ==
  \A k \in Functions : \A r \in Range(payload[k[1]].unsupported) :
    /\ Holds(Fn(k).body, r.loc)
    /\ \A other \in Extents(payload[k[1]], Fn(k)) :
         Encloses(other, r.loc) => Height(other) > Height(Fn(k).body)
    => \A f \in Range(findings) : IsOf(f.symbol, k) => f.severity # "high"

\* README.md: unsupported constructs "do not justify High findings".
UnsupportedIsNeverHigh ==
  \A k \in Functions : \A r \in Range(payload[k[1]].unsupported) :
    r.category = "result_builder_or_macro_attr" /\ Holds(Fn(k).loc, r.loc) =>
      \A f \in Range(findings) : IsOf(f.symbol, k) => f.severity # "high"

\* A report without a note on its coverage has no blind spot (markdown.py: "Coverage
\* limits below are blind spots, not silence"): every file was parsed and understood,
\* every function with a body was analysed and may be reported as high, and every call
\* has a function it means.
SilenceMeansUnderstood ==
  phase \in {"reported", "rendered"} /\ report.notes = {} =>
    /\ \A i \in DOMAIN payload : payload[i].parse_ok /\ payload[i].unsupported = <<>>
    /\ \A k \in Functions : Fn(k).body # NoBody =>
         /\ \E s \in Range(Selected(unit)) : IsOf(s.id, k) /\ s.body = "located" /\ AllowHigh(s)
         /\ \A c \in Range(Fn(k).code.calls) : c # <<>> /\ \E l \in Functions : Fn(l).name = Bare(Last(c))

\* The other way round, a report that warns of a partial analysis has a reason: a file
\* that was not parsed, a function that was not understood, or a file in which not all
\* functions are at the top level with a body, though everything in it was understood.
PartialExplained ==
  phase \in {"reported", "rendered"} =>
    ("partial" \in report.notes <=>
       \/ \E i \in DOMAIN payload : ~payload[i].parse_ok
       \/ \E i \in DOMAIN unit : unit[i].state \in {"partially-analyzed", "skipped"}
       \/ \E k \in Functions :
            /\ HasBody(k)
            /\ LET top == {l \in Functions : l[1] = k[1] /\ \E i \in DOMAIN unit :
                            IsOf(unit[i].id, l) /\ Len(unit[i].id[3]) = 1}
               IN  top = {} \/ \E l \in top : ~HasBody(l))

\* The report has all findings, the more severe ones first, counts each once, and
\* recommends something for each rule that found something.
ReportIsComplete ==
  phase \in {"reported", "rendered"} =>
    LET fs == report.findings
        times(s, f) == Cardinality({i \in DOMAIN s : s[i] = f})
    IN  /\ \A f \in Range(findings) \cup Range(fs) : times(fs, f) = times(findings, f)
        /\ \A i, j \in DOMAIN fs : i < j => SeverityRank(fs[i]) <= SeverityRank(fs[j])
        /\ \A f \in Range(fs) : report.by_severity[f.severity] =
                                 Cardinality({i \in DOMAIN fs : fs[i].severity = f.severity})
        /\ report.recommendations = {f.rule : f \in Range(fs)} \cup {"global"}

\* The command report renders what analyze wrote, nothing less and in the same order.
RerenderingChangesNothing == [][phase = "reported" => report' = report]_vars
=============================================================================
