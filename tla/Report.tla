------------------------------- MODULE Report -------------------------------
(***************************************************************************)
(* What report_json (reporting/json_report.py, coverage.py, ordering.py)   *)
(* says of a finished analysis: the findings in the order of their         *)
(* severity, the counts a reader judges the coverage by, and the notes,    *)
(* warnings and recommendations that follow from them.  Texts are left     *)
(* out: a warning is its code, a note what it is about, a recommendation   *)
(* the rule it is for, or "global"; these are sorted, so sets will do.     *)
(***************************************************************************)
EXTENDS Frontend, Findings

Severities == <<"critical", "high", "medium", "low">>

SeverityRank(f) == CHOOSE i \in DOMAIN Severities : Severities[i] = f.severity

\* Mutation: of findings with one id the report has one.
SortFindingsById(fs) ==
  LET kept == Kept(fs, {i \in DOMAIN fs : \A j \in 1 .. i - 1 : SortKey(fs[j]) # SortKey(fs[i])})
  IN  InOrder(kept, [i \in DOMAIN kept |-> SeverityRank(kept[i])],
                    [i \in DOMAIN kept |-> SortKey(kept[i])])

\* The more severe ones first, then by place and rule.
SortFindings(fs) ==
  InOrder(fs, [i \in DOMAIN fs |-> SeverityRank(fs[i])], [i \in DOMAIN fs |-> SortKey(fs[i])])

BySeverity(fs) ==
  [s \in Range(Severities) |-> Cardinality({i \in DOMAIN fs : fs[i].severity = s})]

----------------------------------------------------------------------------
(* Coverage.                                                               *)

States == {"parsed", "normalized", "cfg-ready", "partially-analyzed", "skipped"}

SymbolsOf(file) == Flat(file.top)

\* Files and symbols are counted alike.
EligibilityCounts(fs) ==
  [state \in States |->
     Cardinality({i \in DOMAIN fs : fs[i].eligibility.state = state})
     + Cardinality({k \in UNION {{i} \X DOMAIN SymbolsOf(fs[i]) : i \in DOMAIN fs} :
                      SymbolsOf(fs[k[1]])[k[2]].eligibility.state = state})]

\* Mutation: constructs no symbol owns are not counted.
UnsupportedOwned(fs) ==
  Cardinality({k \in UNION {{i} \X DOMAIN fs[i].records : i \in DOMAIN fs} :
                 fs[k[1]].records[k[2]].owner # Nobody})

UnsupportedTotal(fs) ==
  Cardinality(UNION {{i} \X DOMAIN fs[i].records : i \in DOMAIN fs})

\* The calls of all symbols.
CallSites(fs) ==
  Concatenated([i \in DOMAIN fs |->
    Concatenated([j \in DOMAIN SymbolsOf(fs[i]) |-> SymbolsOf(fs[i])[j].code.calls])])

CallResolution(fs) ==
  [status \in {"resolved", "unresolved", "ambiguous"} |->
     Cardinality({i \in DOMAIN CallSites(fs) : CallSites(fs)[i].status = status})]

HasPartialAnalysis(eligibility) ==
  eligibility["partially-analyzed"] > 0 \/ eligibility["skipped"] > 0

Unsure(calls) == calls["unresolved"] > 0 \/ calls["ambiguous"] > 0

CoverageNotes(eligibility, unsupported, calls) ==
  {x \in {"partial"} : HasPartialAnalysis(eligibility)}
  \cup {x \in {"unsupported"} : unsupported > 0}
  \cup {x \in {"calls"} : Unsure(calls)}

Warnings(eligibility, calls) ==
  {x \in {"frontend.partial_analysis"} : HasPartialAnalysis(eligibility)}
  \cup {x \in {"frontend.unresolved_calls"} : Unsure(calls)}

\* One for each rule that found something, and one for all.
Recommendations(fs) == {f.rule : f \in Range(fs)} \cup {"global"}

ReportOf(fs, all) ==
  LET eligibility == EligibilityCounts(fs)
      unsupported == UnsupportedTotal(fs)
      calls == CallResolution(fs)
  IN  [findings |-> SortFindings(all), by_severity |-> BySeverity(all),
       files |-> Len(fs), eligibility |-> eligibility, unsupported |-> unsupported,
       calls |-> calls, notes |-> CoverageNotes(eligibility, unsupported, calls),
       warnings |-> Warnings(eligibility, calls),
       recommendations |-> Recommendations(all)]

\* Mutation: a report that is read back is sorted by place.
NormalizePayloadByPlace(r) == [r EXCEPT !.findings = Sorted(@)]

\* What `report` does to a report it reads back.
NormalizePayload(r) == [r EXCEPT !.findings = SortFindings(@)]
=============================================================================
