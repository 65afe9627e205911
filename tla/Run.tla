-------------------------------- MODULE Run --------------------------------
(***************************************************************************)
(* `ultra-trace analyze`, called again and again on one output directory   *)
(* (cli.analyze, parser/helper.py, reporting/writers.py, exit_codes.py):   *)
(* configuration, discovery, the two calls of the parser helper, which may *)
(* drift from its pin, fail or hang, the analysis, the files written one   *)
(* after the other, and the exit code a build reads.                       *)
(*                                                                         *)
(* The options of a call and the result of an analysis are records; a      *)
(* finding has an id, a what that tells apart findings with the same id,   *)
(* a severity and whether its proof is supported.  The content of a file   *)
(* is the run that wrote it and what it was written for.                   *)
(***************************************************************************)
EXTENDS Integers, SequencesExt, Listing

CONSTANTS
  Options,    \* the calls a user may make
  Results,    \* what an analysis may give
  SafeName,   \* from the ids of findings to names of files, with `/` and `:` replaced
  MaxRuns     \* bound: how often the program is called

VARIABLES
  run,        \* the number of the call
  opts,
  phase,      \* where the run is; at the end "completed", or "failed" before
  drift,      \* whether the helper was seen to differ from its pin
  result,
  todo,       \* the files still to be written
  disk,       \* from the files of the output directory to their contents
  before,     \* disk as the run found it
  exit        \* the exit code, or NoCode before there is one

\* Proofs have a directory of their own.
ASSUME ResultsAssumption ==
  \A r \in Results :
    /\ IsList(r.findings)
    /\ \A i \in DOMAIN r.findings : SafeName[r.findings[i].id] \notin {"markdown", "json"}

vars == <<run, opts, phase, drift, result, todo, disk, before, exit>>

----------------------------------------------------------------------------
(* The verdict.                                                            *)

Rank(severity, unknown) ==
  CASE severity = "low" -> 0 [] severity = "medium" -> 1 [] severity = "high" -> 2
    [] severity = "critical" -> 3 [] OTHER -> unknown

\* A threshold that is none of the known ones counts as medium.
Meets(f, threshold) == Rank(f.severity, 0) >= Rank(threshold, 1)

\* Mutation: a finding has to lie above the threshold.
Above(fs, threshold) == \E f \in Range(fs) : Rank(f.severity, 0) > Rank(threshold, 1)

MeetThreshold(fs, threshold) == \E f \in Range(fs) : Meets(f, threshold)

\* Mutation: findings are looked at before the health of the frontend.
FindingsFirst(r, o) ==
  IF MeetThreshold(r.findings, o.threshold) THEN 1
  ELSE IF o.fail_on_partial /\ r.partial THEN 4 ELSE 0

ExitForAnalysis(r, o) ==
  IF o.fail_on_partial /\ r.partial THEN 4
  ELSE IF MeetThreshold(r.findings, o.threshold) THEN 1 ELSE 0

----------------------------------------------------------------------------
(* The files.                                                              *)

Entry(path, what) == [path |-> path, what |-> what]

Formats == <<"markdown", "json">>

Reports(o) == Kept(Formats, {i \in DOMAIN Formats : Formats[i] \in o.formats})

\* The high findings first, in the order of the report.
Proved(r) ==
  LET fs == r.findings
  IN  Kept(fs, {i \in DOMAIN fs : fs[i].severity \in {"high", "critical"} /\ fs[i].supported})

\* Mutation: a dry run writes its empty reports.
ToWriteAlways(r, o) == [i \in DOMAIN Reports(o) |-> Entry(Reports(o)[i], "report")]

\* The files of a run in the order they are written: a proof is named after the id of its
\* finding.
ToWrite(r, o) ==
  IF o.dry_run THEN <<>>
  ELSE [i \in DOMAIN Reports(o) |-> Entry(Reports(o)[i], "report")]
       \o [i \in DOMAIN Proved(r) |-> Entry(SafeName[Proved(r)[i].id], Proved(r)[i].what)]

Nothing == [run |-> 0, what |-> "absent"]
Torn == [run |-> 0, what |-> "torn"]

Proofs == {SafeName[f.id] : f \in UNION {Range(r.findings) : r \in Results}}
Files == {"markdown", "json"} \cup Proofs

Empty == [findings |-> <<>>, partial |-> FALSE]

----------------------------------------------------------------------------
(* Steps.                                                                  *)

NoCode == -1

End(code) == phase' = "failed" /\ exit' = code

Stopped == {"idle", "failed", "completed"}

\* Exceptions outside the try of analyze end Python with code 1.
Uncaught == End(1)

Goto(next) == phase' = next /\ exit' = exit

Init ==
  /\ run = 0
  /\ opts \in Options
  /\ phase = "idle"
  /\ drift = FALSE
  /\ result = Empty
  /\ todo = <<>>
  /\ disk = [f \in Files |-> Nothing]
  /\ before = disk
  /\ exit = NoCode

Start ==
  /\ phase \in Stopped /\ run < MaxRuns
  /\ run' = run + 1
  /\ opts' \in Options
  /\ phase' = "configure"
  /\ drift' = FALSE
  /\ result' = Empty
  /\ todo' = <<>>
  /\ before' = disk
  /\ exit' = NoCode
  /\ UNCHANGED disk

\* Configuration and arguments: usage errors, and what nothing catches.
Configure ==
  /\ phase = "configure"
  /\ \/ End(2)
     \/ Uncaught
     \/ IF opts.refuse_advanced THEN End(4) ELSE Goto("discover")
  /\ UNCHANGED <<run, opts, drift, result, todo, disk, before>>

\* The scan may find no file at all, or raise.
Discover ==
  /\ phase = "discover"
  /\ \/ Uncaught
     \/ IF opts.dry_run THEN Goto("mkdir") ELSE Goto("plan") \/ Goto("plan-empty")
  /\ UNCHANGED <<run, opts, drift, result, todo, disk, before>>

\* The session may raise (see Session); without files no helper is needed.
Plan ==
  /\ phase \in {"plan", "plan-empty"}
  /\ \/ End(3)
     \/ Goto(IF phase = "plan" THEN "find-helper" ELSE "advise")
  /\ UNCHANGED <<run, opts, drift, result, todo, disk, before>>

FindHelper ==
  /\ phase = "find-helper"
  /\ End(4) \/ Goto("version")
  /\ UNCHANGED <<run, opts, drift, result, todo, disk, before>>

\* The helper gives its version, or fails, or answers what is no JSON object.
VersionAnswered ==
  /\ phase = "version"
  /\ \/ End(3) /\ UNCHANGED drift
     \/ Goto("parse") /\ UNCHANGED drift
     \/ /\ drift' = TRUE
        /\ IF opts.fail_on_drift \/ opts.drift_policy = "fail" THEN End(4) ELSE Goto("parse")
  /\ UNCHANGED <<run, opts, result, todo, disk, before>>

\* Exit codes of the helper other than 0 and 1, no output, or no JSON object.
ParseAnswered ==
  /\ phase = "parse"
  /\ End(3) \/ Goto("analyse")
  /\ UNCHANGED <<run, opts, drift, result, todo, disk, before>>

\* Mutation: only the first call of the helper has a time limit.
VersionTimesOut ==
  /\ phase = "version"
  /\ End(3)
  /\ UNCHANGED <<run, opts, drift, result, todo, disk, before>>

\* A helper that hangs is killed after its time.
HelperTimesOut ==
  /\ phase \in {"version", "parse"}
  /\ End(3)
  /\ UNCHANGED <<run, opts, drift, result, todo, disk, before>>

Analyze ==
  /\ phase = "analyse"
  /\ \/ End(3) /\ UNCHANGED result
     \/ result' \in Results /\ Goto("advise")
  /\ UNCHANGED <<run, opts, drift, todo, disk, before>>

Advise ==
  /\ phase = "advise"
  /\ End(3) \/ Goto("mkdir")
  /\ UNCHANGED <<run, opts, drift, result, todo, disk, before>>

MakeDirectory ==
  /\ phase = "mkdir"
  /\ \/ Uncaught /\ UNCHANGED todo
     \/ Goto("write") /\ todo' = ToWrite(result, opts)
  /\ UNCHANGED <<run, opts, drift, result, disk, before>>

\* Mutation: nothing is written where a file is already.
WriteNewFile ==
  /\ phase = "write" /\ todo # <<>>
  /\ disk' = [disk EXCEPT ![Head(todo).path] =
                IF @ = Nothing THEN [run |-> run, what |-> Head(todo).what] ELSE @]
  /\ todo' = Tail(todo)
  /\ UNCHANGED <<run, opts, phase, drift, result, before, exit>>

WriteFile ==
  /\ phase = "write" /\ todo # <<>>
  /\ disk' = [disk EXCEPT ![Head(todo).path] = [run |-> run, what |-> Head(todo).what]]
  /\ todo' = Tail(todo)
  /\ UNCHANGED <<run, opts, phase, drift, result, before, exit>>

\* A write fails before or after the old content is gone.
WriteFails ==
  /\ phase = "write" /\ todo # <<>>
  /\ \E content \in {disk[Head(todo).path], Torn} :
       disk' = [disk EXCEPT ![Head(todo).path] = content]
  /\ Uncaught
  /\ UNCHANGED <<run, opts, drift, result, todo, before>>

Finish ==
  /\ phase = "write" /\ todo = <<>>
  /\ phase' = "completed"
  /\ exit' = IF opts.dry_run THEN 0 ELSE ExitForAnalysis(result, opts)
  /\ UNCHANGED <<run, opts, drift, result, todo, disk, before>>

\* What the program does by itself; the user calls it and the helper answers it.
Program ==
  \/ Configure \/ Discover \/ Plan \/ FindHelper \/ HelperTimesOut \/ Analyze \/ Advise
  \/ MakeDirectory \/ WriteFile \/ WriteFails \/ Finish

Next == Start \/ VersionAnswered \/ ParseAnswered \/ Program

Spec == Init /\ [][Next]_vars
FairSpec == Spec /\ WF_vars(Program)

----------------------------------------------------------------------------
(* Properties.                                                             *)

AtLeast(severity) ==
  CASE severity = "high" -> {"high", "critical"} [] severity = "critical" -> {"critical"}
    [] severity = "low" -> {"low", "medium", "high", "critical"}
    [] OTHER -> {"medium", "high", "critical"}

Serious == {f \in Range(result.findings) : f.severity \in AtLeast(opts.threshold)}

\* A build that sees 0 may rely on it: the analysis ran to its end and found nothing
\* at the threshold (exit_codes.py: "completed; no finding at or above").
ZeroMeansClean ==
  exit = 0 => phase = "completed" /\ (opts.dry_run \/ Serious = {})

\* A code that speaks of findings is only given by a run whose frontend health is as
\* the caller demanded (exit_codes.py: "Health codes (2-4) win over the findings code").
HealthWins ==
  phase = "completed" /\ exit \in {0, 1} =>
    /\ ~(drift /\ (opts.fail_on_drift \/ opts.drift_policy = "fail"))
    /\ ~(result.partial /\ opts.fail_on_partial)
    /\ ~opts.refuse_advanced

\* A completed run leaves exactly the reports that were asked for as its own, whatever
\* earlier runs left in their place, and the others as they were; it leaves a proof of
\* its own under the name each high finding's id gives, which is that finding's proof
\* unless another high finding gets the same name.
ReportsAreOfThisRun ==
  phase = "completed" =>
    /\ \A f \in {"markdown", "json"} :
         disk[f] = IF f \in opts.formats /\ ~opts.dry_run
                   THEN [run |-> run, what |-> "report"] ELSE before[f]
    /\ ~opts.dry_run =>
         \A f \in Range(Proved(result)) :
           /\ disk[SafeName[f.id]].run = run
           /\ (\A g \in Range(Proved(result)) : SafeName[g.id] = SafeName[f.id] => g = f) =>
                disk[SafeName[f.id]].what = f.what

\* A run that is refused, is dry, or fails before it has anything to write, with whatever
\* code, never touches what earlier runs left; of the runs that fail only one that dies
\* while writing does, and it ends with 1.
FailuresLeaveReports ==
  phase \in Stopped /\ (opts.dry_run \/ (phase = "failed" /\ (exit # 1 \/ todo = <<>>))) =>
    disk = before

\* No helper, however it hangs, keeps a run from ending.
RunEnds == phase \notin Stopped ~> phase \in Stopped
=============================================================================
