----------------------------- MODULE RunProofs -----------------------------
(***************************************************************************)
(* What a build may rely on, for any options, any results and any number   *)
(* of runs: the exit code 0, the precedence of the health codes, that      *)
(* failing runs leave the reports of earlier ones alone, and that a        *)
(* completed run leaves its own.                                           *)
(***************************************************************************)
EXTENDS Run, ListingProofs

\* The phases before anything is written, and those a dry run goes through.
Reading == {"configure", "discover", "plan", "plan-empty", "find-helper", "version", "parse",
            "analyse", "advise", "mkdir"}
Dry == {"configure", "discover", "mkdir", "write", "completed", "failed", "idle"}

\* How far a run has come says what it has been checked for and what it has touched.
RunInv ==
  /\ phase \in Reading \cup {"idle", "write", "completed", "failed"}
  /\ phase \in Reading \cup {"idle", "write"} => exit = NoCode
  /\ phase \in Reading \cup {"idle"} => disk = before
  /\ phase \in Reading => todo = <<>>
  /\ phase = "failed" /\ (exit # 1 \/ todo = <<>>) => disk = before
  /\ phase = "failed" => exit \in {1, 2, 3, 4}
  /\ phase = "completed" => exit = IF opts.dry_run THEN 0 ELSE ExitForAnalysis(result, opts)
  /\ phase \notin {"idle", "configure", "failed"} => ~opts.refuse_advanced
  /\ phase # "failed" => ~(drift /\ (opts.fail_on_drift \/ opts.drift_policy = "fail"))
  /\ opts.dry_run => /\ phase \in Dry
                     /\ result = Empty
                     /\ disk = before
                     /\ phase = "write" => todo = <<>>

\* A run starts without an exit code,
LEMMA RunInvInit == Init => RunInv
BY DEF Init, RunInv, Reading, Dry, NoCode

\* and no step passes one that a later one needs.
LEMMA RunInvNext == RunInv /\ [Next]_vars => RunInv'
<1> SUFFICES ASSUME RunInv, [Next]_vars PROVE RunInv'
  OBVIOUS
<1> USE DEF RunInv, NoCode, End, Goto, Uncaught
<1>1. CASE Start
  BY <1>1 DEF Start, Stopped, Reading, Dry
<1>2. CASE Configure
  BY <1>2 DEF Configure, Reading, Dry
<1>3. CASE Discover
  BY <1>3 DEF Discover, Reading, Dry
<1>4. CASE Plan
  BY <1>4 DEF Plan, Reading, Dry
<1>5. CASE FindHelper
  BY <1>5 DEF FindHelper, Reading, Dry
<1>6. CASE VersionAnswered
  BY <1>6 DEF VersionAnswered, Reading, Dry
<1>7. CASE ParseAnswered
  BY <1>7 DEF ParseAnswered, Reading, Dry
<1>8. CASE HelperTimesOut
  BY <1>8 DEF HelperTimesOut, Reading, Dry
<1>9. CASE Analyze
  BY <1>9 DEF Analyze, Reading, Dry
<1>10. CASE Advise
  BY <1>10 DEF Advise, Reading, Dry
<1>11. CASE MakeDirectory
  BY <1>11 DEF MakeDirectory, Reading, Dry, ToWrite
<1>12. CASE WriteFile
  BY <1>12 DEF WriteFile, Reading, Dry
<1>13. CASE WriteFails
  BY <1>13 DEF WriteFails, Reading, Dry
<1>14. CASE Finish
  BY <1>14 DEF Finish, Reading, Dry
<1>15. CASE UNCHANGED vars
  BY <1>15 DEF vars
<1> QED BY <1>1, <1>2, <1>3, <1>4, <1>5, <1>6, <1>7, <1>8, <1>9, <1>10, <1>11, <1>12, <1>13,
           <1>14, <1>15 DEF Next, Program

\* A finding that does not meet a threshold is none of the serious ones.
LEMMA MeetsIsAtLeast ==
  ASSUME NEW f, NEW threshold, f.severity \in AtLeast(threshold)
  PROVE  Meets(f, threshold)
BY DEF AtLeast, Meets, Rank

\* Exit code 0 comes from a completed run without a finding at the threshold.
THEOREM ZeroIsClean == Spec => []ZeroMeansClean
<1>1. RunInv => ZeroMeansClean
  <2> SUFFICES ASSUME RunInv, exit = 0, ~opts.dry_run
               PROVE  phase = "completed" /\ Serious = {}
    BY DEF RunInv, ZeroMeansClean, Reading, NoCode
  <2>1. phase = "completed"
    BY DEF RunInv, Reading, NoCode
  <2>2. ~MeetThreshold(result.findings, opts.threshold)
    BY <2>1 DEF RunInv, ExitForAnalysis
  <2> QED BY <2>1, <2>2, MeetsIsAtLeast DEF MeetThreshold, Serious
<1> QED BY <1>1, RunInvInit, RunInvNext, PTL DEF Spec

\* The health codes win over 0 and 1 in every completed run.
THEOREM HealthAlwaysWins == Spec => []HealthWins
<1>1. RunInv => HealthWins
  BY DEF RunInv, HealthWins, ExitForAnalysis, Empty
<1> QED BY <1>1, RunInvInit, RunInvNext, PTL DEF Spec

\* Runs that are refused, that fail before they have anything to write, and dry ones leave
\* the files of earlier runs alone.
THEOREM FailuresNeverTouchReports == Spec => []FailuresLeaveReports
<1>1. RunInv => FailuresLeaveReports
  BY DEF RunInv, FailuresLeaveReports
<1> QED BY <1>1, RunInvInit, RunInvNext, PTL DEF Spec

----------------------------------------------------------------------------
(* What is written.                                                        *)

Known == Results \cup {Empty}
Own == {"markdown", "json"}

\* The two formats, in the order they are written.
LEMMA FormatsType ==
  IsList(Formats) /\ DOMAIN Formats = 1 .. 2 /\ Formats[1] = "markdown" /\ Formats[2] = "json"
<1>1. Formats = [i \in 1 .. 2 |-> Formats[i]] /\ Formats[1] = "markdown" /\ Formats[2] = "json"
  BY DEF Formats
<1> HIDE DEF Formats
<1> QED BY <1>1, ListIntro

\* The reports of a run are those asked for.
LEMMA ReportsType ==
  ASSUME NEW o
  PROVE  /\ IsList(Reports(o))
         /\ \A i \in DOMAIN Reports(o) : Reports(o)[i] \in Own \cap o.formats
         /\ \A f \in Own \cap o.formats : \E i \in DOMAIN Reports(o) : Reports(o)[i] = f
<1> DEFINE I == {i \in DOMAIN Formats : Formats[i] \in o.formats}
<1>1. Reports(o) = Kept(Formats, I) /\ I \in SUBSET DOMAIN Formats
  BY DEF Reports
<1>2. \A i \in I : Formats[i] \in Own \cap o.formats
  BY FormatsType DEF Own
<1>3. \A f \in Own \cap o.formats : \E i \in I : Formats[i] = f
  BY FormatsType DEF Own
<1> HIDE DEF I
<1>4. /\ IsList(Kept(Formats, I))
      /\ \A n \in DOMAIN Kept(Formats, I) : \E i \in I : Kept(Formats, I)[n] = Formats[i]
      /\ \A i \in I : \E n \in DOMAIN Kept(Formats, I) : Kept(Formats, I)[n] = Formats[i]
  BY <1>1, FormatsType, KeptKeeps
<1> QED BY <1>1, <1>2, <1>3, <1>4

\* The proved findings of a result are some of its findings.
LEMMA ProvedType ==
  ASSUME NEW r \in Known
  PROVE  /\ IsList(Proved(r))
         /\ \A n \in DOMAIN Proved(r) : SafeName[Proved(r)[n].id] \in Proofs \ Own
<1> DEFINE fs == r.findings
           I == {i \in DOMAIN fs : fs[i].severity \in {"high", "critical"} /\ fs[i].supported}
<1>1. Proved(r) = Kept(fs, I) /\ I \in SUBSET DOMAIN fs
  BY DEF Proved
<1>2. IsList(fs) /\ \A i \in DOMAIN fs : SafeName[fs[i].id] \in Proofs \ Own
  <2>1. CASE r \in Results
    BY <2>1, ResultsAssumption DEF Proofs, Own, Range
  <2>2. CASE r = Empty
    <3>1. fs = <<>> /\ <<>> = [i \in 1 .. 0 |-> <<>>[i]]
      BY <2>2 DEF Empty
    <3>2. IsList(<<>>) /\ DOMAIN <<>> = 1 .. 0
      BY <3>1, ListIntro
    <3> QED BY <3>1, <3>2
  <2> QED BY <2>1, <2>2 DEF Known
<1> HIDE DEF fs, I
<1>3. /\ IsList(Kept(fs, I))
      /\ \A n \in DOMAIN Kept(fs, I) : \E i \in I : Kept(fs, I)[n] = fs[i]
  BY <1>1, <1>2, KeptKeeps
<1> QED BY <1>1, <1>2, <1>3

\* What a run writes: the reports asked for and the proofs of what is proved.
IsReport(o, e) == \E f \in Own \cap o.formats : e = Entry(f, "report")
IsProof(r, e) == \E g \in Range(Proved(r)) : e = Entry(SafeName[g.id], g.what)

\* What a run writes: the reports of its formats and a file for each proof.
LEMMA ToWriteType ==
  ASSUME NEW r \in Known, NEW o, ~o.dry_run
  PROVE  /\ IsList(ToWrite(r, o))
         /\ \A i \in DOMAIN ToWrite(r, o) :
              IsReport(o, ToWrite(r, o)[i]) \/ IsProof(r, ToWrite(r, o)[i])
         /\ \A f \in Own \cap o.formats : \E i \in DOMAIN ToWrite(r, o) : ToWrite(r, o)[i].path = f
         /\ \A g \in Range(Proved(r)) :
              \E i \in DOMAIN ToWrite(r, o) : ToWrite(r, o)[i].path = SafeName[g.id]
<1> DEFINE s == [i \in DOMAIN Reports(o) |-> Entry(Reports(o)[i], "report")]
           t == [i \in DOMAIN Proved(r) |-> Entry(SafeName[Proved(r)[i].id], Proved(r)[i].what)]
           both == s \o t
<1>1. ToWrite(r, o) = both
  BY DEF ToWrite
<1>2. Len(Reports(o)) \in Nat /\ DOMAIN Reports(o) = 1 .. Len(Reports(o))
  BY ReportsType, ListDomain
<1>3. IsList(s) /\ DOMAIN s = DOMAIN Reports(o)
  BY <1>2, ListIntro
<1>4. Len(Proved(r)) \in Nat /\ DOMAIN Proved(r) = 1 .. Len(Proved(r))
  BY ProvedType, ListDomain
<1>5. IsList(t) /\ DOMAIN t = DOMAIN Proved(r)
  BY <1>4, ListIntro
<1>6. \A i \in DOMAIN s : IsReport(o, s[i])
  BY ReportsType DEF IsReport
<1>7. \A i \in DOMAIN t : IsProof(r, t[i])
  BY DEF IsProof, Range
<1>8. \A f \in Own \cap o.formats : \E i \in DOMAIN s : s[i].path = f
  BY ReportsType DEF Entry
<1>9. \A g \in Range(Proved(r)) : \E i \in DOMAIN t : t[i].path = SafeName[g.id]
  BY DEF Entry, Range
<1> HIDE DEF s, t
<1>10. /\ IsList(both)
       /\ \A i \in DOMAIN both : \/ \E j \in DOMAIN s : both[i] = s[j]
                                \/ \E j \in DOMAIN t : both[i] = t[j]
       /\ Range(both) = Range(s) \cup Range(t)
  BY <1>3, <1>5, ListJoin
<1> HIDE DEF both
<1>11. \A f \in Own \cap o.formats : \E i \in DOMAIN both : both[i].path = f
  <2> SUFFICES ASSUME NEW f \in Own \cap o.formats PROVE \E i \in DOMAIN both : both[i].path = f
    OBVIOUS
  <2>1. PICK i \in DOMAIN s : s[i].path = f
    BY <1>8
  <2>2. s[i] \in Range(both)
    BY <1>10 DEF Range
  <2> QED BY <2>1, <2>2 DEF Range
<1>12. \A g \in Range(Proved(r)) : \E i \in DOMAIN both : both[i].path = SafeName[g.id]
  <2> SUFFICES ASSUME NEW g \in Range(Proved(r))
               PROVE  \E i \in DOMAIN both : both[i].path = SafeName[g.id]
    OBVIOUS
  <2>1. PICK i \in DOMAIN t : t[i].path = SafeName[g.id]
    BY <1>9
  <2>2. t[i] \in Range(both)
    BY <1>10 DEF Range
  <2> QED BY <2>1, <2>2 DEF Range
<1>13. \A i \in DOMAIN both : IsReport(o, both[i]) \/ IsProof(r, both[i])
  BY <1>6, <1>7, <1>10
<1> QED BY <1>1, <1>10, <1>11, <1>12, <1>13

----------------------------------------------------------------------------
(* The files while they are written.                                       *)

Due == ToWrite(result, opts)

\* The first n files due are this run's; the others are as they were.
Overlaid(n) ==
  \A f \in Files :
    \/ \E i \in 1 .. n : Due[i].path = f /\ disk[f] = [run |-> run, what |-> Due[i].what]
    \/ (\A i \in 1 .. n : Due[i].path # f) /\ disk[f] = before[f]

\* While files are written, those due that are not in todo are written.
Progress ==
  \E n \in 0 .. Len(Due) :
    /\ Overlaid(n)
    /\ todo = [i \in 1 .. Len(Due) - n |-> Due[n + i]]

WriteInv ==
  /\ result \in Known
  /\ disk = [f \in Files |-> disk[f]]
  /\ phase = "write" /\ ~opts.dry_run => Progress
  /\ phase = "completed" /\ ~opts.dry_run => Overlaid(Len(Due))

\* At first the directory is as it was found,
LEMMA WriteInvInit == Init => WriteInv
BY DEF Init, WriteInv, Known

\* What is due is a list of files of the directory.
LEMMA DueType ==
  ASSUME result \in Known, ~opts.dry_run
  PROVE  /\ IsList(Due) /\ Len(Due) \in Nat /\ DOMAIN Due = 1 .. Len(Due)
         /\ \A i \in DOMAIN Due : Due[i].path \in Files
<1>1. /\ IsList(Due)
      /\ \A i \in DOMAIN Due : IsReport(opts, Due[i]) \/ IsProof(result, Due[i])
  BY ToWriteType DEF Due
<1>2. Len(Due) \in Nat /\ DOMAIN Due = 1 .. Len(Due)
  BY <1>1, ListDomain
<1>3. \A e : IsReport(opts, e) => e.path \in Files
  BY DEF IsReport, Own, Files, Entry
<1>4. \A e : IsProof(result, e) => e.path \in Files
  <2>1. \A g \in Range(Proved(result)) : SafeName[g.id] \in Proofs
    BY ProvedType DEF Range
  <2> QED BY <2>1 DEF IsProof, Files, Entry
<1> QED BY <1>1, <1>2, <1>3, <1>4

\* One more file is written, and one less is to do.
LEMMA WriteFileProgress ==
  ASSUME WriteInv, WriteFile, ~opts.dry_run
  PROVE  Progress'
<1>1. /\ IsList(Due) /\ Len(Due) \in Nat /\ DOMAIN Due = 1 .. Len(Due)
      /\ \A i \in DOMAIN Due : Due[i].path \in Files
  BY DueType DEF WriteInv
<1>2. Due' = Due /\ opts' = opts /\ run' = run /\ before' = before
  BY DEF WriteFile, Due
<1>3. PICK n \in 0 .. Len(Due) :
        Overlaid(n) /\ todo = [i \in 1 .. Len(Due) - n |-> Due[n + i]]
  BY DEF WriteInv, Progress, WriteFile
<1> DEFINE k == Len(Due)
<1> HIDE DEF k
<1>4. k \in Nat /\ n \in 0 .. k /\ k = Len(Due)
  BY <1>1 DEF k
<1>5. n < k
  <2> SUFFICES ASSUME n = k PROVE FALSE
    BY <1>4
  <2>1. todo = [i \in 1 .. 0 |-> Due[n + i]]
    BY <1>3, <1>4
  <2> QED BY <2>1 DEF WriteFile
<1>6. IsList(todo) /\ Len(todo) = k - n
  <2>1. todo = [i \in 1 .. k - n |-> todo[i]] /\ k - n \in Nat
    BY <1>3, <1>4
  <2> QED BY <2>1, ListIntro
<1>7. Head(todo) = Due[n + 1] /\ Tail(todo) = [i \in 1 .. k - (n + 1) |-> Due[n + 1 + i]]
  <2>1. todo \in Seq({todo[i] : i \in DOMAIN todo})
    BY <1>6 DEF IsList
  <2>2. 1 \in 1 .. k - n /\ todo[1] = Due[n + 1]
    BY <1>3, <1>4, <1>5
  <2>3. Head(todo) = todo[1]
    BY <1>6, <2>1, <2>2
  <2> DEFINE S == {todo[i] : i \in DOMAIN todo}
             t == Tail(todo)
  <2> HIDE DEF S
  <2>4. t \in Seq(S) /\ Len(t) = Len(todo) - 1 /\ \A i \in 1 .. Len(t) : t[i] = todo[i + 1]
    BY <2>1, HeadTailProperties DEF S, WriteFile
  <2> HIDE DEF t
  <2>5. t = [i \in 1 .. Len(t) |-> t[i]] /\ Len(t) = k - (n + 1)
    BY <1>4, <1>6, <2>4
  <2>6. \A i \in 1 .. k - (n + 1) : t[i] = Due[n + 1 + i]
    <3> SUFFICES ASSUME NEW i \in 1 .. k - (n + 1) PROVE t[i] = Due[n + 1 + i]
      OBVIOUS
    <3>1. t[i] = todo[i + 1] /\ i + 1 \in 1 .. k - n
      BY <1>4, <2>4, <2>5
    <3>2. todo[i + 1] = Due[n + (i + 1)] /\ n + (i + 1) = n + 1 + i
      BY <1>3, <1>4, <3>1
    <3> QED BY <3>1, <3>2
  <2>7. t = [i \in 1 .. k - (n + 1) |-> Due[n + 1 + i]]
    BY <2>5, <2>6
  <2> QED BY <2>2, <2>3, <2>7 DEF t
<1>8. /\ disk' = [disk EXCEPT ![Due[n + 1].path] = [run |-> run, what |-> Due[n + 1].what]]
      /\ todo' = Tail(todo)
  BY <1>7 DEF WriteFile
<1>9. Due[n + 1].path \in Files
  BY <1>1, <1>4, <1>5
<1> DEFINE d == Due
<1> HIDE DEF d
<1>10. \A f \in Files :
         \/ \E i \in 1 .. n + 1 : d[i].path = f /\ disk'[f] = [run |-> run, what |-> d[i].what]
         \/ (\A i \in 1 .. n + 1 : d[i].path # f) /\ disk'[f] = before[f]
  <2> SUFFICES ASSUME NEW f \in Files
               PROVE  \/ \E i \in 1 .. n + 1 : d[i].path = f /\ disk'[f] = [run |-> run, what |-> d[i].what]
                      \/ (\A i \in 1 .. n + 1 : d[i].path # f) /\ disk'[f] = before[f]
    OBVIOUS
  <2>0. n \in Nat /\ n + 1 \in 1 .. n + 1 /\ \A i \in 1 .. n + 1 : i \in 1 .. n \/ i = n + 1
    BY <1>4
  <2>1. CASE d[n + 1].path = f
    <3>1. disk'[f] = [run |-> run, what |-> d[n + 1].what]
      BY <1>8, <2>1 DEF WriteInv, d
    <3> QED BY <2>0, <2>1, <3>1
  <2>2. CASE d[n + 1].path # f
    <3>1. disk'[f] = disk[f]
      BY <1>8, <2>2 DEF WriteInv, d
    <3>2. \/ \E i \in 1 .. n : d[i].path = f /\ disk[f] = [run |-> run, what |-> d[i].what]
          \/ (\A i \in 1 .. n : d[i].path # f) /\ disk[f] = before[f]
      BY <1>3 DEF Overlaid, d
    <3>3. \A i \in 1 .. n : i \in 1 .. n + 1
      BY <2>0
    <3> QED BY <2>0, <2>2, <3>1, <3>2, <3>3
  <2> QED BY <2>1, <2>2
<1>11. (Overlaid(n + 1))'
  BY <1>2, <1>10 DEF Overlaid, d
<1>12. n + 1 \in 0 .. k
  BY <1>4, <1>5
<1>13. todo' = [i \in 1 .. Len(Due') - (n + 1) |-> Due'[n + 1 + i]]
  BY <1>2, <1>7, <1>8 DEF k
<1> QED BY <1>2, <1>11, <1>12, <1>13 DEF Progress, k

\* and every step leaves it overlaid with what has been written.
LEMMA WriteInvNext == RunInv /\ WriteInv /\ [Next]_vars => WriteInv'
<1> SUFFICES ASSUME RunInv, WriteInv, [Next]_vars PROVE WriteInv'
  OBVIOUS
<1> USE DEF NoCode, End, Goto, Uncaught
<1>1. CASE MakeDirectory
  <2>1. disk' = disk /\ before' = before /\ result' = result /\ opts' = opts /\ disk = before
    BY <1>1 DEF MakeDirectory, RunInv, Reading
  <2>2. phase' # "completed" /\ (phase' = "write" => todo' = Due)
    BY <1>1 DEF MakeDirectory, Due
  <2>3. ASSUME phase' = "write", ~opts'.dry_run PROVE Progress'
    <3>1. IsList(Due) /\ Len(Due) \in Nat
      BY <2>1, <2>3, DueType DEF WriteInv
    <3>2. Due = [i \in 1 .. Len(Due) |-> Due[i]]
      BY <3>1, ListDomain
    <3>3. Due' = Due
      BY <2>1 DEF Due
    <3>4. todo' = [i \in 1 .. Len(Due) - 0 |-> Due[0 + i]]
      BY <2>2, <2>3, <3>1, <3>2
    <3>5. (Overlaid(0))'
      BY <2>1 DEF Overlaid
    <3>6. 0 \in 0 .. Len(Due)
      BY <3>1
    <3> QED BY <3>3, <3>4, <3>5, <3>6 DEF Progress
  <2> QED BY <2>1, <2>2, <2>3 DEF WriteInv
<1>2. CASE WriteFile
  <2>1. /\ result' = result /\ opts' = opts /\ phase' = "write"
        /\ disk' = [disk EXCEPT ![Head(todo).path] = [run |-> run, what |-> Head(todo).what]]
    BY <1>2 DEF WriteFile
  <2>2. ~opts'.dry_run => Progress'
    BY <1>2, <2>1, WriteFileProgress
  <2>3. disk' = [f \in Files |-> disk'[f]]
    BY <2>1 DEF WriteInv
  <2> QED BY <2>1, <2>2, <2>3 DEF WriteInv
<1>3. CASE WriteFails
  <2>1. result' = result /\ phase' = "failed"
    BY <1>3 DEF WriteFails
  <2>2. PICK content : disk' = [disk EXCEPT ![Head(todo).path] = content]
    BY <1>3 DEF WriteFails
  <2>3. disk' = [f \in Files |-> disk'[f]]
    BY <2>2 DEF WriteInv
  <2> QED BY <2>1, <2>3 DEF WriteInv
<1>4. CASE Finish
  <2>1. /\ UNCHANGED <<run, opts, result, todo, disk, before>>
        /\ phase = "write" /\ todo = <<>> /\ phase' = "completed"
    BY <1>4 DEF Finish
  <2>2. ASSUME ~opts.dry_run PROVE Overlaid(Len(Due))
    <3>1. PICK n \in 0 .. Len(Due) : Overlaid(n) /\ todo = [i \in 1 .. Len(Due) - n |-> Due[n + i]]
      BY <2>1, <2>2 DEF WriteInv, Progress
    <3>2. Len(Due) \in Nat
      BY <2>2, DueType DEF WriteInv
    <3> DEFINE k == Len(Due)
    <3> HIDE DEF k
    <3>3. k \in Nat /\ n \in 0 .. k /\ todo = [i \in 1 .. k - n |-> Due[n + i]]
      BY <3>1, <3>2 DEF k
    <3>4. n = k
      <4>1. DOMAIN todo = 1 .. k - n /\ DOMAIN todo = {}
        BY <2>1, <3>3
      <4>2. 1 \notin 1 .. k - n
        BY <4>1
      <4> QED BY <3>3, <4>2
    <3> QED BY <3>1, <3>4 DEF k
  <2> QED BY <2>1, <2>2 DEF WriteInv, Overlaid, Due
<1>5. CASE Analyze
  BY <1>5 DEF Analyze, WriteInv, Known
<1>6. CASE UNCHANGED vars
  BY <1>6 DEF vars, WriteInv, Progress, Overlaid, Due
<1>7. CASE Start
  BY <1>7 DEF Start, WriteInv, Known
<1>8. CASE Configure \/ Discover \/ Plan \/ FindHelper \/ HelperTimesOut \/ Advise
           \/ VersionAnswered \/ ParseAnswered
  BY <1>8 DEF Configure, Discover, Plan, FindHelper, HelperTimesOut, Advise,
              VersionAnswered, ParseAnswered, WriteInv
<1> QED BY <1>1, <1>2, <1>3, <1>4, <1>5, <1>6, <1>7, <1>8 DEF Next, Program

\* A completed run leaves the reports that were asked for as its own and each high
\* finding's proof under the name its id gives.
THEOREM ReportsAreOwn == Spec => []ReportsAreOfThisRun
<1>1. ASSUME RunInv, WriteInv, phase = "completed" PROVE ReportsAreOfThisRun
  <2>1. CASE opts.dry_run
    <3>1. disk = before
      BY <1>1, <2>1 DEF RunInv
    <3> QED BY <2>1, <3>1 DEF ReportsAreOfThisRun
  <2>2. CASE ~opts.dry_run
    <3>1. /\ \A i \in DOMAIN Due : IsReport(opts, Due[i]) \/ IsProof(result, Due[i])
          /\ \A f \in Own \cap opts.formats : \E i \in DOMAIN Due : Due[i].path = f
          /\ \A g \in Range(Proved(result)) : \E i \in DOMAIN Due : Due[i].path = SafeName[g.id]
      BY <1>1, <2>2, ToWriteType DEF WriteInv, Due
    <3>2. DOMAIN Due = 1 .. Len(Due)
      BY <1>1, <2>2, DueType DEF WriteInv
    <3> DEFINE d == Due
    <3>3. \A f \in Files :
            \/ \E i \in DOMAIN d : d[i].path = f /\ disk[f] = [run |-> run, what |-> d[i].what]
            \/ (\A i \in DOMAIN d : d[i].path # f) /\ disk[f] = before[f]
      BY <1>1, <2>2, <3>2 DEF WriteInv, Overlaid
    <3>4. \A g \in Range(Proved(result)) : SafeName[g.id] \in Files \ Own
      BY <1>1, ProvedType DEF WriteInv, Range, Files, Own
    <3>5. \A i \in DOMAIN d : d[i].path \in Own => d[i].path \in opts.formats /\ d[i].what = "report"
      BY <3>1, <3>4 DEF IsReport, IsProof, Entry
    <3>6. \A i \in DOMAIN d : d[i].path \notin Own =>
            \E g \in Range(Proved(result)) : d[i].path = SafeName[g.id] /\ d[i].what = g.what
      BY <3>1 DEF IsReport, IsProof, Entry
    <3> HIDE DEF d
    <3>7. ASSUME NEW f \in Own
          PROVE  disk[f] = IF f \in opts.formats THEN [run |-> run, what |-> "report"] ELSE before[f]
      <4>1. f \in Files
        BY DEF Own, Files
      <4>2. f \in opts.formats => \E i \in DOMAIN d : d[i].path = f
        BY <3>1 DEF d
      <4>3. CASE \E i \in DOMAIN d : d[i].path = f
        <5>1. PICK i \in DOMAIN d : d[i].path = f /\ disk[f] = [run |-> run, what |-> d[i].what]
          BY <3>3, <4>1, <4>3
        <5>2. f \in opts.formats /\ d[i].what = "report"
          BY <3>5, <5>1
        <5> QED BY <5>1, <5>2
      <4>4. CASE ~\E i \in DOMAIN d : d[i].path = f
        <5>1. disk[f] = before[f]
          BY <3>3, <4>1, <4>4
        <5> QED BY <4>2, <4>4, <5>1
      <4> QED BY <4>3, <4>4
    <3>8. ASSUME NEW f \in Range(Proved(result))
          PROVE  /\ disk[SafeName[f.id]].run = run
                 /\ (\A g \in Range(Proved(result)) : SafeName[g.id] = SafeName[f.id] => g = f) =>
                      disk[SafeName[f.id]].what = f.what
      <4>1. \E i \in DOMAIN d : d[i].path = SafeName[f.id]
        BY <3>1 DEF d
      <4>2. PICK i \in DOMAIN d :
               d[i].path = SafeName[f.id] /\ disk[SafeName[f.id]] = [run |-> run, what |-> d[i].what]
        BY <3>3, <3>4, <4>1
      <4>3. PICK g \in Range(Proved(result)) : d[i].path = SafeName[g.id] /\ d[i].what = g.what
        BY <3>4, <3>6, <4>2
      <4> QED BY <4>2, <4>3
    <3> QED BY <2>2, <3>7, <3>8 DEF ReportsAreOfThisRun, Own
  <2> QED BY <2>1, <2>2
<1>2. RunInv /\ WriteInv => ReportsAreOfThisRun
  BY <1>1 DEF ReportsAreOfThisRun
<1> QED BY <1>2, RunInvInit, RunInvNext, WriteInvInit, WriteInvNext, PTL DEF Spec
=============================================================================
