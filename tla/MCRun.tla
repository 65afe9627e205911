------------------------------- MODULE MCRun -------------------------------
(***************************************************************************)
(* Two runs with any of the options that matter; one, with a high finding, *)
(* can be followed by one without.  The two findings of `a!.b!` start at   *)
(* one place and have one id; those in a:b and a_b have two ids and one    *)
(* file name.                                                              *)
(***************************************************************************)
EXTENDS Run

Finding(id, what, severity) ==
  [id |-> id, what |-> what, severity |-> severity, supported |-> TRUE]

MCResults ==
  {[findings |-> fs, partial |-> p] :
     fs \in {<<>>,
             <<Finding("f", "medium", "medium")>>,
             <<Finding("f", "high", "high"), Finding("g", "medium", "medium")>>,
             <<Finding("h", "outer", "high"), Finding("h", "inner", "high")>>,
             <<Finding("a:b", "first", "high"), Finding("a_b", "second", "high"),
               Finding("f", "high", "high")>>},
     p \in BOOLEAN}

MCSafeName ==
  [id \in {"f", "g", "h", "a:b", "a_b"} |-> IF id = "a:b" THEN "a_b" ELSE id]

Usual == [formats |-> {"markdown", "json"}, threshold |-> "medium", fail_on_partial |-> FALSE,
          fail_on_drift |-> FALSE, drift_policy |-> "warn", refuse_advanced |-> FALSE,
          dry_run |-> FALSE]

MCOptions ==
  {[Usual EXCEPT !.formats = fs, !.threshold = t, !.fail_on_partial = p] :
     fs \in {{}, {"json"}, {"markdown", "json"}}, t \in {"medium", "high", "unknown"},
     p \in BOOLEAN}
  \cup {[Usual EXCEPT !.dry_run = TRUE], [Usual EXCEPT !.refuse_advanced = TRUE],
        [Usual EXCEPT !.drift_policy = "fail"], [Usual EXCEPT !.fail_on_drift = TRUE]}
=============================================================================
