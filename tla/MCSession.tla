---------------------------- MODULE MCSession ----------------------------
(***************************************************************************)
(* Sessions with every privacy mode and every choice of the features that  *)
(* matter: planning, two of the three wordings, the summary.               *)
(***************************************************************************)
EXTENDS Session

CONSTANTS m1, m2, f1, f2

MCModules == {m1, m2}
MCIds == {f1, f2}

\* Depths below, at and above what is configured.
MCAsked == {-1, 0, 1, 2, 3, 9}

MCConfigs ==
  [max_depth : {-1, 2}, focus : {{}, {m1}}, enabled : BOOLEAN,
   privacy : {"offline", "redacted"},
   features : SUBSET (FeatureNames \ {"proof_prose_polishing"})]
=============================================================================
