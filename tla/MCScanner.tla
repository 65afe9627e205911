----------------------------- MODULE MCScanner -----------------------------
(***************************************************************************)
(* Every repository made of these files, with ignore files that say        *)
(* nothing or keep rg from two directories, searched from its root, below  *)
(* one directory, below two of which one lies in the other, or below a     *)
(* path that is a file or may not be there.                                *)
(***************************************************************************)
EXTENDS Scanner

Candidates ==
  {<<"src", "A.swift">>, <<"src", "notes.md">>, <<".build", "A.swift">>, <<"build", "A.swift">>,
   <<"src", ".build", "A.swift">>, <<"src", "Pods", "A.swift">>, <<"Pods", "A.swift">>,
   <<"src", "Gen", "A.swift">>, <<"src", "src", "Pods", "A.swift">>}

MCTrees == SUBSET Candidates
MCIncludes ==
  {<<>>, <<<<"src">>>>, <<<<"src">>, <<"Pods">>>>, <<<<"src">>, <<"src", "Pods">>>>,
   <<<<"src", "A.swift">>>>}
MCExcludes == {{<<".build">>, <<"Pods">>}, {<<"build">>}, {<<"src", "Pods">>}}
MCIgnores == {{}, {<<"src", "Gen">>, <<"Pods">>}}
MCSwift == {"A.swift"}
MCUndotted == [x \in {".build"} |-> "build"]
=============================================================================
