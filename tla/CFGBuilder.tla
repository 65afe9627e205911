----------------------------- MODULE CFGBuilder -----------------------------
(***************************************************************************)
(* CFGBuilder.build (cfg/builder.py): from the body of a function to its   *)
(* control-flow graph.  The methods of _BuildState call each other; a step *)
(* is what one of them does between two calls.                             *)
(***************************************************************************)
EXTENDS BuildState

CONSTANTS
  Statements,     \* the statements there are, at every depth
  Symbols         \* the functions: their parameters and bodies

Bodies == Seq(Statements)

Shapes == {"simple", "leave", "jump", "if", "guard", "switch", "loop", "defer", "do"}

IsStatement(s) ==
  /\ s.k \in Shapes
  /\ s.k \in {"simple", "leave"} =>
       /\ s.label \in StatementLabels /\ s.roots \in SUBSET Sites /\ s.calls \in Seq(SUBSET Sites)
  /\ s.k = "simple" => s.update \in Updates
  /\ s.k = "leave" => s.kind \in {"return", "throw"}
  /\ s.k = "jump" => s.label \in {"break_statement", "continue_statement"}
  /\ s.k \in {"if", "guard", "switch", "loop"} =>
       s.cond \in Conditions /\ s.scan \in SUBSET Sites
  /\ s.k = "if" => s.then \in Bodies
  /\ s.k \in {"if", "guard"} => s.else \in Bodies
  /\ s.k = "switch" => s.cases \in Seq(Bodies)
  /\ s.k = "loop" => s.label \in LoopLabels
  /\ s.k \in {"loop", "defer", "do"} => s.body \in Bodies
  /\ s.k = "do" => s.catches \in Seq(Bodies)

\* The blocks of a statement hold statements again.
ASSUME BuilderAssumption ==
  /\ \A s \in Statements : IsStatement(s)
  /\ \A f \in Symbols : f.params \in SUBSET Parameters /\ f.body \in Bodies

VARIABLES
  symbol,     \* the function
  state       \* the _BuildState

vars == <<symbol, state>>

Init == symbol \in Symbols /\ state = Start(symbol.body)

Move(at, after) == at /\ state' = after /\ UNCHANGED symbol

NextStatement == Move(AtStatement(state), EmitStatement(state))
NextBranch    == Move(AtBranch(state), ConnectBranch(state))
ForkEnds      == Move(AtForkEnd(state), EndFork(state))
NextCatch     == Move(AtCatch(state), EnterCatch(state))
DoEnds        == Move(AtDoEnd(state), EndDo(state))
BlockEnds     == Move(AtReturn(state), EndBlock(state))

Next == NextStatement \/ NextBranch \/ ForkEnds \/ NextCatch \/ DoEnds \/ BlockEnds

Spec == Init /\ [][Next]_vars

Done == Built(state)
graph == GraphOf(symbol, state)

----------------------------------------------------------------------------
(* Properties.                                                             *)

Succs(g, S) == UNION {{e.dst : e \in Range(g.out[n])} : n \in S}

\* The nodes walks from S get to by nodes of W alone; as many rounds as there are nodes
\* leave none out.
Reached(g, S, W) ==
  LET R[k \in 0 .. Len(g.nodes)] ==
        IF k = 0 THEN S ELSE LET T == R[k - 1] IN T \cup (Succs(g, T) \cap W)
  IN  R[Len(g.nodes)]

Reachable(g, from) == Reached(g, {from}, DOMAIN g.nodes)

\* The explorer can walk what is built: its nodes are nodes, its edges lead to nodes, and
\* only back edges return, from a loop that cannot be entered behind its condition.  This
\* is what makes skipping back edges enough to bound a path.
GraphIsSound == Done => IsGraph(graph) /\ IsLaidOut(graph)

\* Nothing the builder emits is out of reach of the walk, and no walk can get stuck
\* before the exit.
EveryNodeOnAWay ==
  Done => LET g == graph
              met == Reachable(g, g.entry)
          IN  \A n \in DOMAIN g.nodes \ {ExitId} : n \in met /\ ExitId \in Reachable(g, n)

\* A back edge returns to a loop's condition, and only code inside the loop can take
\* it: no way from the entry to its source avoids that condition.
BackEdgesCloseLoops ==
  Done => LET g == graph
          IN  \A n \in DOMAIN g.nodes : \A e \in {x \in Range(g.out[n]) : x.label = "back"} :
                /\ g.nodes[e.dst].label \in LoopLabels
                /\ n # e.dst => n \notin Reached(g, {g.entry}, DOMAIN g.nodes \ {e.dst})
=============================================================================
