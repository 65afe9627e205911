----------------------------- MODULE MCExplorer -----------------------------
(***************************************************************************)
(* Explorer on the graphs CFGBuilder builds for the programs of two        *)
(* families.  Branching: a first statement, a compound statement whose     *)
(* branches hold at most one statement, and a last statement, simple or    *)
(* compound.  Mixed: three statements out of one of each shape the builder *)
(* and the rules know.                                                     *)
(***************************************************************************)
EXTENDS Explorer, BuildState

CONSTANT MCPrograms     \* a sequence of function bodies

MCNames == {"x", "f", "a"}
MCTexts == {"true", "false", "nil", "0"}
MCIntOf == [t \in MCTexts |-> IF t = "0" THEN 0 ELSE -1]
MCTags == {"src"}
MCTypes == {"T"}

Lit(t) == [k |-> "lit", text |-> t]
Id(n) == [k |-> "id", name |-> n]
Opaque == [k |-> "compound", reads |-> {}, tags |-> {}]

Simple(label, roots, update) ==
  [k |-> "simple", label |-> label, roots |-> roots, calls |-> <<>>, update |-> update]
Assign(n, v) == Simple("assignment", {}, [k |-> "assign", name |-> n, val |-> v])
Expression(site) == Simple("expression", {site}, [k |-> "keep"])
UnwrapX(id) == [k |-> "unwrap", id |-> id, operand |-> Id("x")]
IndexA(id) == [k |-> "subscript", id |-> id, base |-> "a", index |-> Id("x")]
ReturnWith(site) ==
  [k |-> "leave", label |-> "return_statement", kind |-> "return",
   roots |-> {site}, calls |-> <<>>]
If(c, t, e) == [k |-> "if", cond |-> c, scan |-> {}, then |-> t, else |-> e]
Guard(c, e) == [k |-> "guard", cond |-> c, scan |-> {}, else |-> e]
While(c, body) ==
  [k |-> "loop", label |-> "while_loop", cond |-> c, scan |-> {}, body |-> body]

\* The i-th element of a sequence, counted from 0 and round its end.
At(seq, i) == seq[(i % Len(seq)) + 1]

Conds == <<Id("f"), [k |-> "let", name |-> "x"],
           [k |-> "compare", index |-> "x", array |-> "a"]>>
\* The slot keeps the sites of one program apart.
Blocks(slot) == <<<<>>, <<Assign("f", Lit("true"))>>, <<ReturnWith(UnwrapX(slot))>>>>
Ifs(slot) == [i \in 1 .. 27 |-> If(At(Conds, i), At(Blocks(slot), i \div 3),
                                   At(Blocks(slot + 1), i \div 9))]
Guards(slot) == [i \in 1 .. 3 |-> Guard(At(Conds, i), <<ReturnWith(UnwrapX(slot))>>)]
Loops(slot) == [i \in 1 .. 9 |-> While(At(Conds, i), At(Blocks(slot), i \div 3))]
Compounds(slot) == Ifs(slot) \o Guards(slot) \o Loops(slot)
Firsts == <<Assign("f", Lit("false")), Assign("f", Opaque), Assign("x", Lit("nil"))>>
Lasts == <<Expression(UnwrapX(9)), Expression(IndexA(9))>> \o Compounds(5)

Branching ==
  LET c == Compounds(1)
      l == Lasts
  IN  [i \in 1 .. 3 * Len(c) * Len(l) |->
         <<At(Firsts, i), At(c, i \div 3), At(l, i \div (3 * Len(c)))>>]

----------------------------------------------------------------------------
(* The statements of Mixed; ids keeps the sites of one program apart.      *)

Decl(n, opt, v) ==
  Simple("variable_declaration", {},
         [k |-> "decl", names |-> {n}, optional |-> opt, val |-> v])
Send(id) ==
  LET sink == [k |-> "sink", id |-> id, args |-> {Id("x")}]
  IN  [Expression(sink) EXCEPT !.calls = <<{sink}>>]
First(id) == Expression([k |-> "subscript", id |-> id, base |-> "a", index |-> Lit("0")])
CastX(id) == Expression([k |-> "cast", id |-> id, operand |-> "x"])
TryBang(id) == [Expression([k |-> "try", id |-> id]) EXCEPT !.calls = <<{}>>]
Throw == [k |-> "leave", label |-> "throw_statement", kind |-> "throw",
          roots |-> {}, calls |-> <<>>]
Break == [k |-> "jump", label |-> "break_statement"]
Not(c) == [k |-> "not", of |-> c]
IsEmptyA == [k |-> "isEmpty", name |-> "a"]

Mixture(id) ==
  <<Decl("a", FALSE, [k |-> "array", size |-> 1]),
    Decl("x", TRUE, [k |-> "compound", reads |-> {}, tags |-> {"src"}]),
    Send(id),
    If(Not(IsEmptyA), <<First(id)>>, <<>>),
    If([k |-> "is", name |-> "x", type |-> "T"], <<CastX(id)>>, <<CastX(id + 1)>>),
    [While(Id("f"), <<Assign("f", Lit("false"))>>) EXCEPT !.scan = {UnwrapX(id)}],
    While([k |-> "eq", left |-> Id("f"), right |-> Lit("true"), negated |-> FALSE], <<Break>>),
    [k |-> "switch", cond |-> Id("f"), scan |-> {},
     cases |-> <<<<>>, <<Assign("x", Id("x"))>>, <<Throw>>>>],
    [k |-> "do", body |-> <<TryBang(id)>>, catches |-> <<<<Assign("x", Lit("nil"))>>>>],
    [k |-> "do", body |-> <<>>, catches |-> <<<<Throw>>, <<Expression(UnwrapX(id))>>>>],
    [k |-> "defer", body |-> <<Expression([UnwrapX(id) EXCEPT !.operand = Id("a")])>>],
    Guard(Not(Id("f")), <<Throw>>)>>

Mixed ==
  LET m == Len(Mixture(0))
  IN  [i \in 1 .. m * m * m |->
         <<At(Mixture(10), i), At(Mixture(20), i \div m), At(Mixture(30), i \div (m * m))>>]


\* Short programs with loops in loops and branches in loops, for small depths.
Nested ==
  LET inner == <<<<Assign("f", Lit("false"))>>, <<Break>>,
                 <<Assign("x", Lit("nil")), ReturnWith(UnwrapX(1))>>>>
      bodies == [i \in 1 .. 18 |->
                   IF i > 9 THEN <<While(At(Conds, i), At(inner, i \div 3))>>
                            ELSE <<If(At(Conds, i), At(inner, i \div 3), <<>>), Send(2)>>]
  IN  [i \in 1 .. 54 |-> <<While(At(Conds, i \div 18), At(bodies, i)), Expression(UnwrapX(3))>>]

Programs == Branching \o Mixed \o Nested

NextOf(b) ==
  CASE AtStatement(b) -> EmitStatement(b)
    [] AtReturn(b)    -> EndBlock(b)
    [] AtBranch(b)    -> ConnectBranch(b)
    [] AtForkEnd(b)   -> EndFork(b)
    [] AtCatch(b)     -> EnterCatch(b)
    [] AtDoEnd(b)     -> EndDo(b)

\* CFGBuilder's steps, up to the last.
RECURSIVE Finish(_)
Finish(b) == IF Built(b) THEN b ELSE Finish(NextOf(b))

Build(symbol) == GraphOf(symbol, Finish(Start(symbol.body)))

MCGraphs ==
  {Build([params |-> {[name |-> "x", optional |-> TRUE]}, body |-> p]) : p \in Range(MCPrograms)}
----------------------------------------------------------------------------
(* Statements of the source that the code does not live up to.             *)

\* "The reported edge is not taken on any explored feasible path" (the proof of
\* rules/dead_branch.py): no recorded path goes where a dead edge leads.
DeadBranchNotTaken ==
  Done => \A e \in {x \in events : x.k = "dead"}, i \in DOMAIN paths :
    LET t == paths[i].nodes
    IN  \A j \in 1 .. Len(t) - 1 :
          t[j] = e.node =>
            \E x \in Range(graph.out[e.node]) : x.dst = t[j + 1] /\ x.label # e.label


\* "false fallthrough" (cfg/builder.py, _emit_loop): a walk that goes past a loop
\* does so with the loop condition false.
LoopFallsThroughOnFalse ==
  \A i \in 1 .. Len(stack) - 1 :
    LET n == graph.nodes[stack[i].node]
        next == stack[i + 1]
        labels == {x.label : x \in {y \in Range(graph.out[stack[i].node]) : y.dst = next.node}}
    IN  n.label \in LoopLabels /\ "true" \notin labels =>
          next.key[2] = ApplyConditionFacts(n.cond, stack[i].state, FALSE)
=============================================================================
