----------------------------- MODULE MCBuilder -----------------------------
(***************************************************************************)
(* CFGBuilder on function bodies of at most two statements whose blocks    *)
(* hold at most two.                                                       *)
(* A statement is marked with the id of the only site it holds, so that a  *)
(* walk through the graph shows which statements it executes.              *)
(***************************************************************************)
EXTENDS CFGBuilder, SequencesExt

MCNames == {"x"}
MCTexts == {"true", "false", "nil"}
MCIntOf == [t \in MCTexts |-> -1]

Mark(id) == {[k |-> "try", id |-> id]}
Keep == [k |-> "keep"]
Cond == [k |-> "compound", reads |-> {}, tags |-> {}]

Step(id) == [k |-> "simple", label |-> "expression", roots |-> Mark(id), calls |-> <<>>,
             update |-> Keep]
CallStep(id) == [Step(id) EXCEPT !.calls = <<{}, {}>>]
Return(id) == [k |-> "leave", label |-> "return_statement", kind |-> "return",
               roots |-> Mark(id), calls |-> <<>>]
Break == [k |-> "jump", label |-> "break_statement"]
If(id, t, e) == [k |-> "if", cond |-> Cond, scan |-> Mark(id), then |-> t, else |-> e]
Guard(id, e) == [k |-> "guard", cond |-> Cond, scan |-> Mark(id), else |-> e]
Switch(id, cases) == [k |-> "switch", cond |-> Cond, scan |-> Mark(id), cases |-> cases]
While(id, body) ==
  [k |-> "loop", label |-> "while_loop", cond |-> Cond, scan |-> Mark(id), body |-> body]
Do(body, catches) == [k |-> "do", body |-> body, catches |-> catches]
Defer(body) == [k |-> "defer", body |-> body]

Insides(id) ==
  {<<>>, <<Step(id)>>, <<Return(id)>>, <<Break>>, <<Do(<<>>, <<>>), CallStep(id)>>,
   <<If(id, <<Step(id + 1)>>, <<>>)>>, <<While(id, <<Step(id + 1)>>)>>,
   <<Guard(id, <<Return(id + 1)>>), Step(id + 2)>>}

\* The blocks that differ in the tails they leave.
Short(id) == {<<>>, <<Step(id)>>, <<Return(id)>>, <<Guard(id, <<Break>>)>>}

\* What may stand in the else of a guard: Swift wants it to leave.
Exits(id) == {<<Return(id)>>, <<Break>>, <<CallStep(id), Return(id + 1)>>}

MCStatements(id) ==
  {Step(id), Return(id), Break, Switch(id, <<>>)}
  \cup {If(id, t, e) : t \in Insides(id + 10), e \in Insides(id + 20)}
  \cup {Guard(id, b) : b \in Exits(id + 10)}
  \cup {While(id, b) : b \in Insides(id + 10)}
  \cup {Defer(b) : b \in Insides(id + 10)}
  \cup {Do(t, <<e>>) : t \in Insides(id + 10), e \in Short(id + 20)}
  \cup {Do(<<>>, <<t, e>>) : t \in Short(id + 10), e \in Short(id + 20)}
  \cup {Switch(id, <<t, e>>) : t \in Insides(id + 10), e \in Short(id + 20)}

Programs ==
  {<<>>} \cup {<<s>> : s \in MCStatements(0)}
  \cup {<<s, t>> : s \in MCStatements(0), t \in MCStatements(100)}

MCSymbols == {[params |-> {}, body |-> p] : p \in Programs}

\* The blocks of a statement.
BlocksOf(s) ==
  CASE s.k = "if" -> {s.then, s.else}
    [] s.k = "guard" -> {s.else}
    [] s.k = "switch" -> Range(s.cases)
    [] s.k \in {"loop", "defer"} -> {s.body}
    [] s.k = "do" -> {s.body} \cup Range(s.catches)
    [] OTHER -> {}

RECURSIVE WithInner(_)
WithInner(S) ==
  LET T == UNION {Range(block) : block \in UNION {BlocksOf(s) : s \in S}}
  IN  IF T = {} THEN S ELSE S \cup WithInner(T)

AllStatements == WithInner(UNION {Range(p) : p \in Programs})

----------------------------------------------------------------------------
(* Walks through the graph.                                                *)

MarksOf(g, n) == {x.id : x \in g.nodes[n].roots \cup g.nodes[n].scan}
Silent(g) == {n \in DOMAIN g.nodes : MarksOf(g, n) = {}}

\* The nodes at which a walk from the entry can be once it executed the statements
\* of the sequence trace.
After(g, trace) ==
  LET Advance(S, id) == {n \in Succs(g, Reached(g, S, Silent(g))) : id \in MarksOf(g, n)}
  IN  FoldLeft(Advance, {g.entry}, trace)

----------------------------------------------------------------------------
(* Reference: the runs of a body, every loop going round at most once,     *)
(* an empty loop not at all, and a `do` block failing, if it does, before  *)
(* its first statement.  A run is the ids it executes and whether it goes  *)
(* on or leaves the function.                                              *)

Run(ids, goes) == [ids |-> ids, goes |-> goes]
Then(R, S) == {r \in R : ~r.goes}
              \cup {Run(r.ids \o s.ids, s.goes) : r \in {q \in R : q.goes}, s \in S}

RECURSIVE RunsOf(_)
Runs(stmts) == FoldLeft(LAMBDA R, s : Then(R, RunsOf(s)), {Run(<<>>, TRUE)}, stmts)

IdOf(sites) == (CHOOSE x \in sites : TRUE).id
Test(stmt) == {Run(<<IdOf(stmt.scan)>>, TRUE)}

RunsOf(stmt) ==
  CASE stmt.k = "simple" -> {Run(<<IdOf(stmt.roots)>>, TRUE)}
    [] stmt.k = "leave"  -> {Run(<<IdOf(stmt.roots)>>, FALSE)}
    [] stmt.k = "if"     -> Then(Test(stmt), Runs(stmt.then) \cup Runs(stmt.else))
    [] stmt.k = "guard"  -> Test(stmt) \cup Then(Test(stmt), Runs(stmt.else))
    [] stmt.k = "switch" -> Then(Test(stmt), IF stmt.cases = <<>> THEN {Run(<<>>, TRUE)}
                                             ELSE UNION {Runs(c) : c \in Range(stmt.cases)})
    [] stmt.k = "loop" /\ stmt.body # <<>> ->
         Test(stmt) \cup Then(Then(Test(stmt), Runs(stmt.body)), Test(stmt))
    [] stmt.k = "loop"   -> Test(stmt)
    [] stmt.k = "do"     -> Runs(stmt.body) \cup UNION {Runs(c) : c \in Range(stmt.catches)}
    [] OTHER             -> Runs(stmt.body)

\* The builder sends break and continue to the exit, and has no edge for the true
\* outcome of an `if` whose `then` is empty and whose `else` is not.
RECURSIVE Plainly(_)
AllPlain(stmts) == \A s \in Range(stmts) : Plainly(s)
Plainly(stmt) ==
  CASE stmt.k = "jump" -> FALSE
    [] stmt.k = "if" -> /\ AllPlain(stmt.then) /\ AllPlain(stmt.else)
                        /\ stmt.then = <<>> => stmt.else = <<>>
    [] stmt.k = "switch" -> \A c \in Range(stmt.cases) : AllPlain(c)
    [] stmt.k = "do" -> AllPlain(stmt.body) /\ \A c \in Range(stmt.catches) : AllPlain(c)
    [] stmt.k = "guard" -> AllPlain(stmt.else)
    [] stmt.k \in {"loop", "defer"} -> AllPlain(stmt.body)
    [] OTHER -> TRUE

----------------------------------------------------------------------------
(* Properties.                                                             *)

\* Whatever way a function of plain statements runs, the graph has a path that executes
\* the same statements in the same order, from the entry to the exit: no branch, case,
\* catch block or iteration is lost when tails are threaded through nested statements.
\* Functions with a break, a continue, or an `if` that has only an else are left out.
RunsHavePaths ==
  Done /\ AllPlain(symbol.body) =>
    LET g == graph
    IN  \A r \in Runs(symbol.body) :
          ExitId \in Succs(g, Reached(g, After(g, r.ids), Silent(g)))
=============================================================================
