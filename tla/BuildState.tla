----------------------------- MODULE BuildState -----------------------------
(***************************************************************************)
(* _BuildState (cfg/builder.py): what its methods do to the graph under    *)
(* construction.  A body is a sequence of statements; a statement is a     *)
(* record whose field k names its shape:                                   *)
(*   simple(label, roots, calls, update)  declarations, assignments,       *)
(*                                        expressions, anything else       *)
(*   leave(label, kind, roots, calls)     return and throw                 *)
(*   jump(label)                          break and continue               *)
(*   if(cond, scan, then, else)    guard(cond, scan, else)                 *)
(*   switch(cond, scan, cases)     loop(label, cond, scan, body)           *)
(*   defer(body)                   do(body, catches)                       *)
(* roots are the sites under the root expressions of the statement, calls  *)
(* the sites under each call it contains, in order; scan are the sites     *)
(* under a condition.                                                      *)
(*                                                                         *)
(* The methods call each other; b is what they have done so far:           *)
(*   nodes, edges   what was added to the graph                            *)
(*   lists          the lists of tails, the nodes a statement is attached  *)
(*                  to, in the order they were made: a list is known by    *)
(*                  its place, since two variables may hold the same one   *)
(*   stack          the active calls, the innermost last                   *)
(* An active call is a record whose field k names the method:              *)
(*   block(stmts, tails)         emit_statements, with the statements left *)
(*                               and the list `current`                    *)
(*   if, if-else, guard, switch, loop(cond, branches, before, joined)      *)
(*                               the branches of a condition node left,    *)
(*                               the edges there were before the one at    *)
(*                               hand, and the tails of those done         *)
(*   do(preds, tails, catches)   _emit_do_catch; no tails while the body   *)
(*                               is emitted                                *)
(***************************************************************************)
EXTENDS ControlFlowGraph, Listing

LoopLabels == {"for_loop", "while_loop", "repeat_loop"}

EntryId == 1
ExitId == 2

Plain(kind, label) ==
  [kind |-> kind, label |-> label, roots |-> {}, update |-> [k |-> "keep"],
   cond |-> [k |-> "none"], scan |-> {}]

Edges(srcs, dst, label) ==
  [i \in DOMAIN srcs |-> [src |-> srcs[i], dst |-> dst, label |-> label]]

Link(b, srcs, dst, label) == [b EXCEPT !.edges = @ \o Edges(srcs, dst, label)]

\* New nodes one after the other, the first after srcs.
Chain(b, srcs, new) ==
  LET n == Len(b.nodes)
  IN  [b EXCEPT !.nodes = @ \o new,
                !.edges = @ \o Edges(srcs, n + 1, "seq")
                            \o [i \in 1 .. Len(new) - 1 |->
                                  [src |-> n + i, dst |-> n + i + 1, label |-> "seq"]]]

----------------------------------------------------------------------------
(* Active calls.                                                           *)

Block(stmts, tails) == [k |-> "block", stmts |-> stmts, tails |-> tails]

Fork(k, cond, branches) ==
  [k |-> k, cond |-> cond, branches |-> branches, before |-> 0, joined |-> <<>>]

Forks == {"if", "if-else", "guard", "switch", "loop"}

NoList == 0

DoCatch(preds, catches) ==
  [k |-> "do", preds |-> preds, tails |-> NoList, catches |-> catches]

Active(b) == b.stack[Len(b.stack)]
Resume(b, call) == [b EXCEPT !.stack[Len(b.stack)] = call]
Enter(b, calls) == [b EXCEPT !.stack = @ \o calls]
Leave(b) == [b EXCEPT !.stack = SubSeq(@, 1, Len(@) - 1)]

MakeList(b, nodes) == [b EXCEPT !.lists = Append(@, nodes)]

\* The tails the next statement is attached to, and that statement.
Tails(b) == b.lists[Active(b).tails]
Stmt(b) == Head(Active(b).stmts)

\* The block goes on behind the statement.
Proceed(b) == Resume(b, [Active(b) EXCEPT !.stmts = Tail(@)])

\* The block goes on with the list made last.
AttachTo(b, nodes) ==
  MakeList(Resume(b, [Active(b) EXCEPT !.tails = Len(b.lists) + 1]), nodes)

----------------------------------------------------------------------------
(* emit_statement.                                                         *)

CallNodes(stmt) ==
  [i \in DOMAIN stmt.calls |-> [Plain("call", "call") EXCEPT !.scan = stmt.calls[i]]]

\* b, after the statement added the nodes new.
Emitted(b, new) == Chain(Proceed(b), Tails(b), new)

EmitSimple(b) ==
  LET stmt == Stmt(b)
      node == [Plain("statement", stmt.label) EXCEPT !.roots = stmt.roots,
                                                     !.update = stmt.update]
      c == Emitted(b, Append(CallNodes(stmt), node))
  IN  AttachTo(c, <<Len(c.nodes)>>)

EmitLeave(b) ==
  LET stmt == Stmt(b)
      node == [Plain(stmt.kind, stmt.label) EXCEPT !.roots = stmt.roots]
      c == Emitted(b, Append(CallNodes(stmt), node))
  IN  AttachTo(Link(c, <<Len(c.nodes)>>, ExitId, "seq"), <<>>)

\* Mutation: the edge to the exit is forgotten.
EmitJumpNowhere(b) == AttachTo(Emitted(b, <<Plain("statement", Stmt(b).label)>>), <<>>)

\* break and continue lead to the exit of the function.
EmitJump(b) ==
  LET c == Emitted(b, <<Plain("statement", Stmt(b).label)>>)
  IN  AttachTo(Link(c, <<Len(c.nodes)>>, ExitId, "seq"), <<>>)

ConditionNode(label, stmt) ==
  [Plain("condition", label) EXCEPT !.cond = stmt.cond, !.scan = stmt.scan]

\* Only a loop's condition is a root expression of its statement.
LoopCondition(stmt) == [ConditionNode(stmt.label, stmt) EXCEPT !.roots = stmt.scan]

Branch(label, stmts) == [label |-> label, stmts |-> stmts]

\* A condition node is added, and its branches are to be connected.
EnterFork(b, k, node, branches) ==
  LET c == Emitted(b, <<node>>) IN Enter(c, <<Fork(k, Len(c.nodes), branches)>>)

EnterIf(b) ==
  LET stmt == Stmt(b)
      then == <<Branch("true", stmt.then)>>
      node == ConditionNode("if", stmt)
  IN  IF stmt.else = <<>> THEN EnterFork(b, "if", node, then)
      ELSE EnterFork(b, "if-else", node, Append(then, Branch("false", stmt.else)))

EnterGuard(b) ==
  LET stmt == Stmt(b)
  IN  EnterFork(b, "guard", ConditionNode("guard", stmt), <<Branch("false", stmt.else)>>)

EnterSwitch(b) ==
  LET stmt == Stmt(b)
  IN  EnterFork(b, "switch", ConditionNode("switch", stmt),
                [i \in DOMAIN stmt.cases |-> Branch("case", stmt.cases[i])])

EnterLoop(b) ==
  LET stmt == Stmt(b)
  IN  EnterFork(b, "loop", LoopCondition(stmt), <<Branch("true", stmt.body)>>)

\* The statements of a defer block stand where it stands, and get its list.
EnterDefer(b) == Enter(Proceed(b), <<Block(Stmt(b).body, Active(b).tails)>>)

EnterDo(b) ==
  LET preds == Active(b).tails
  IN  Enter(Proceed(b), <<DoCatch(preds, Stmt(b).catches), Block(Stmt(b).body, preds)>>)

EmitStatement(b) ==
  LET k == Stmt(b).k
  IN  CASE k = "if"     -> EnterIf(b)
        [] k = "guard"  -> EnterGuard(b)
        [] k = "switch" -> EnterSwitch(b)
        [] k = "loop"   -> EnterLoop(b)
        [] k = "defer"  -> EnterDefer(b)
        [] k = "do"     -> EnterDo(b)
        [] k = "leave"  -> EmitLeave(b)
        [] k = "jump"   -> EmitJump(b)
        [] OTHER        -> EmitSimple(b)

----------------------------------------------------------------------------
(* The branches of a condition.                                            *)

\* _connect_branch.  A branch starts at the condition, in a list of its own; an empty
\* one adds nothing, and only in a switch is the condition a tail then.
ConnectBranch(b) ==
  LET fork == Active(b)
      branch == Head(fork.branches)
  IN  IF branch.stmts = <<>>
      THEN Resume(b, [fork EXCEPT !.branches = Tail(@),
                                  !.joined = IF fork.k = "switch" THEN Append(@, fork.cond)
                                             ELSE @])
      ELSE MakeList(Enter(Resume(b, [fork EXCEPT !.before = Len(b.edges)]),
                          <<Block(branch.stmts, Len(b.lists) + 1)>>),
                    <<fork.cond>>)

\* The edges that leave cond for the first nodes of a branch take its label.
Relabel(b, before, cond, label) ==
  [b EXCEPT !.edges =
     [i \in DOMAIN @ |-> IF i > before /\ @[i].src = cond /\ @[i].label = "seq"
                         THEN [@[i] EXCEPT !.label = label] ELSE @[i]]]

\* The branch gave back tails.
BranchDone(b, tails) ==
  LET fork == Active(b)
  IN  Relabel(Resume(b, [fork EXCEPT !.branches = Tail(@), !.joined = @ \o tails]),
              fork.before, fork.cond, Head(fork.branches).label)

JoinAfter(b, cond, joined) ==
  LET join == Len(b.nodes) + 1
  IN  Link(Link([b EXCEPT !.nodes = Append(@, Plain("statement", "if-join"))],
                <<cond>>, join, "false"),
           joined, join, "seq")

\* Mutation: with an `else`, only the condition goes on.
EndIfElseAtCondition(b) == AttachTo(Leave(b), <<Active(b).cond>>)

\* The tails of the branches go on, or the condition when there are none.
EndIfElse(b) ==
  LET fork == Active(b)
  IN  AttachTo(Leave(b), IF fork.joined = <<>> THEN <<fork.cond>> ELSE fork.joined)

\* Without an `else`, a join node follows.
EndIf(b) ==
  LET fork == Active(b)
      c == JoinAfter(Leave(b), fork.cond, fork.joined)
  IN  AttachTo(c, <<Len(c.nodes)>>)

EndGuard(b) ==
  LET fork == Active(b)
  IN  AttachTo(Link(Leave(b), fork.joined, ExitId, "seq"), <<fork.cond>>)

\* Mutations: the edge that closes the loop is an ordinary one, or leads to the
\* node before the condition.
EndLoopSeq(b) ==
  LET fork == Active(b)
  IN  AttachTo(Link(Leave(b), fork.joined, fork.cond, "seq"), <<fork.cond>>)
EndLoopBefore(b) ==
  LET fork == Active(b)
  IN  AttachTo(Link(Leave(b), fork.joined, fork.cond - 1, "back"), <<fork.cond>>)

EndLoop(b) ==
  LET fork == Active(b)
  IN  AttachTo(Link(Leave(b), fork.joined, fork.cond, "back"), <<fork.cond>>)

EndFork(b) ==
  LET k == Active(b).k
  IN  CASE k = "if"    -> EndIf(b)
        [] k = "guard" -> EndGuard(b)
        [] k = "loop"  -> EndLoop(b)
        [] OTHER       -> EndIfElse(b)

----------------------------------------------------------------------------
(* _emit_do_catch, and the return of emit_statements.                      *)

\* Every catch block starts where the `do` block starts.
EnterCatch(b) ==
  LET call == Active(b)
  IN  Enter(Resume(b, [call EXCEPT !.catches = Tail(@)]),
            <<Block(Head(call.catches), call.preds)>>)

GiveBack(b, tails) == Resume(b, [Active(b) EXCEPT !.tails = tails])

EndDo(b) == GiveBack(Leave(b), Active(b).tails)

\* Extending the list the body gave back extends it for all who hold it.
CatchDone(b, tails) == [b EXCEPT !.lists[Active(b).tails] = @ \o b.lists[tails]]

\* emit_statements gives its list back.  An empty one it has made anew, but nobody holds
\* the other.
EndBlock(b) ==
  LET tails == Active(b).tails
      c == Leave(b)
  IN  IF c.stack = <<>> THEN Link(c, b.lists[tails], ExitId, "seq")
      ELSE CASE Active(c).k = "block" -> GiveBack(c, tails)
             [] Active(c).k = "do" /\ Active(c).tails = NoList -> GiveBack(c, tails)
             [] Active(c).k = "do" /\ Active(c).tails # NoList -> CatchDone(c, tails)
             [] OTHER -> BranchDone(c, b.lists[tails])

----------------------------------------------------------------------------
(* Where the builder is.                                                   *)

Start(body) ==
  [nodes |-> <<Plain("entry", "entry"), Plain("exit", "exit")>>, edges |-> <<>>,
   lists |-> <<<<EntryId>>>>, stack |-> <<Block(body, 1)>>]

Built(b) == b.stack = <<>>
In(b, ks) == ~Built(b) /\ Active(b).k \in ks

\* No tails means that control cannot reach the next statement.
AtStatement(b) == In(b, {"block"}) /\ Active(b).stmts # <<>> /\ Tails(b) # <<>>
AtReturn(b)    == In(b, {"block"}) /\ (Active(b).stmts = <<>> \/ Tails(b) = <<>>)
AtBranch(b)    == In(b, Forks) /\ Active(b).branches # <<>>
AtForkEnd(b)   == In(b, Forks) /\ Active(b).branches = <<>>
AtCatch(b)     == In(b, {"do"}) /\ Active(b).catches # <<>>
AtDoEnd(b)     == In(b, {"do"}) /\ Active(b).catches = <<>>

\* ControlFlowGraph.successors: the edges leaving a node, in the order they were added.
Leaving(edges, n) ==
  LET own == Kept(edges, {i \in DOMAIN edges : edges[i].src = n})
  IN  [i \in DOMAIN own |-> [dst |-> own[i].dst, label |-> own[i].label]]

GraphOf(symbol, b) ==
  [entry |-> EntryId, params |-> symbol.params, nodes |-> b.nodes,
   out |-> [n \in DOMAIN b.nodes |-> Leaving(b.edges, n)]]
=============================================================================
