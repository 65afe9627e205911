------------------------------ MODULE Explorer ------------------------------
(***************************************************************************)
(* PathExplorer.explore (engine/explorer.py): the recursive walk over the  *)
(* control-flow graph of one function.  The recursion is the variable      *)
(* stack: one frame per active call of walk, the innermost last.  A frame  *)
(* in phase "call" has just been entered; in phase "loop" it has stepped   *)
(* its node and is iterating over the edges it has not tried yet.          *)
(*                                                                         *)
(* The lists of events are sets here: the rules group them by site, and    *)
(* their order only selects which of several witnesses is quoted.          *)
(***************************************************************************)
EXTENDS ControlFlowGraph

CONSTANTS
  Graphs,     \* the control-flow graphs of the functions analysed
  MaxDepth    \* max_depth: the bound on the length of a trail

ASSUME ExplorerAssumption ==
  /\ MaxDepth \in Nat \ {0}
  /\ \A g \in Graphs : IsGraph(g)

\* What the builder makes of a function (CFGBuilder: GraphIsSound).
ASSUME LayoutAssumption == \A g \in Graphs : IsLaidOut(g)

VARIABLES
  graph,      \* the graph being explored
  stack,      \* the active calls of walk
  seen,       \* the (node, fingerprint) keys already stepped
  paths,      \* the recorded paths
  events      \* what _scan_expr and _prune_dead accumulated

vars == <<graph, stack, seen, paths, events>>

----------------------------------------------------------------------------
\* A state's fingerprint lists its dictionaries in sorted order, so two
\* states have one fingerprint exactly when they are equal.
Key(n, s) == <<n, s>>

Call(n, trail, s, unwraps) ==
  [node |-> n, trail |-> trail, state |-> s, unwraps |-> unwraps,
   key |-> Key(n, s), phase |-> "call", edges |-> <<>>]

Top == stack[Len(stack)]
Node == graph.nodes[Top.node]
Pop == stack' = SubSeq(stack, 1, Len(stack) - 1)
Replace(frame) == stack' = [stack EXCEPT ![Len(stack)] = frame]

Record(f, unwraps) == paths' = Append(paths, [nodes |-> f.trail, unwraps |-> unwraps])

----------------------------------------------------------------------------
(* Events.                                                                 *)

UnwrapEvent(x, s, trail) ==
  [k |-> "unwrap", id |-> x.id, nilness |-> EvalNilness(x.operand, s), trail |-> trail]

UnwrapEvents(n, s, trail) ==
  {UnwrapEvent(x, s, trail) : x \in {y \in n.roots : y.k = "unwrap"}}

SinkTags(x, s) == UNION {EvalTaint(a, s) : a \in x.args}

\* Unwraps are collected along the path, a sink no tainted value reaches is silent.
Reported(x, s) == x.k # "unwrap" /\ (x.k = "sink" => SinkTags(x, s) # {})

ScanEvent(x, s, trail) ==
  CASE x.k = "subscript" -> [k |-> "subscript", id |-> x.id, trail |-> trail,
                             safety |-> SubscriptSafety(x.base, x.index, s)]
    [] x.k = "cast" -> [k |-> "cast", id |-> x.id, trail |-> trail,
                        proven_type |-> s.type_is[x.operand]]
    [] x.k = "sink" -> [k |-> "sink", id |-> x.id, trail |-> trail,
                        source_tags |-> SinkTags(x, s)]
    [] OTHER -> [k |-> x.k, id |-> x.id, trail |-> trail]

Scanned(n, s, trail) ==
  {ScanEvent(x, s, trail) : x \in {y \in n.roots \cup n.scan : Reported(y, s)}}

DeadBranchEvent(n, label, verdict, trail) ==
  [k |-> "dead", node |-> n, label |-> label, verdict |-> verdict, trail |-> trail]

----------------------------------------------------------------------------
(* Edges of a condition.                                                   *)

\* The verdict on the condition of node n in the state s that leaves it.
Verdict(n, s) ==
  IF n.kind = "condition" THEN EvaluateCondition(n.cond, s) ELSE "unknown"

Impossible(n, label, verdict) ==
  /\ label # "back"
  /\ \/ verdict = "true" /\ label = "false"
     \/ verdict = "false" /\ (IF n.label = "guard" THEN label # "false"
                                                   ELSE label = "true")

Positive(label) == label \notin {"false", "back"}

\* The facts a path holds once it has taken the edge labelled label.
Assume(n, label, s) ==
  IF n.kind # "condition" THEN s
  ELSE LET s1 == ApplyConditionFacts(n.cond, s, Positive(label))
       IN  IF \/ n.label = "guard" /\ label # "false"
              \/ n.label = "if" /\ label = "true"
           THEN ApplyConditionFacts(n.cond, s1, TRUE)
           ELSE s1

\* Mutation: back edges are followed like any other.
NeverSkipped(f, e) == FALSE

SkippedBack(f, e) == e.label = "back" /\ e.dst \in Range(f.trail)

----------------------------------------------------------------------------
Init ==
  /\ graph \in Graphs
  /\ stack = <<Call(graph.entry, <<graph.entry>>, InitialState(graph.params), {})>>
  /\ seen = {}
  /\ paths = <<>>
  /\ events = {}

Calling == stack # <<>> /\ Top.phase = "call"
Looping == stack # <<>> /\ Top.phase = "loop"

\* Mutation: the last node's unwraps are collected although it is not stepped.
DepthReachedStepping ==
  /\ Calling
  /\ Len(Top.trail) >= MaxDepth
  /\ Record(Top, Top.unwraps \cup UnwrapEvents(Node, Top.state, Top.trail))
  /\ Pop
  /\ UNCHANGED <<graph, seen, events>>

\* The trail is as long as allowed: the path is recorded, its last node unstepped.
DepthReached ==
  /\ Calling
  /\ Len(Top.trail) >= MaxDepth
  /\ Record(Top, Top.unwraps)
  /\ Pop
  /\ UNCHANGED <<graph, seen, events>>

\* Mutation: a node is visited once, whatever the state it is entered in.
RevisitsByNode == \E key \in seen : key[1] = Top.node

\* The walk stops without recording its path.  Its trail ends with the node,
\* so the second conjunct never holds it back.
Revisits == Top.key \in seen /\ Top.node \in Range(Top.trail)

AlreadySeen ==
  /\ Calling
  /\ Len(Top.trail) < MaxDepth
  /\ Revisits
  /\ Pop
  /\ UNCHANGED <<graph, seen, paths, events>>

\* The node is stepped, and its path ends there or its edges are tried in turn.
Visit ==
  /\ Calling
  /\ Len(Top.trail) < MaxDepth
  /\ ~Revisits
  /\ seen' = seen \cup {Top.key}
  /\ events' = events \cup Scanned(Node, Top.state, Top.trail)
  /\ LET unwraps == Top.unwraps \cup UnwrapEvents(Node, Top.state, Top.trail)
         succs   == graph.out[Top.node]
     IN  IF Node.kind = "exit" \/ succs = <<>>
         THEN Record(Top, unwraps) /\ Pop
         ELSE /\ Replace([Top EXCEPT !.state = ApplyStatement(Node.update, @),
                                     !.unwraps = unwraps,
                                     !.phase = "loop",
                                     !.edges = succs])
              /\ UNCHANGED paths
  /\ UNCHANGED graph

NextEdge == Head(Top.edges)
Trying == Looping /\ Top.edges # <<>>
TopVerdict == Verdict(Node, Top.state)
\* Mutation: the facts of the branch taken are kept for the edges after it.
RestOfEdgesSharing ==
  [Top EXCEPT !.edges = Tail(@), !.state = Assume(Node, NextEdge.label, @)]

\* Mutation: the edge tried stays among those to try.
RestOfEdgesKept == Top

RestOfEdges == [Top EXCEPT !.edges = Tail(@)]

\* Mutation: the edge skipped is not dropped.
SkipBackForever ==
  /\ Trying
  /\ SkippedBack(Top, NextEdge)
  /\ UNCHANGED vars

SkipBack ==
  /\ Trying
  /\ SkippedBack(Top, NextEdge)
  /\ Replace(RestOfEdges)
  /\ UNCHANGED <<graph, seen, paths, events>>

\* An edge the verdict contradicts is not followed; it is reported as dead
\* unless it only leads to the join node of an `if` without `else`.
PruneDead ==
  /\ Trying
  /\ ~SkippedBack(Top, NextEdge)
  /\ Impossible(Node, NextEdge.label, TopVerdict)
  /\ events' = IF graph.nodes[NextEdge.dst].label = "if-join" THEN events
               ELSE events \cup {DeadBranchEvent(Top.node, NextEdge.label,
                                                 TopVerdict, Top.trail)}
  /\ Replace(RestOfEdges)
  /\ UNCHANGED <<graph, seen, paths>>

\* Mutation: the node is put in front of the trail.
FollowPrepending ==
  /\ Trying
  /\ ~SkippedBack(Top, NextEdge)
  /\ ~Impossible(Node, NextEdge.label, TopVerdict)
  /\ stack' = Append([stack EXCEPT ![Len(stack)] = RestOfEdges],
                     Call(NextEdge.dst, <<NextEdge.dst>> \o Top.trail,
                          Assume(Node, NextEdge.label, Top.state), Top.unwraps))
  /\ UNCHANGED <<graph, seen, paths, events>>

\* Mutation: a branch is reported dead and walked nevertheless.
FollowContradicted ==
  /\ Trying
  /\ ~SkippedBack(Top, NextEdge)
  /\ stack' = Append([stack EXCEPT ![Len(stack)] = RestOfEdges],
                     Call(NextEdge.dst, Append(Top.trail, NextEdge.dst),
                          Assume(Node, NextEdge.label, Top.state), Top.unwraps))
  /\ UNCHANGED <<graph, seen, paths, events>>

Follow ==
  /\ Trying
  /\ ~SkippedBack(Top, NextEdge)
  /\ ~Impossible(Node, NextEdge.label, TopVerdict)
  /\ stack' = Append([stack EXCEPT ![Len(stack)] = RestOfEdges],
                     Call(NextEdge.dst, Append(Top.trail, NextEdge.dst),
                          Assume(Node, NextEdge.label, Top.state), Top.unwraps))
  /\ UNCHANGED <<graph, seen, paths, events>>

Return ==
  /\ Looping
  /\ Top.edges = <<>>
  /\ Pop
  /\ UNCHANGED <<graph, seen, paths, events>>

Done == stack = <<>>

Terminated == Done /\ UNCHANGED vars

Next == \/ DepthReached \/ AlreadySeen \/ Visit
        \/ SkipBack \/ PruneDead \/ Follow \/ Return
        \/ Terminated

Spec == Init /\ [][Next]_vars

\* explore is a plain recursive call: nothing but its own termination stops it.
FairSpec == Spec /\ WF_vars(Next)

----------------------------------------------------------------------------
(* Properties.                                                             *)

Trails(g) == Seq(DOMAIN g.nodes)

Unwraps(g) == [k : {"unwrap"}, id : Nat, nilness : NilnessValues, trail : Trails(g)]

Frames(g) ==
  [node : DOMAIN g.nodes, trail : Trails(g), state : States,
   unwraps : SUBSET Unwraps(g), key : (DOMAIN g.nodes) \X States,
   phase : {"call", "loop"}, edges : Seq([dst : DOMAIN g.nodes, label : EdgeLabels])]

\* The symbolic state of every active call is a state, whatever the sequence
\* of statements and conditions that produced it (engine/state.py).
TypeOK ==
  /\ IsGraph(graph)
  /\ stack \in Seq(Frames(graph))
  /\ seen \subseteq (DOMAIN graph.nodes) \X States
  /\ paths \in Seq([nodes : Trails(graph), unwraps : SUBSET Unwraps(graph)])
  /\ \A e \in events : e.trail \in Trails(graph)

\* t runs along edges of g from the entry.
IsWalk(g, t) ==
  /\ t # <<>>
  /\ t[1] = g.entry
  /\ \A i \in 1 .. Len(t) - 1 :
       \E e \in Range(g.out[t[i]]) : e.dst = t[i + 1]

\* Every trail, of an active call, of a recorded path or of an event, is a walk
\* through the graph from its entry that respects max_depth: the witness a
\* finding quotes (path_node_ids) is a real one, however the recursion backtracked.
TrailsAreWalks ==
  /\ \A i \in DOMAIN stack : /\ IsWalk(graph, stack[i].trail)
                              /\ stack[i].node = stack[i].trail[Len(stack[i].trail)]
                              /\ Len(stack[i].trail) = i
                              /\ i <= MaxDepth
  /\ \A i \in DOMAIN paths : IsWalk(graph, paths[i].nodes) /\ Len(paths[i].nodes) <= MaxDepth
  /\ \A e \in events : IsWalk(graph, e.trail) /\ Len(e.trail) < MaxDepth

\* The keys one step away from a key: what a walk that ignored back edges,
\* depth and earlier visits would call next.
FeasibleKeys(g, key) ==
  LET n == g.nodes[key[1]]
      s == ApplyStatement(n.update, key[2])
      v == Verdict(n, s)
  IN  IF n.kind = "exit" THEN {}
      ELSE {Key(e.dst, Assume(n, e.label, s)) :
              e \in {x \in Range(g.out[key[1]]) : /\ x.label # "back"
                                                   /\ ~Impossible(n, x.label, v)}}

EntryKey == Key(graph.entry, InitialState(graph.params))

DepthCut == \E i \in DOMAIN paths : Len(paths[i].nodes) >= MaxDepth

\* Every site of the key's node that a rule looks at was reported with the facts
\* that hold in the key's state.
Examined(g, key) ==
  LET n == g.nodes[key[1]]
  IN  \A x \in n.roots \cup n.scan :
        Reported(x, key[2]) => \E e \in events : e = ScanEvent(x, key[2], e.trail)

\* Memoisation loses no (node, state) pair: when the walk is over and the depth
\* bound cut nothing, the visited keys hold the entry, are closed under the
\* feasible edges and were all examined, so no subscript, cast, try! or sink on
\* a feasible loop-free path escapes its rule.
SearchComplete ==
  Done /\ ~DepthCut =>
    /\ EntryKey \in seen
    /\ \A key \in seen : FeasibleKeys(graph, key) \subseteq seen /\ Examined(graph, key)

\* The unwraps at the first n nodes of the trail t of g, each with the trail to its own node.
UnwrapsAlong(g, t, n) ==
  UNION {{<<x.id, SubSeq(t, 1, j)>> : x \in {y \in g.nodes[t[j]].roots : y.k = "unwrap"}} :
         j \in 1 .. n}

Placed(unwraps) == {<<u.id, u.trail>> : u \in unwraps}

\* The unwraps of a recorded path are those of its nodes, each seen at the node's
\* own place on the path: none comes from a sibling branch, none is dropped.
PathsCarryTheirUnwraps ==
  \A i \in DOMAIN paths :
    LET p == paths[i]
    IN  Placed(p.unwraps) =
          UnwrapsAlong(graph, p.nodes,
                       IF Len(p.nodes) < MaxDepth THEN Len(p.nodes) ELSE MaxDepth - 1)

\* Loops are walked at most once per path: a trail never comes back to a node.
NoNodeTwice == \A i \in DOMAIN stack : IsInjective(stack[i].trail)

\* The states that hold behind the edges from n to d for a walk that came to n in one
\* of the states S.
Onward(g, S, n, d) ==
  {Assume(g.nodes[n], x[1].label, ApplyStatement(g.nodes[n].update, x[2])) :
     x \in {y \in Range(g.out[n]) \X S :
             /\ y[1].dst = d
             /\ ~Impossible(g.nodes[n], y[1].label,
                            Verdict(g.nodes[n], ApplyStatement(g.nodes[n].update, y[2])))}}

\* The states in which a walk along t can enter its last node.
StatesAlong(g, t) ==
  LET S[i \in DOMAIN t] == IF i = 1 THEN {InitialState(g.params)}
                           ELSE Onward(g, S[i - 1], t[i - 1], t[i])
  IN  S[Len(t)]

\* What the event e of the trail t says is what the walk computes in state s.
Tells(g, e, s) ==
  LET n == g.nodes[e.trail[Len(e.trail)]]
  IN  CASE e.k = "dead" ->
             /\ Verdict(n, ApplyStatement(n.update, s)) = e.verdict
             /\ \E x \in Range(g.out[e.node]) :
                  /\ x.label = e.label
                  /\ Impossible(n, x.label, e.verdict)
                  /\ g.nodes[x.dst].label # "if-join"
        [] e.k = "unwrap" -> \E x \in n.roots :
             x.k = "unwrap" /\ e = UnwrapEvent(x, s, e.trail)
        [] OTHER -> \E x \in n.roots \cup n.scan :
             Reported(x, s) /\ e = ScanEvent(x, s, e.trail)

\* What e says holds in a state in which its trail can enter its last node.
Told(e) == \E s \in StatesAlong(graph, e.trail) : Tells(graph, e, s)

AllEvents == events \cup UNION {paths[i].unwraps : i \in DOMAIN paths}

\* What an event says was computed from the facts of the very path it quotes: no
\* fact, nilness, taint or verdict leaks from a branch explored earlier.
EventsFollowTheirPath ==
  Done => \A e \in AllEvents : Told(e)

----------------------------------------------------------------------------
(* What makes the properties inductive.                                    *)

\* An active call got to its node along a walk; if it is trying edges they are
\* edges of its node and the depth bound still leaves room for one more.
FrameWalks(f, i) ==
  /\ IsWalk(graph, f.trail)
  /\ Len(f.trail) = i /\ i <= MaxDepth
  /\ f.node = f.trail[i]
  /\ f.phase = "loop" => /\ i < MaxDepth
                         /\ Range(f.edges) \subseteq Range(graph.out[f.node])

WalkInv ==
  /\ \A i \in DOMAIN stack : FrameWalks(stack[i], i)
  /\ \A i \in DOMAIN paths : IsWalk(graph, paths[i].nodes) /\ Len(paths[i].nodes) <= MaxDepth
  /\ \A e \in events : IsWalk(graph, e.trail) /\ Len(e.trail) < MaxDepth

\* An active call carries the unwraps of the nodes its trail has stepped.
CallsCarryTheirUnwraps ==
  \A i \in DOMAIN stack :
    LET f == stack[i]
    IN  Placed(f.unwraps) =
          UnwrapsAlong(graph, f.trail,
                       IF f.phase = "call" THEN Len(f.trail) - 1 ELSE Len(f.trail))

\* Only the innermost call can be about to step its node; every other one has
\* stepped the node and the state of its key.
KeysMatch ==
  \A i \in DOMAIN stack :
    LET f == stack[i]
    IN  /\ f.key[1] = f.node
        /\ f.phase = "call" => i = Len(stack) /\ f.key[2] = f.state
        /\ f.phase = "loop" =>
             f.key \in seen /\ f.state = ApplyStatement(graph.nodes[f.node].update, f.key[2])

\* A walk climbs from node to later node until it is at the exit.
Climbs(g, t) ==
  /\ \A i \in DOMAIN t : i < Len(t) => g.nodes[t[i]].kind # "exit"
  /\ \A i, j \in DOMAIN t :
       i < j => t[i] < t[j] \/ (j = Len(t) /\ g.nodes[t[j]].kind = "exit")

ClimbInv == \A i \in DOMAIN stack : Climbs(graph, stack[i].trail)

\* The call f entered its node in a state its trail leads to, and what it collected was
\* computed in such states.
Entered(f) == /\ f.key[2] \in StatesAlong(graph, f.trail)
              /\ \A e \in f.unwraps : Told(e)

EventInv ==
  /\ \A i \in DOMAIN stack : Entered(stack[i])
  /\ \A e \in AllEvents : Told(e)

\* The keys the call f will still visit.
Pending(f) ==
  LET n == graph.nodes[f.node]
  IN  {Key(e.dst, Assume(n, e.label, f.state)) :
         e \in {x \in Range(f.edges) : /\ x.label # "back"
                                       /\ ~Impossible(n, x.label, Verdict(n, f.state))}}

\* The successor k of key was visited, is being entered, or is still to be tried.
Accounted(key, k) ==
  \/ k \in seen
  \/ Calling /\ Top.key = k
  \/ \E i \in DOMAIN stack :
       stack[i].phase = "loop" /\ stack[i].key = key /\ k \in Pending(stack[i])

SearchInv ==
  ~DepthCut =>
    /\ EntryKey \in seen \/ (Calling /\ Top.key = EntryKey)
    /\ \A key \in seen : /\ Examined(graph, key)
                         /\ \A k \in FeasibleKeys(graph, key) : Accounted(key, k)

----------------------------------------------------------------------------
(* The walk as a search: the recursion, its trails, the order of its edges *)
(* and the place of its memo are the detail Search leaves out.             *)

EntryKeyOf(g) == Key(g.entry, InitialState(g.params))

\* The keys a walk calls from a key: any edge its verdict does not contradict, a
\* back edge too when it leads to a node that is not on the trail.
CalledKeys(g, key) ==
  LET n == g.nodes[key[1]]
      s == ApplyStatement(n.update, key[2])
  IN  IF n.kind = "exit" THEN {}
      ELSE {Key(e.dst, Assume(n, e.label, s)) :
              e \in {x \in Range(g.out[key[1]]) : ~Impossible(n, x.label, Verdict(n, s))}}

\* The keys the search may examine first or next.
AllowedKeys == {EntryKeyOf(graph)} \cup UNION {CalledKeys(graph, key) : key \in seen}

\* An active call enters an allowed key, or tries the edges of a node that is no exit.
CallsAreAllowed ==
  \A i \in DOMAIN stack :
    /\ stack[i].phase = "call" => stack[i].key \in AllowedKeys
    /\ stack[i].phase = "loop" => graph.nodes[stack[i].node].kind # "exit"

Abstract ==
  INSTANCE Search WITH EntryOf <- EntryKeyOf, MayFollow <- CalledKeys,
                       MustFollow <- FeasibleKeys,
                       reached <- seen, cut <- DepthCut, over <- Done

\* However it backtracks, the walk examines each (node, state) pair at most once and
\* only one that the verdicts allow it to reach from the entry, and it leaves none
\* out unless max_depth stopped it.
ExploreIsASearch == Abstract!Spec

\* What the call f has to do before it returns, its callees apart: step the node, try
\* each edge, return.
Left(f) ==
  IF f.phase = "call" THEN 2 + Len(graph.out[f.node]) ELSE 1 + Len(f.edges)

\* What the walk has to do at every depth.
ToDo == [i \in 1 .. MaxDepth |-> IF i > Len(stack) THEN 0 ELSE Left(stack[i])]

\* b comes before a: they agree on the outer calls, and in the next one b has less to do.
LessToDo(b, a) ==
  \E j \in 1 .. MaxDepth : b[j] < a[j] /\ \A i \in 1 .. j - 1 : b[i] = a[i]

\* Whatever the recursion does next, an edge or a call is used up that no later callee
\* gives back: no step leaves the walk where it was and none undoes an earlier one, so
\* neither a loop of the function nor a memo that misses can keep explore going.
EveryStepDescends == [][LessToDo(ToDo', ToDo)]_vars

\* The walk ends, loops in the analysed function notwithstanding.
Terminates == <>Done
=============================================================================
