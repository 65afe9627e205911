--------------------------- MODULE ExplorerProofs ---------------------------
(***************************************************************************)
(* What holds of the walk of PathExplorer for every function, every graph  *)
(* and every depth; and first, that the functions of SymbolicState stay    *)
(* within States, for every set of names, texts, tags and types.           *)
(***************************************************************************)
EXTENDS Explorer, SequenceTheorems, WellFoundedInduction, TLAPS

----------------------------------------------------------------------------
(* The symbolic state.                                                     *)

\* The verdict of facts.eval_expr_nilness is one of the three of Nilness.
LEMMA EvalNilnessType ==
  ASSUME NEW s \in States, NEW e \in Values
  PROVE  EvalNilness(e, s) \in NilnessValues
  BY DEF EvalNilness, NilnessValues, Values, States, Get

\* facts.eval_expr_taint only yields source patterns.
LEMMA EvalTaintType ==
  ASSUME NEW s \in States, NEW e \in Values
  PROVE  EvalTaint(e, s) \subseteq Tags
  BY DEF EvalTaint, Values, States

\* facts.eval_expr_const yields a literal's text or nothing.
LEMMA EvalConstType ==
  ASSUME NEW s \in States, NEW e \in Values
  PROVE  EvalConst(e, s) \in Texts \cup {Absent}
  BY DEF EvalConst, Values, States

\* facts.array_literal_size yields a size or nothing.
LEMMA ArrayLiteralSizeType ==
  ASSUME NEW e \in Values
  PROVE  ArrayLiteralSize(e) \in Nat \cup {NoSize}
  BY DEF ArrayLiteralSize, Values, NoSize

\* Recording a value under some names gives a state again.
LEMMA BindType ==
  ASSUME NEW s \in States, NEW names \in SUBSET Names,
         NEW nil \in NilnessValues, NEW val \in Values
  PROVE  Bind(s, names, nil, val) \in States
<1> DEFINE tags  == EvalTaint(val, s)
           const == EvalConst(val, s)
           size  == ArrayLiteralSize(val)
<1>1. tags \subseteq Tags
  BY EvalTaintType
<1>2. const \in Texts \cup {Absent}
  BY EvalConstType
<1>3. size \in Nat \cup {NoSize}
  BY ArrayLiteralSizeType
<1> HIDE DEF tags, const, size
<1>4. [n \in Names |-> IF n \in names THEN nil ELSE s.nilness[n]]
         \in [Names -> NilnessValues \cup {Absent}]
  BY DEF States
<1>5. [n \in Names |-> IF n \in names THEN tags ELSE s.taint[n]] \in [Names -> SUBSET Tags]
  BY <1>1 DEF States
<1>6. [n \in Names |-> IF n \in names /\ const # Absent THEN const ELSE s.facts[n]]
         \in [Names -> Texts \cup {Absent}]
  BY <1>2 DEF States
<1>7. [n \in Names |-> IF n \in names /\ size # NoSize THEN size ELSE s.array_sizes[n]]
         \in [Names -> Nat \cup {NoSize}]
  BY <1>3 DEF States
<1>8. QED
  BY <1>4, <1>5, <1>6, <1>7 DEF Bind, States, tags, const, size

\* _apply_statement returns a state, whatever the statement.
THEOREM ApplyStatementType ==
  ASSUME NEW s \in States, NEW u \in Updates
  PROVE  ApplyStatement(u, s) \in States
<1>1. CASE u \in [k : {"decl"}, names : SUBSET Names, optional : BOOLEAN, val : Values]
  <2>1. DeclaredNilness(u.optional, EvalNilness(u.val, s)) \in NilnessValues
    BY <1>1, EvalNilnessType DEF DeclaredNilness, NilnessValues
  <2>2. Bind(s, u.names, DeclaredNilness(u.optional, EvalNilness(u.val, s)), u.val) \in States
    BY <1>1, <2>1, BindType
  <2>3. QED
    BY <1>1, <2>2 DEF ApplyStatement
<1>2. CASE u \in [k : {"assign"}, name : Names, val : Values]
  <2>1. Bind(s, {u.name}, EvalNilness(u.val, s), u.val) \in States
    BY <1>2, EvalNilnessType, BindType
  <2>2. QED
    BY <1>2, <2>1 DEF ApplyStatement
<1>3. CASE u \in [k : {"keep"}]
  BY <1>3 DEF ApplyStatement
<1>4. QED
  BY <1>1, <1>2, <1>3 DEF Updates

\* apply_condition_facts returns a state, whatever the condition and the branch.
THEOREM ApplyConditionFactsType ==
  ASSUME NEW s \in States, NEW e \in Conditions, NEW positive \in BOOLEAN
  PROVE  ApplyConditionFacts(e, s, positive) \in States
<1>1. ASSUME NEW n \in Names PROVE WithNilness(s, n, "non_nil") \in States
  BY DEF WithNilness, States, NilnessValues
<1>2. ASSUME NEW n \in Names, NEW t \in Types PROVE WithType(s, n, t) \in States
  BY DEF WithType, States
<1>3. ASSUME NEW i \in Names, NEW a \in Names PROVE WithBounds(s, i, a) \in States
  BY DEF WithBounds, States
<1>4. ASSUME NEW a \in Names PROVE WithNonempty(s, a) \in States
  BY DEF WithNonempty, States
<1>5. CASE e.k = "let"
  BY <1>1, <1>5 DEF ApplyConditionFacts, Conditions, Atoms, Values
<1>6. CASE e.k = "is"
  BY <1>2, <1>6 DEF ApplyConditionFacts, Conditions, Atoms, Values
<1>7. CASE e.k \in {"compare", "contains"}
  BY <1>3, <1>7 DEF ApplyConditionFacts, Conditions, Atoms, Values
<1>8. CASE e.k = "isEmpty"
  BY <1>4, <1>8 DEF ApplyConditionFacts, Conditions, Atoms, Values
<1>9. CASE e.k = "not"
  <2>1. e.of \in Atoms
    BY <1>9 DEF Conditions, Atoms, Values
  <2>2. e.of.k = "isEmpty" => e.of.name \in Names
    BY <2>1 DEF Atoms, Values
  <2>3. QED
    BY <1>4, <1>9, <2>2 DEF ApplyConditionFacts
<1>10. CASE e.k \notin {"let", "is", "compare", "contains", "isEmpty", "not"}
  BY <1>10 DEF ApplyConditionFacts
<1>11. QED
  BY <1>5, <1>6, <1>7, <1>8, <1>9, <1>10

\* _initial_state returns a state.
THEOREM InitialStateType == \A params : InitialState(params) \in States
<1>1. EmptyState \in States
  BY DEF EmptyState, States, Absent, NoSize
<1>2. ASSUME NEW params PROVE InitialState(params) \in States
  <2>1. [n \in Names |-> IF \E p \in params : p.name = n
                         THEN IF \E p \in params : p.name = n /\ p.optional
                              THEN "unknown" ELSE "non_nil"
                         ELSE Absent] \in [Names -> NilnessValues \cup {Absent}]
    BY DEF NilnessValues
  <2>2. QED
    BY <1>1, <2>1 DEF InitialState, States
<1>3. QED
  BY <1>2

----------------------------------------------------------------------------
(* Frames and trails.                                                      *)

\* The facts that hold past an edge form a state (_state_after_edge).
LEMMA AssumeType ==
  ASSUME NEW n \in GraphNodes, NEW label, NEW s \in States
  PROVE  Assume(n, label, s) \in States
<1> DEFINE s1 == ApplyConditionFacts(n.cond, s, Positive(label))
<1>1. n.cond \in Conditions
  BY DEF GraphNodes
<1>2. s1 \in States
  BY <1>1, ApplyConditionFactsType DEF Positive
<1> HIDE DEF s1
<1>3. ApplyConditionFacts(n.cond, s1, TRUE) \in States
  BY <1>1, <1>2, ApplyConditionFactsType
<1>4. QED
  BY <1>2, <1>3 DEF Assume, s1

\* An event quotes the trail it was made with.
LEMMA ScanEventTrail == \A x, s, t : ScanEvent(x, s, t).trail = t
  BY DEF ScanEvent

\* So do the events of a step.
LEMMA ScannedTrails ==
  ASSUME NEW n, NEW s, NEW t, NEW e \in Scanned(n, s, t)
  PROVE  e.trail = t
  BY ScanEventTrail DEF Scanned

\* The unwrap events of a node are well formed.
LEMMA UnwrapEventsType ==
  ASSUME NEW g, NEW n \in GraphNodes, NEW s \in States, NEW t \in Trails(g)
  PROVE  UnwrapEvents(n, s, t) \subseteq Unwraps(g)
<1> SUFFICES ASSUME NEW x \in n.roots, x.k = "unwrap"
             PROVE  UnwrapEvent(x, s, t) \in Unwraps(g)
  BY DEF UnwrapEvents
<1>1. x \in Sites
  BY DEF GraphNodes
<1>2. x.id \in Nat /\ x.operand \in Values
  BY <1>1 DEF Sites
<1>3. EvalNilness(x.operand, s) \in NilnessValues
  BY <1>2, EvalNilnessType
<1>4. QED
  BY <1>2, <1>3 DEF UnwrapEvent, Unwraps

\* A trail grown by one node.
LEMMA AppendGrows ==
  ASSUME NEW S, NEW e \in S
  PROVE  \A q \in Seq(S) : /\ Append(q, e) \in Seq(S)
                           /\ Len(Append(q, e)) = Len(q) + 1
                           /\ Append(q, e)[Len(q) + 1] = e
                           /\ \A i \in 1 .. Len(q) : Append(q, e)[i] = q[i]
  OBVIOUS

\* Removing the innermost call leaves the outer ones as they are.
LEMMA PopProperties ==
  ASSUME NEW S, NEW q \in Seq(S), q # <<>>
  PROVE  /\ SubSeq(q, 1, Len(q) - 1) \in Seq(S)
         /\ Len(SubSeq(q, 1, Len(q) - 1)) = Len(q) - 1
         /\ \A i \in 1 .. Len(q) - 1 : SubSeq(q, 1, Len(q) - 1)[i] = q[i]
<1>1. Len(q) \in Nat \ {0}
  BY EmptySeq
<1> DEFINE m == Len(q) - 1
<1>2. m \in Nat /\ \A i \in 1 .. m : q[i] \in S
  BY <1>1
<1> HIDE DEF m
<1>3. /\ SubSeq(q, 1, m) \in Seq(S)
      /\ Len(SubSeq(q, 1, m)) = IF 1 <= m THEN m - 1 + 1 ELSE 0
      /\ \A i \in 1 .. m - 1 + 1 : SubSeq(q, 1, m)[i] = q[1 + i - 1]
  BY <1>2, SubSeqProperties
<1>4. /\ Len(SubSeq(q, 1, m)) = m
      /\ \A i \in 1 .. m : SubSeq(q, 1, m)[i] = q[i]
  BY <1>2, <1>3
<1>5. QED
  BY <1>3, <1>4 DEF m

\* The edge tried first and the ones left belong to the edges there were.
LEMMA EdgeProperties ==
  ASSUME NEW S, NEW q \in Seq(S), q # <<>>
  PROVE  /\ Head(q) \in S /\ Tail(q) \in Seq(S)
         /\ Head(q) \in Range(q)
         /\ Range(Tail(q)) \subseteq Range(q)
         /\ Range(q) \subseteq {Head(q)} \cup Range(Tail(q))
<1>1. Len(q) \in Nat \ {0}
  BY EmptySeq
<1>2. /\ Head(q) \in S /\ Tail(q) \in Seq(S)
      /\ Len(Tail(q)) = Len(q) - 1
      /\ \A i \in 1 .. Len(Tail(q)) : Tail(q)[i] = q[i + 1]
  BY HeadTailProperties
<1>3. Head(q) = q[1] /\ DOMAIN q = 1 .. Len(q)
  BY LenProperties
<1>4. DOMAIN Tail(q) = 1 .. Len(q) - 1
  BY <1>2, LenProperties
<1>5. Head(q) \in Range(q)
  BY <1>1, <1>3 DEF Range
<1>6. Range(Tail(q)) \subseteq Range(q)
  <2> SUFFICES ASSUME NEW i \in 1 .. Len(q) - 1 PROVE Tail(q)[i] \in Range(q)
    BY <1>4 DEF Range
  <2>1. i + 1 \in DOMAIN q /\ Tail(q)[i] = q[i + 1]
    BY <1>1, <1>2, <1>3
  <2>2. QED
    BY <2>1 DEF Range
<1>7. Range(q) \subseteq {Head(q)} \cup Range(Tail(q))
  <2> SUFFICES ASSUME NEW i \in 2 .. Len(q) PROVE q[i] \in Range(Tail(q))
    BY <1>1, <1>3 DEF Range
  <2>1. i - 1 \in DOMAIN Tail(q) /\ Tail(q)[i - 1] = q[i]
    BY <1>1, <1>2, <1>4
  <2>2. QED
    BY <2>1 DEF Range
<1>8. QED
  BY <1>2, <1>5, <1>6, <1>7

----------------------------------------------------------------------------
(* What the actions find and leave on the stack.                           *)

\* What TypeOK says of the innermost call, its node and its edges.
LEMMA TopType ==
  ASSUME TypeOK, stack # <<>>
  PROVE  /\ Len(stack) \in Nat \ {0}
         /\ Len(stack) \in DOMAIN stack
         /\ Top \in Frames(graph)
         /\ Top.node \in DOMAIN graph.nodes
         /\ Top.trail \in Trails(graph)
         /\ Top.state \in States
         /\ Top.unwraps \in SUBSET Unwraps(graph)
         /\ Top.key \in (DOMAIN graph.nodes) \X States
         /\ Top.edges \in Seq([dst : DOMAIN graph.nodes, label : EdgeLabels])
         /\ Node \in GraphNodes
         /\ graph.out[Top.node] \in Seq([dst : DOMAIN graph.nodes, label : EdgeLabels])
<1>1. Len(stack) \in Nat \ {0} /\ stack \in Seq(Frames(graph))
  BY EmptySeq DEF TypeOK
<1>2. Top \in Frames(graph)
  BY <1>1 DEF Top
<1>3. Top.node \in DOMAIN graph.nodes
  BY <1>2 DEF Frames
<1>4. Node \in GraphNodes /\ graph.out[Top.node] \in Seq([dst : DOMAIN graph.nodes, label : EdgeLabels])
  <2>1. graph.nodes \in Seq(GraphNodes)
    BY DEF TypeOK, IsGraph
  <2>2. DOMAIN graph.nodes = 1 .. Len(graph.nodes)
    BY <2>1, LenProperties
  <2>3. Node \in GraphNodes
    BY <1>3, <2>1, <2>2, ElementOfSeq DEF Node
  <2>4. QED
    BY <1>3, <2>3 DEF TypeOK, IsGraph
<1>5. QED
  BY <1>1, <1>2, <1>3, <1>4 DEF Frames

\* A recorded path is a trail with unwraps.
LEMMA RecordType ==
  ASSUME TypeOK, stack # <<>>, NEW unwraps \in SUBSET Unwraps(graph), Record(Top, unwraps)
  PROVE  paths' \in Seq([nodes : Trails(graph), unwraps : SUBSET Unwraps(graph)])
  BY TopType DEF TypeOK, Record

\* Returning from a call leaves calls.
LEMMA PopKeepsFrames ==
  ASSUME TypeOK, stack # <<>>, Pop
  PROVE  stack' \in Seq(Frames(graph))
  BY PopProperties DEF TypeOK, Pop

\* So does dropping an edge,
LEMMA RestOfEdgesType ==
  ASSUME TypeOK, Trying
  PROVE  RestOfEdges \in Frames(graph)
<1>1. stack # <<>> /\ Top.edges # <<>>
  BY DEF Trying, Looping
<1>2. Tail(Top.edges) \in Seq([dst : DOMAIN graph.nodes, label : EdgeLabels])
  BY <1>1, TopType, EdgeProperties
<1>3. QED
  BY <1>1, <1>2, TopType DEF RestOfEdges, Frames

\* and replacing the innermost call by one.
LEMMA ReplaceKeepsFrames ==
  ASSUME TypeOK, stack # <<>>, NEW frame \in Frames(graph), Replace(frame)
  PROVE  stack' \in Seq(Frames(graph))
  BY TopType, ExceptSeq DEF TypeOK, Replace

\* The calls that are active after a return were active before it.
LEMMA PopShape ==
  ASSUME TypeOK, stack # <<>>, Pop
  PROVE  /\ Len(stack') = Len(stack) - 1
         /\ DOMAIN stack' = 1 .. Len(stack) - 1
         /\ \A i \in DOMAIN stack' : i \in DOMAIN stack /\ i # Len(stack) /\ stack'[i] = stack[i]
<1>1. stack \in Seq(Frames(graph)) /\ stack' \in Seq(Frames(graph))
  BY PopKeepsFrames DEF TypeOK
<1>2. /\ Len(stack') = Len(stack) - 1
      /\ \A i \in 1 .. Len(stack) - 1 : stack'[i] = stack[i]
  BY <1>1, PopProperties DEF Pop
<1>3. DOMAIN stack' = 1 .. Len(stack) - 1 /\ DOMAIN stack = 1 .. Len(stack)
  BY <1>1, <1>2, LenProperties
<1>4. QED
  BY <1>2, <1>3, TopType

\* The calls under the innermost one stay what they are,
LEMMA ReplaceShape ==
  ASSUME TypeOK, stack # <<>>, NEW frame \in Frames(graph), Replace(frame)
  PROVE  /\ Len(stack') = Len(stack)
         /\ DOMAIN stack' = DOMAIN stack
         /\ \A i \in DOMAIN stack : stack'[i] = IF i = Len(stack) THEN frame ELSE stack[i]
  BY TopType, ExceptSeq, LenProperties DEF TypeOK, Replace

\* and so they do when it calls another.
LEMMA PushShape ==
  ASSUME TypeOK, stack # <<>>, NEW frame \in Frames(graph), NEW callee \in Frames(graph),
         stack' = Append([stack EXCEPT ![Len(stack)] = frame], callee)
  PROVE  /\ Len(stack') = Len(stack) + 1
         /\ DOMAIN stack' = 1 .. Len(stack) + 1
         /\ \A i \in DOMAIN stack' :
              stack'[i] = IF i = Len(stack) + 1 THEN callee
                          ELSE IF i = Len(stack) THEN frame ELSE stack[i]
<1> DEFINE q == [stack EXCEPT ![Len(stack)] = frame]
<1>1. /\ stack \in Seq(Frames(graph)) /\ DOMAIN stack = 1 .. Len(stack) /\ Len(stack) \in Nat \ {0}
  BY TopType, LenProperties DEF TypeOK
<1>2. /\ q \in Seq(Frames(graph)) /\ Len(q) = Len(stack)
      /\ \A i \in 1 .. Len(stack) : q[i] = IF i = Len(stack) THEN frame ELSE stack[i]
  BY <1>1, ExceptSeq
<1> HIDE DEF q
<1>3. /\ Append(q, callee) \in Seq(Frames(graph))
      /\ Len(Append(q, callee)) = Len(stack) + 1
      /\ Append(q, callee)[Len(stack) + 1] = callee
      /\ \A i \in 1 .. Len(stack) : Append(q, callee)[i] = q[i]
  BY <1>2, AppendGrows
<1>4. stack' = Append(q, callee)
  BY DEF q
<1>5. DOMAIN stack' = 1 .. Len(stack) + 1
  BY <1>3, <1>4, LenProperties
<1>6. Len(stack') = Len(stack) + 1
  BY <1>3, <1>4
<1>7. ASSUME NEW i \in 1 .. Len(stack) + 1
      PROVE  stack'[i] = IF i = Len(stack) + 1 THEN callee
                         ELSE IF i = Len(stack) THEN frame ELSE stack[i]
  <2>1. CASE i = Len(stack) + 1
    BY <1>3, <1>4, <2>1
  <2>2. CASE i \in 1 .. Len(stack)
    <3>1. stack'[i] = q[i]
      BY <1>3, <1>4, <2>2
    <3>2. i # Len(stack) + 1
      BY <1>1, <2>2
    <3>3. QED
      BY <1>2, <2>2, <3>1, <3>2
  <2>3. Len(stack) \in Nat
    BY <1>1
  <2>4. i = Len(stack) + 1 \/ i \in 1 .. Len(stack)
    BY <2>3
  <2>5. QED
    BY <2>1, <2>2, <2>4
<1>8. QED
  BY <1>5, <1>6, <1>7

\* Recording a path adds it to the others.
LEMMA RecordShape ==
  ASSUME TypeOK, NEW unwraps, Record(Top, unwraps)
  PROVE  /\ DOMAIN paths' = 1 .. Len(paths) + 1 /\ DOMAIN paths = 1 .. Len(paths)
         /\ Len(paths) \in Nat
         /\ paths'[Len(paths) + 1] = [nodes |-> Top.trail, unwraps |-> unwraps]
         /\ \A i \in 1 .. Len(paths) : paths'[i] = paths[i]
  BY LenProperties DEF TypeOK, Record

\* The call Follow makes.
Callee == Call(NextEdge.dst, Append(Top.trail, NextEdge.dst),
               Assume(Node, NextEdge.label, Top.state), Top.unwraps)

\* What Follow leaves: the caller without the edge, and on it the callee.
LEMMA FollowShape ==
  ASSUME TypeOK, Follow
  PROVE  /\ Trying /\ stack # <<>> /\ UNCHANGED <<graph, seen, paths, events>>
         /\ RestOfEdges \in Frames(graph) /\ Callee \in Frames(graph)
         /\ Len(stack') = Len(stack) + 1
         /\ DOMAIN stack' = 1 .. Len(stack) + 1
         /\ \A i \in DOMAIN stack' :
              stack'[i] = IF i = Len(stack) + 1 THEN Callee
                          ELSE IF i = Len(stack) THEN RestOfEdges ELSE stack[i]
<1>1. /\ Trying /\ stack # <<>> /\ Top.edges # <<>>
      /\ UNCHANGED <<graph, seen, paths, events>>
      /\ stack' = Append([stack EXCEPT ![Len(stack)] = RestOfEdges], Callee)
  BY DEF Follow, Trying, Looping, Callee
<1>2. NextEdge \in [dst : DOMAIN graph.nodes, label : EdgeLabels]
  BY <1>1, TopType, HeadTailProperties DEF NextEdge
<1>3. NextEdge.dst \in DOMAIN graph.nodes
  BY <1>2
<1>4. Append(Top.trail, NextEdge.dst) \in Trails(graph)
  BY <1>1, <1>3, TopType, AppendGrows DEF Trails
<1>5. Assume(Node, NextEdge.label, Top.state) \in States
  BY <1>1, TopType, AssumeType
<1>6. Callee \in Frames(graph)
  BY <1>1, <1>3, <1>4, <1>5, TopType DEF Callee, Call, Key, Frames
<1>7. RestOfEdges \in Frames(graph)
  BY <1>1, RestOfEdgesType
<1>8. QED
  BY <1>1, <1>6, <1>7, PushShape

\* The two outcomes of Visit: a recorded path, or a call about to try its edges.
Unwrapped == Top.unwraps \cup UnwrapEvents(Node, Top.state, Top.trail)
Stepped ==
  [Top EXCEPT !.state = ApplyStatement(Node.update, @), !.unwraps = Unwrapped,
              !.phase = "loop", !.edges = graph.out[Top.node]]

\* What Visit leaves: the path recorded, or the call with its node stepped.
LEMMA VisitShape ==
  ASSUME TypeOK, Visit
  PROVE  /\ Calling /\ stack # <<>> /\ Len(Top.trail) < MaxDepth /\ UNCHANGED graph
         /\ seen' = seen \cup {Top.key}
         /\ events' = events \cup Scanned(Node, Top.state, Top.trail)
         /\ Unwrapped \in SUBSET Unwraps(graph)
         /\ Stepped \in Frames(graph)
         /\ \/ /\ Node.kind = "exit" \/ graph.out[Top.node] = <<>>
               /\ Record(Top, Unwrapped) /\ Pop
            \/ /\ Node.kind # "exit" /\ graph.out[Top.node] # <<>>
               /\ Replace(Stepped) /\ UNCHANGED paths
<1>1. Calling /\ stack # <<>>
  BY DEF Visit, Calling
<1>2. Unwrapped \in SUBSET Unwraps(graph)
  BY <1>1, TopType, UnwrapEventsType DEF Unwrapped
<1>3. ApplyStatement(Node.update, Top.state) \in States
  <2>1. Node.update \in Updates
    BY <1>1, TopType DEF GraphNodes
  <2>2. QED
    BY <1>1, <2>1, TopType, ApplyStatementType
<1>4. Stepped \in Frames(graph)
  BY <1>1, <1>2, <1>3, TopType DEF Frames, Stepped
<1>5. QED
  BY <1>1, <1>2, <1>4 DEF Visit, Unwrapped, Stepped

----------------------------------------------------------------------------
(* Type correctness.                                                       *)

\* explore starts with one well-formed call of walk,
THEOREM InitTypeOK == Init => TypeOK
<1> SUFFICES ASSUME Init PROVE TypeOK
  OBVIOUS
<1>1. IsGraph(graph)
  BY ExplorerAssumption DEF Init
<1>2. graph.entry \in DOMAIN graph.nodes /\ InitialState(graph.params) \in States
  BY <1>1, InitialStateType DEF IsGraph
<1>3. <<graph.entry>> \in Trails(graph)
  <2> DEFINE S == DOMAIN graph.nodes
  <2>1. graph.entry \in S
    BY <1>2
  <2> HIDE DEF S
  <2>2. <<graph.entry>> \in Seq(S)
    BY <2>1
  <2>3. QED
    BY <2>2 DEF S, Trails
<1>4. Call(graph.entry, <<graph.entry>>, InitialState(graph.params), {}) \in Frames(graph)
  BY <1>2, <1>3 DEF Call, Frames, Key
<1>5. QED
  BY <1>1, <1>4 DEF Init, TypeOK

\* and every step leaves well-formed calls, paths and events.
THEOREM NextTypeOK == TypeOK /\ [Next]_vars => TypeOK'
<1> SUFFICES ASSUME TypeOK, [Next]_vars PROVE TypeOK'
  OBVIOUS
<1>1. CASE DepthReached
  <2>1. stack # <<>> /\ UNCHANGED <<graph, seen, events>> /\ Pop /\ Record(Top, Top.unwraps)
    BY <1>1 DEF DepthReached, Calling
  <2>2. paths' \in Seq([nodes : Trails(graph), unwraps : SUBSET Unwraps(graph)])
    BY <2>1, TopType, RecordType
  <2>3. stack' \in Seq(Frames(graph))
    BY <2>1, PopKeepsFrames
  <2>4. QED
    BY <2>1, <2>2, <2>3 DEF TypeOK
<1>2. CASE AlreadySeen
  <2>1. stack # <<>> /\ UNCHANGED <<graph, seen, paths, events>> /\ Pop
    BY <1>2 DEF AlreadySeen, Calling
  <2>2. stack' \in Seq(Frames(graph))
    BY <2>1, PopKeepsFrames
  <2>3. QED
    BY <2>1, <2>2 DEF TypeOK
<1>3. CASE Visit
  <2>1. /\ stack # <<>> /\ UNCHANGED graph
        /\ seen' = seen \cup {Top.key}
        /\ events' = events \cup Scanned(Node, Top.state, Top.trail)
        /\ Unwrapped \in SUBSET Unwraps(graph) /\ Stepped \in Frames(graph)
        /\ \/ Record(Top, Unwrapped) /\ Pop
           \/ Replace(Stepped) /\ UNCHANGED paths
    BY <1>3, VisitShape
  <2>2. seen' \subseteq (DOMAIN graph.nodes) \X States
    BY <2>1, TopType DEF TypeOK
  <2>3. \A e \in events' : e.trail \in Trails(graph)
    BY <2>1, TopType, ScannedTrails DEF TypeOK
  <2>4. stack' \in Seq(Frames(graph))
    BY <2>1, PopKeepsFrames, ReplaceKeepsFrames
  <2>5. paths' \in Seq([nodes : Trails(graph), unwraps : SUBSET Unwraps(graph)])
    BY <2>1, RecordType DEF TypeOK
  <2>6. QED
    BY <2>1, <2>2, <2>3, <2>4, <2>5 DEF TypeOK
<1>4. CASE SkipBack
  <2>1. Trying /\ stack # <<>> /\ UNCHANGED <<graph, seen, paths, events>> /\ Replace(RestOfEdges)
    BY <1>4 DEF SkipBack, Trying, Looping
  <2>2. stack' \in Seq(Frames(graph))
    BY <2>1, RestOfEdgesType, ReplaceKeepsFrames
  <2>3. QED
    BY <2>1, <2>2 DEF TypeOK
<1>5. CASE PruneDead
  <2>1. /\ Trying /\ stack # <<>> /\ UNCHANGED <<graph, seen, paths>> /\ Replace(RestOfEdges)
        /\ events' \subseteq events \cup {DeadBranchEvent(Top.node, NextEdge.label,
                                                          TopVerdict, Top.trail)}
    BY <1>5 DEF PruneDead, Trying, Looping
  <2>2. stack' \in Seq(Frames(graph))
    BY <2>1, RestOfEdgesType, ReplaceKeepsFrames
  <2>3. \A e \in events' : e.trail \in Trails(graph)
    <3>1. DeadBranchEvent(Top.node, NextEdge.label, TopVerdict, Top.trail).trail = Top.trail
      BY DEF DeadBranchEvent
    <3>2. QED
      BY <2>1, <3>1, TopType DEF TypeOK
  <2>4. QED
    BY <2>1, <2>2, <2>3 DEF TypeOK
<1>6. CASE Follow
  <2>1. /\ stack # <<>> /\ UNCHANGED <<graph, seen, paths, events>>
        /\ RestOfEdges \in Frames(graph) /\ Callee \in Frames(graph)
        /\ stack' = Append([stack EXCEPT ![Len(stack)] = RestOfEdges], Callee)
    BY <1>6, FollowShape DEF Follow, Callee
  <2>2. [stack EXCEPT ![Len(stack)] = RestOfEdges] \in Seq(Frames(graph))
    BY <2>1, TopType, ExceptSeq DEF TypeOK
  <2>3. stack' \in Seq(Frames(graph))
    BY <2>1, <2>2
  <2>4. QED
    BY <2>1, <2>3 DEF TypeOK
<1>7. CASE Return
  <2>1. stack # <<>> /\ UNCHANGED <<graph, seen, paths, events>> /\ Pop
    BY <1>7 DEF Return, Looping
  <2>2. stack' \in Seq(Frames(graph))
    BY <2>1, PopKeepsFrames
  <2>3. QED
    BY <2>1, <2>2 DEF TypeOK
<1>8. CASE UNCHANGED vars
  BY <1>8 DEF TypeOK, vars
<1>9. QED
  BY <1>1, <1>2, <1>3, <1>4, <1>5, <1>6, <1>7, <1>8 DEF Next, Terminated

\* Every active call keeps a well-formed symbolic state, for every function,
\* whatever statements and conditions its paths go through.
THEOREM TypeCorrect == Spec => []TypeOK
  BY InitTypeOK, NextTypeOK, PTL DEF Spec

----------------------------------------------------------------------------
(* Trails are walks.                                                       *)

\* A walk grown along an edge of its last node is a walk.
LEMMA WalkGrows ==
  ASSUME NEW g, NEW t \in Trails(g), IsWalk(g, t),
         NEW e \in Range(g.out[t[Len(t)]]), e.dst \in DOMAIN g.nodes
  PROVE  IsWalk(g, Append(t, e.dst)) /\ Len(Append(t, e.dst)) = Len(t) + 1
<1> DEFINE u == Append(t, e.dst)
           S == DOMAIN g.nodes
<1>1. Len(t) \in Nat \ {0}
  BY EmptySeq DEF Trails, IsWalk
<1>2. /\ u \in Seq(S)
      /\ Len(u) = Len(t) + 1
      /\ u[Len(t) + 1] = e.dst
      /\ \A i \in 1 .. Len(t) : u[i] = t[i]
  <2>1. t \in Seq(S) /\ e.dst \in S
    BY DEF Trails
  <2> HIDE DEF S
  <2>2. QED
    BY <2>1, AppendGrows
<1> HIDE DEF u, S
<1>3. u # <<>> /\ u[1] = g.entry
  BY <1>1, <1>2 DEF IsWalk
<1>4. ASSUME NEW i \in 1 .. Len(t)
      PROVE  \E d \in Range(g.out[u[i]]) : d.dst = u[i + 1]
  <2>1. CASE i = Len(t)
    BY <1>1, <1>2, <2>1
  <2>2. CASE i \in 1 .. Len(t) - 1
    <3>1. u[i] = t[i] /\ u[i + 1] = t[i + 1]
      BY <1>1, <1>2, <2>2
    <3>2. QED
      BY <2>2, <3>1 DEF IsWalk
  <2>3. QED
    BY <1>1, <2>1, <2>2
<1>5. QED
  BY <1>1, <1>2, <1>3, <1>4 DEF IsWalk, u

\* The first call stands at the entry,
THEOREM InitWalkInv == Init => WalkInv
<1> SUFFICES ASSUME Init PROVE WalkInv
  OBVIOUS
<1> DEFINE f == Call(graph.entry, <<graph.entry>>, InitialState(graph.params), {})
<1>1. stack = <<f>> /\ paths = <<>> /\ events = {}
  BY DEF Init
<1>2. FrameWalks(f, 1)
  BY ExplorerAssumption DEF FrameWalks, Call, IsWalk
<1> HIDE DEF f
<1>3. DOMAIN stack = {1} /\ stack[1] = f
  BY <1>1
<1>4. QED
  BY <1>1, <1>2, <1>3 DEF WalkInv

\* A path recorded by a call that keeps to its walk keeps to it as well.
LEMMA RecordWalks ==
  ASSUME TypeOK, WalkInv, stack # <<>>, NEW unwraps, Record(Top, unwraps), UNCHANGED graph
  PROVE  \A i \in DOMAIN paths' : /\ IsWalk(graph, paths'[i].nodes)
                                 /\ Len(paths'[i].nodes) <= MaxDepth
<1>1. IsWalk(graph, Top.trail) /\ Len(Top.trail) <= MaxDepth
  BY TopType DEF WalkInv, FrameWalks, Top
<1>2. \A i \in 1 .. Len(paths) : IsWalk(graph, paths'[i].nodes) /\ Len(paths'[i].nodes) <= MaxDepth
  BY RecordShape DEF WalkInv
<1>3. paths'[Len(paths) + 1].nodes = Top.trail
  <2>1. paths'[Len(paths) + 1] = [nodes |-> Top.trail, unwraps |-> unwraps]
    BY RecordShape
  <2>2. QED
    BY <2>1
<1>4. DOMAIN paths' = 1 .. Len(paths) + 1 /\ Len(paths) \in Nat
  BY RecordShape
<1>5. ASSUME NEW i \in DOMAIN paths'
      PROVE  IsWalk(graph, paths'[i].nodes) /\ Len(paths'[i].nodes) <= MaxDepth
  <2>1. i = Len(paths) + 1 \/ i \in 1 .. Len(paths)
    BY <1>4
  <2>2. QED
    BY <1>1, <1>2, <1>3, <2>1
<1>6. QED
  BY <1>5

\* Dropping the edge just tried keeps the innermost call to its walk.
LEMMA RestWalks ==
  ASSUME TypeOK, WalkInv, Trying
  PROVE  /\ FrameWalks(RestOfEdges, Len(stack))
         /\ Len(Top.trail) = Len(stack) /\ Len(stack) < MaxDepth
         /\ NextEdge \in Range(graph.out[Top.node])
<1>1. stack # <<>> /\ Top.edges # <<>> /\ Top.phase = "loop" /\ Len(stack) \in DOMAIN stack
  BY TopType DEF Trying, Looping
<1>2. FrameWalks(Top, Len(stack))
  BY <1>1 DEF WalkInv, Top
<1>3. /\ RestOfEdges.trail = Top.trail /\ RestOfEdges.node = Top.node
      /\ RestOfEdges.phase = Top.phase /\ RestOfEdges.edges = Tail(Top.edges)
  BY <1>1, TopType DEF RestOfEdges, Frames
<1>4. Range(Tail(Top.edges)) \subseteq Range(Top.edges) /\ NextEdge \in Range(Top.edges)
  BY <1>1, TopType, EdgeProperties DEF NextEdge
<1>5. QED
  BY <1>1, <1>2, <1>3, <1>4 DEF FrameWalks

\* and every step keeps trails on edges and within max_depth.
THEOREM NextWalkInv == TypeOK /\ WalkInv /\ [Next]_vars => WalkInv'
<1> SUFFICES ASSUME TypeOK, WalkInv, [Next]_vars PROVE WalkInv'
  OBVIOUS
<1>1. CASE DepthReached
  <2>1. stack # <<>> /\ UNCHANGED <<graph, seen, events>> /\ Pop /\ Record(Top, Top.unwraps)
    BY <1>1 DEF DepthReached, Calling
  <2>2. QED
    BY <2>1, RecordWalks, PopShape DEF WalkInv, FrameWalks
<1>2. CASE AlreadySeen
  <2>1. stack # <<>> /\ UNCHANGED <<graph, seen, paths, events>> /\ Pop
    BY <1>2 DEF AlreadySeen, Calling
  <2>2. QED
    BY <2>1, PopShape DEF WalkInv, FrameWalks
<1>3. CASE Visit
  <2>1. /\ stack # <<>> /\ UNCHANGED graph /\ Len(Top.trail) < MaxDepth
        /\ events' = events \cup Scanned(Node, Top.state, Top.trail)
        /\ Stepped \in Frames(graph)
        /\ \/ Record(Top, Unwrapped) /\ Pop
           \/ Replace(Stepped) /\ UNCHANGED paths
    BY <1>3, VisitShape
  <2>2. FrameWalks(Top, Len(stack)) /\ Len(stack) \in DOMAIN stack
    BY <2>1, TopType DEF WalkInv, Top
  <2>3. \A e \in events' : IsWalk(graph, e.trail) /\ Len(e.trail) < MaxDepth
    BY <2>1, <2>2, ScannedTrails DEF WalkInv, FrameWalks
  <2>4. CASE Record(Top, Unwrapped) /\ Pop
    BY <2>1, <2>3, <2>4, RecordWalks, PopShape DEF WalkInv, FrameWalks
  <2>5. CASE Replace(Stepped) /\ UNCHANGED paths
    <3>1. FrameWalks(Stepped, Len(stack))
      <4>1. /\ Stepped.trail = Top.trail /\ Stepped.node = Top.node
            /\ Stepped.edges = graph.out[Top.node]
        BY <2>1, TopType DEF Stepped, Frames
      <4>2. QED
        BY <2>1, <2>2, <4>1 DEF FrameWalks
    <3>2. \A i \in DOMAIN stack' : FrameWalks(stack'[i], i)
      BY <2>1, <2>5, <3>1, ReplaceShape DEF WalkInv
    <3>3. QED
      BY <2>1, <2>3, <2>5, <3>2 DEF WalkInv, FrameWalks
  <2>6. QED
    BY <2>1, <2>4, <2>5
<1>4. CASE SkipBack
  <2>1. Trying /\ stack # <<>> /\ UNCHANGED <<graph, seen, paths, events>> /\ Replace(RestOfEdges)
    BY <1>4 DEF SkipBack, Trying, Looping
  <2>2. \A i \in DOMAIN stack' : FrameWalks(stack'[i], i)
    BY <2>1, RestWalks, RestOfEdgesType, ReplaceShape DEF WalkInv
  <2>3. QED
    BY <2>1, <2>2 DEF WalkInv, FrameWalks
<1>5. CASE PruneDead
  <2> DEFINE dead == DeadBranchEvent(Top.node, NextEdge.label, TopVerdict, Top.trail)
  <2>1. /\ Trying /\ stack # <<>> /\ UNCHANGED <<graph, seen, paths>> /\ Replace(RestOfEdges)
        /\ events' \subseteq events \cup {dead}
    BY <1>5 DEF PruneDead, Trying, Looping
  <2>2. IsWalk(graph, Top.trail) /\ Len(Top.trail) < MaxDepth
    BY <2>1, TopType, RestWalks DEF WalkInv, FrameWalks, Top
  <2>3. dead.trail = Top.trail
    BY DEF DeadBranchEvent
  <2>4. \A e \in events' : IsWalk(graph, e.trail) /\ Len(e.trail) < MaxDepth
    BY <2>1, <2>2, <2>3 DEF WalkInv
  <2>5. \A i \in DOMAIN stack' : FrameWalks(stack'[i], i)
    BY <2>1, RestWalks, RestOfEdgesType, ReplaceShape DEF WalkInv
  <2>6. QED
    BY <2>1, <2>4, <2>5 DEF WalkInv, FrameWalks
<1>6. CASE Follow
  <2>1. Trying /\ stack # <<>> /\ UNCHANGED <<graph, seen, paths, events>>
    BY <1>6, FollowShape
  <2>2. /\ IsWalk(graph, Top.trail) /\ Len(Top.trail) = Len(stack) /\ Len(stack) < MaxDepth
        /\ Top.node = Top.trail[Len(stack)] /\ NextEdge \in Range(graph.out[Top.node])
        /\ Len(stack) \in Nat
    BY <2>1, TopType, RestWalks DEF WalkInv, FrameWalks, Top
  <2>3. Callee.node \in DOMAIN graph.nodes /\ Callee.node = NextEdge.dst
    BY <1>6, FollowShape DEF Callee, Call, Frames
  <2>4. /\ IsWalk(graph, Append(Top.trail, NextEdge.dst))
        /\ Len(Append(Top.trail, NextEdge.dst)) = Len(stack) + 1
    BY <2>1, <2>2, <2>3, TopType, WalkGrows
  <2>5. Append(Top.trail, NextEdge.dst)[Len(stack) + 1] = NextEdge.dst
    BY <2>1, <2>2, <2>3, TopType, AppendGrows DEF Trails
  <2>6. FrameWalks(Callee, Len(stack) + 1)
    BY <2>2, <2>4, <2>5, ExplorerAssumption DEF FrameWalks, Callee, Call
  <2>7. FrameWalks(RestOfEdges, Len(stack))
    BY <2>1, RestWalks
  <2>8. ASSUME NEW i \in DOMAIN stack'
        PROVE  FrameWalks(stack'[i], i)
    <3>1. i = Len(stack) + 1 \/ i \in 1 .. Len(stack)
      BY <1>6, <2>2, FollowShape
    <3>2. DOMAIN stack = 1 .. Len(stack)
      BY LenProperties DEF TypeOK
    <3>3. QED
      BY <1>6, <2>2, <2>6, <2>7, <3>1, <3>2, FollowShape DEF WalkInv
  <2>9. QED
    BY <2>1, <2>8 DEF WalkInv, FrameWalks
<1>7. CASE Return
  <2>1. stack # <<>> /\ UNCHANGED <<graph, seen, paths, events>> /\ Pop
    BY <1>7 DEF Return, Looping
  <2>2. QED
    BY <2>1, PopShape DEF WalkInv, FrameWalks
<1>8. CASE UNCHANGED vars
  BY <1>8 DEF WalkInv, FrameWalks, vars
<1>9. QED
  BY <1>1, <1>2, <1>3, <1>4, <1>5, <1>6, <1>7, <1>8 DEF Next, Terminated

\* The witness every finding quotes is a walk of the graph from its entry that
\* respects max_depth, for every function, graph and depth.
THEOREM WitnessesAreWalks == Spec => []TrailsAreWalks
<1>1. TypeOK /\ WalkInv => TrailsAreWalks
  BY DEF WalkInv, TrailsAreWalks, FrameWalks
<1>2. QED
  BY InitTypeOK, NextTypeOK, InitWalkInv, NextWalkInv, <1>1, PTL DEF Spec

----------------------------------------------------------------------------
(* Paths carry their unwraps.                                              *)

\* The unwraps of a trail are those of its last node and those before it.
LEMMA AlongGrows ==
  ASSUME NEW g, NEW t \in Trails(g), t # <<>>
  PROVE  UnwrapsAlong(g, t, Len(t)) =
           UnwrapsAlong(g, t, Len(t) - 1)
             \cup {<<x.id, t>> : x \in {y \in g.nodes[t[Len(t)]].roots : y.k = "unwrap"}}
<1> DEFINE At(j) == {<<x.id, SubSeq(t, 1, j)>> : x \in {y \in g.nodes[t[j]].roots : y.k = "unwrap"}}
<1>1. Len(t) \in Nat \ {0} /\ t \in Seq(DOMAIN g.nodes)
  BY EmptySeq DEF Trails
<1>2. SubSeq(t, 1, Len(t)) = t
  BY <1>1
<1>3. \A n : UnwrapsAlong(g, t, n) = UNION {At(j) : j \in 1 .. n}
  BY DEF UnwrapsAlong
<1>4. At(Len(t)) = {<<x.id, t>> : x \in {y \in g.nodes[t[Len(t)]].roots : y.k = "unwrap"}}
  BY <1>2
<1> HIDE DEF At
<1>5. 1 .. Len(t) = (1 .. Len(t) - 1) \cup {Len(t)}
  BY <1>1
<1>6. UNION {At(j) : j \in 1 .. Len(t)} = At(Len(t)) \cup UNION {At(j) : j \in 1 .. Len(t) - 1}
  BY <1>5
<1> QED BY <1>3, <1>4, <1>6

\* A node more does not change the unwraps before it.
LEMMA AlongKept ==
  ASSUME NEW g, NEW t \in Trails(g), NEW e \in DOMAIN g.nodes
  PROVE  UnwrapsAlong(g, Append(t, e), Len(t)) = UnwrapsAlong(g, t, Len(t))
<1> DEFINE S == DOMAIN g.nodes
           q == Append(t, e)
<1>1. t \in Seq(S) /\ e \in S /\ Len(t) \in Nat
  BY DEF Trails
<1> HIDE DEF S
<1>2. q \in Seq(S) /\ Len(q) = Len(t) + 1 /\ \A i \in 1 .. Len(t) : q[i] = t[i]
  BY <1>1, AppendGrows
<1> HIDE DEF q
<1>3. ASSUME NEW j \in 1 .. Len(t)
      PROVE  q[j] = t[j] /\ SubSeq(q, 1, j) = SubSeq(t, 1, j)
  <2>1. SubSeq(q, 1, j) = [i \in 1 .. j |-> q[i]]
    BY <1>1, <1>2
  <2>2. SubSeq(t, 1, j) = [i \in 1 .. j |-> t[i]]
    BY <1>1
  <2>3. \A i \in 1 .. j : i \in 1 .. Len(t)
    BY <1>1
  <2> QED BY <1>2, <2>1, <2>2, <2>3
<1>4. \A j \in 1 .. Len(t) :
        {<<x.id, SubSeq(q, 1, j)>> : x \in {y \in g.nodes[q[j]].roots : y.k = "unwrap"}}
          = {<<x.id, SubSeq(t, 1, j)>> : x \in {y \in g.nodes[t[j]].roots : y.k = "unwrap"}}
  BY <1>3
<1> QED BY <1>4 DEF UnwrapsAlong, q

\* Stepping a node adds its unwraps, with the trail that leads to it.
LEMMA PlacedStep ==
  ASSUME NEW n, NEW s, NEW t, NEW unwraps
  PROVE  Placed(unwraps \cup UnwrapEvents(n, s, t)) =
           Placed(unwraps) \cup {<<x.id, t>> : x \in {y \in n.roots : y.k = "unwrap"}}
<1>1. Placed(UnwrapEvents(n, s, t)) = {<<x.id, t>> : x \in {y \in n.roots : y.k = "unwrap"}}
  <2>1. \A x : UnwrapEvent(x, s, t).id = x.id /\ UnwrapEvent(x, s, t).trail = t
    BY DEF UnwrapEvent
  <2> QED BY <2>1 DEF Placed, UnwrapEvents
<1>2. \A A, B : Placed(A \cup B) = Placed(A) \cup Placed(B)
  BY DEF Placed
<1> QED BY <1>1, <1>2

CarryInv == CallsCarryTheirUnwraps /\ PathsCarryTheirUnwraps

\* The first call has stepped nothing and carries nothing,
LEMMA InitCarryInv == Init => CarryInv
<1> SUFFICES ASSUME Init PROVE CarryInv
  OBVIOUS
<1> DEFINE f == Call(graph.entry, <<graph.entry>>, InitialState(graph.params), {})
<1>1. f.trail = <<graph.entry>> /\ f.unwraps = {} /\ f.phase = "call"
  BY DEF Call
<1>2. stack = <<f>> /\ paths = <<>>
  BY DEF Init
<1> HIDE DEF f
<1>3. Len(f.trail) - 1 = 0
  BY <1>1
<1>4. Placed({}) = {} /\ UnwrapsAlong(graph, f.trail, 0) = {}
  BY DEF Placed, UnwrapsAlong
<1>5. DOMAIN stack = {1} /\ stack[1] = f /\ DOMAIN paths = {}
  BY <1>2
<1> QED BY <1>1, <1>3, <1>4, <1>5 DEF CarryInv, CallsCarryTheirUnwraps, PathsCarryTheirUnwraps

\* Stepping the innermost call's node leaves the unwraps of the whole trail.
LEMMA UnwrappedIsAlong ==
  ASSUME TypeOK, WalkInv, CarryInv, Calling
  PROVE  Placed(Unwrapped) = UnwrapsAlong(graph, Top.trail, Len(Top.trail))
<1>1. stack # <<>> /\ Top.phase = "call"
  BY DEF Calling
<1>2. /\ Top = stack[Len(stack)] /\ Len(stack) \in DOMAIN stack /\ Top.trail \in Trails(graph)
      /\ Top.trail # <<>> /\ Top.node = Top.trail[Len(Top.trail)]
  BY <1>1, TopType DEF Top, WalkInv, FrameWalks, IsWalk
<1>3. Placed(Top.unwraps) = UnwrapsAlong(graph, Top.trail, Len(Top.trail) - 1)
  BY <1>1, <1>2 DEF CarryInv, CallsCarryTheirUnwraps
<1>4. Placed(Unwrapped) =
        Placed(Top.unwraps) \cup {<<x.id, Top.trail>> : x \in {y \in Node.roots : y.k = "unwrap"}}
  BY PlacedStep DEF Unwrapped
<1>5. Node = graph.nodes[Top.trail[Len(Top.trail)]]
  BY <1>2 DEF Node
<1> QED BY <1>2, <1>3, <1>4, <1>5, AlongGrows

\* and every step carries the unwraps along.
LEMMA NextCarryInv == TypeOK /\ WalkInv /\ CarryInv /\ [Next]_vars => CarryInv'
<1> SUFFICES ASSUME TypeOK, WalkInv, CarryInv, [Next]_vars PROVE CarryInv'
  OBVIOUS
<1>1. CASE DepthReached
  <2>1. /\ stack # <<>> /\ Top.phase = "call" /\ Len(Top.trail) >= MaxDepth
        /\ Record(Top, Top.unwraps) /\ Pop /\ UNCHANGED graph
    BY <1>1 DEF DepthReached, Calling
  <2>2. CallsCarryTheirUnwraps'
    BY <2>1, PopShape DEF CarryInv, CallsCarryTheirUnwraps
  <2>3. /\ Top = stack[Len(stack)] /\ Len(stack) \in DOMAIN stack /\ Top.trail \in Trails(graph)
        /\ Len(Top.trail) = Len(stack) /\ Len(stack) <= MaxDepth /\ Len(stack) \in Nat
    BY <2>1, TopType DEF Top, WalkInv, FrameWalks
  <2>4. Len(Top.trail) = MaxDepth
    BY <2>1, <2>3, ExplorerAssumption
  <2>5. Placed(Top.unwraps) = UnwrapsAlong(graph, Top.trail, MaxDepth - 1)
    BY <2>1, <2>3, <2>4 DEF CarryInv, CallsCarryTheirUnwraps
  <2>6. /\ DOMAIN paths' = 1 .. Len(paths) + 1 /\ DOMAIN paths = 1 .. Len(paths)
        /\ Len(paths) \in Nat
        /\ paths'[Len(paths) + 1] = [nodes |-> Top.trail, unwraps |-> Top.unwraps]
        /\ \A i \in 1 .. Len(paths) : paths'[i] = paths[i]
    BY <2>1, RecordShape
  <2>7. ~(MaxDepth < MaxDepth)
    BY ExplorerAssumption
  <2>8. PathsCarryTheirUnwraps'
    BY <2>1, <2>4, <2>5, <2>6, <2>7 DEF CarryInv, PathsCarryTheirUnwraps
  <2> QED BY <2>2, <2>8 DEF CarryInv
<1>2. CASE AlreadySeen
  BY <1>2, PopShape DEF AlreadySeen, Calling, CarryInv, CallsCarryTheirUnwraps, PathsCarryTheirUnwraps
<1>3. CASE Visit
  <2>1. /\ Calling /\ stack # <<>> /\ Len(Top.trail) < MaxDepth /\ graph' = graph
        /\ Stepped \in Frames(graph)
    BY <1>3, VisitShape
  <2>2. Placed(Unwrapped) = UnwrapsAlong(graph, Top.trail, Len(Top.trail))
    BY <2>1, UnwrappedIsAlong
  <2>3. CASE Record(Top, Unwrapped) /\ Pop
    <3>1. CallsCarryTheirUnwraps'
      BY <2>1, <2>3, PopShape DEF CarryInv, CallsCarryTheirUnwraps
    <3>2. /\ DOMAIN paths' = 1 .. Len(paths) + 1 /\ DOMAIN paths = 1 .. Len(paths)
          /\ Len(paths) \in Nat
          /\ paths'[Len(paths) + 1] = [nodes |-> Top.trail, unwraps |-> Unwrapped]
          /\ \A i \in 1 .. Len(paths) : paths'[i] = paths[i]
      BY <2>3, RecordShape
    <3>3. PathsCarryTheirUnwraps'
      BY <2>1, <2>2, <3>2 DEF CarryInv, PathsCarryTheirUnwraps
    <3> QED BY <3>1, <3>3 DEF CarryInv
  <2>4. CASE Replace(Stepped) /\ UNCHANGED paths
    <3>1. Stepped.trail = Top.trail /\ Stepped.unwraps = Unwrapped /\ Stepped.phase = "loop"
      BY <2>1, TopType DEF Stepped, Frames
    <3>2. /\ DOMAIN stack' = DOMAIN stack
          /\ \A i \in DOMAIN stack : stack'[i] = IF i = Len(stack) THEN Stepped ELSE stack[i]
      BY <2>1, <2>4, ReplaceShape
    <3>3. CallsCarryTheirUnwraps'
      BY <2>1, <2>2, <3>1, <3>2 DEF CarryInv, CallsCarryTheirUnwraps
    <3> QED BY <2>1, <2>4, <3>3 DEF CarryInv, PathsCarryTheirUnwraps
  <2> QED BY <1>3, <2>3, <2>4, VisitShape
<1>4. ASSUME SkipBack \/ PruneDead
      PROVE  CarryInv'
  <2>1. /\ Trying /\ stack # <<>> /\ Replace(RestOfEdges) /\ UNCHANGED <<graph, paths>>
    BY <1>4 DEF SkipBack, PruneDead, Trying, Looping
  <2>2. /\ RestOfEdges \in Frames(graph) /\ Top \in Frames(graph)
        /\ Top = stack[Len(stack)]
    BY <2>1, RestOfEdgesType, TopType DEF Top
  <2>3. /\ RestOfEdges.trail = Top.trail /\ RestOfEdges.unwraps = Top.unwraps
        /\ RestOfEdges.phase = Top.phase
    BY <2>2 DEF RestOfEdges, Frames
  <2>4. /\ DOMAIN stack' = DOMAIN stack
        /\ \A i \in DOMAIN stack : stack'[i] = IF i = Len(stack) THEN RestOfEdges ELSE stack[i]
    BY <2>1, <2>2, ReplaceShape
  <2> QED BY <2>1, <2>2, <2>3, <2>4 DEF CarryInv, CallsCarryTheirUnwraps, PathsCarryTheirUnwraps
<1>5. CASE Follow
  <2>1. /\ Trying /\ stack # <<>> /\ UNCHANGED <<graph, paths>>
        /\ RestOfEdges \in Frames(graph) /\ Callee \in Frames(graph)
        /\ DOMAIN stack' = 1 .. Len(stack) + 1
        /\ \A i \in DOMAIN stack' :
             stack'[i] = IF i = Len(stack) + 1 THEN Callee
                         ELSE IF i = Len(stack) THEN RestOfEdges ELSE stack[i]
    BY <1>5, FollowShape
  <2>2. /\ Top \in Frames(graph) /\ Top = stack[Len(stack)] /\ Top.phase = "loop"
        /\ Len(stack) \in DOMAIN stack /\ DOMAIN stack = 1 .. Len(stack) /\ Len(stack) \in Nat
        /\ Top.trail \in Trails(graph) /\ Top.edges # <<>>
    BY <2>1, TopType, LenProperties DEF Top, Trying, Looping, TypeOK
  <2>3. /\ RestOfEdges.trail = Top.trail /\ RestOfEdges.unwraps = Top.unwraps
        /\ RestOfEdges.phase = Top.phase
    BY <2>2 DEF RestOfEdges, Frames
  <2>4. /\ Callee.trail = Append(Top.trail, NextEdge.dst) /\ Callee.unwraps = Top.unwraps
        /\ Callee.phase = "call"
    BY DEF Callee, Call
  <2>5. NextEdge.dst \in DOMAIN graph.nodes
    <3>1. NextEdge \in [dst : DOMAIN graph.nodes, label : EdgeLabels]
      BY <2>1, <2>2, TopType, EdgeProperties DEF NextEdge
    <3> QED BY <3>1
  <2>6. Placed(Top.unwraps) = UnwrapsAlong(graph, Top.trail, Len(Top.trail))
    BY <2>2 DEF CarryInv, CallsCarryTheirUnwraps
  <2>7. Len(Callee.trail) - 1 = Len(Top.trail)
    BY <2>2, <2>4, <2>5, AppendGrows DEF Trails
  <2>8. Placed(Callee.unwraps) = UnwrapsAlong(graph, Callee.trail, Len(Callee.trail) - 1)
    BY <2>2, <2>4, <2>5, <2>6, <2>7, AlongKept
  <2>9. ASSUME NEW i \in DOMAIN stack'
        PROVE  Placed(stack'[i].unwraps) =
                 UnwrapsAlong(graph, stack'[i].trail,
                              IF stack'[i].phase = "call" THEN Len(stack'[i].trail) - 1
                                                          ELSE Len(stack'[i].trail))
    <3>1. CASE i = Len(stack) + 1
      BY <2>1, <2>4, <2>8, <3>1
    <3>2. CASE i = Len(stack)
      BY <2>1, <2>2, <2>3, <2>6, <3>2
    <3>3. CASE i # Len(stack) + 1 /\ i # Len(stack)
      <4>1. i \in DOMAIN stack /\ stack'[i] = stack[i]
        BY <2>1, <2>2, <3>3
      <4> QED BY <4>1 DEF CarryInv, CallsCarryTheirUnwraps
    <3> QED BY <3>1, <3>2, <3>3
  <2> QED BY <2>1, <2>9 DEF CarryInv, CallsCarryTheirUnwraps, PathsCarryTheirUnwraps
<1>6. CASE Return
  BY <1>6, PopShape DEF Return, Looping, CarryInv, CallsCarryTheirUnwraps, PathsCarryTheirUnwraps
<1>7. CASE UNCHANGED vars
  BY <1>7 DEF vars, CarryInv, CallsCarryTheirUnwraps, PathsCarryTheirUnwraps
<1> QED BY <1>1, <1>2, <1>3, <1>4, <1>5, <1>6, <1>7 DEF Next, Terminated

\* A recorded path carries the unwraps of its own nodes, no more and no fewer, for
\* every function, graph and depth.
THEOREM UnwrapsStayOnTheirPath == Spec => []PathsCarryTheirUnwraps
<1>1. CarryInv => PathsCarryTheirUnwraps
  BY DEF CarryInv
<1> QED
  BY InitTypeOK, NextTypeOK, InitWalkInv, NextWalkInv, InitCarryInv, NextCarryInv, <1>1, PTL DEF Spec

----------------------------------------------------------------------------
(* Memoisation loses nothing.                                              *)

\* The first call has the key of its node and state,
THEOREM InitKeysMatch == Init => KeysMatch
<1> SUFFICES ASSUME Init PROVE KeysMatch
  OBVIOUS
<1> DEFINE f == Call(graph.entry, <<graph.entry>>, InitialState(graph.params), {})
<1>1. f.key[1] = f.node /\ f.key[2] = f.state /\ f.phase = "call"
  BY DEF Call, Key
<1>2. stack = <<f>>
  BY DEF Init
<1> HIDE DEF f
<1>3. DOMAIN stack = {1} /\ stack[1] = f /\ Len(stack) = 1
  BY <1>2
<1>4. QED
  BY <1>1, <1>3 DEF KeysMatch

\* and every step leaves each call the key it was made with.
THEOREM NextKeysMatch == TypeOK /\ KeysMatch /\ [Next]_vars => KeysMatch'
<1> SUFFICES ASSUME TypeOK, KeysMatch, [Next]_vars PROVE KeysMatch'
  OBVIOUS
<1>1. ASSUME stack # <<>>, Pop, UNCHANGED graph, seen \subseteq seen'
      PROVE  KeysMatch'
  BY <1>1, PopShape DEF KeysMatch
<1>2. CASE DepthReached
  BY <1>1, <1>2 DEF DepthReached, Calling
<1>3. CASE AlreadySeen
  BY <1>1, <1>3 DEF AlreadySeen, Calling
<1>4. CASE Visit
  <2>1. /\ stack # <<>> /\ UNCHANGED graph /\ seen' = seen \cup {Top.key} /\ Top.phase = "call"
        /\ Stepped \in Frames(graph)
        /\ \/ Pop
           \/ Replace(Stepped)
    BY <1>4, VisitShape DEF Calling
  <2>2. CASE Pop
    BY <1>1, <2>1, <2>2
  <2>3. CASE Replace(Stepped)
    <3>1. Top.key[1] = Top.node /\ Top.key[2] = Top.state
      BY <2>1, TopType DEF KeysMatch, Top
    <3>2. /\ Stepped.key = Top.key /\ Stepped.node = Top.node /\ Stepped.phase = "loop"
          /\ Stepped.state = ApplyStatement(Node.update, Top.state)
      BY <2>1, TopType DEF Stepped, Frames
    <3>3. Stepped.state = ApplyStatement(graph.nodes[Stepped.node].update, Stepped.key[2])
      BY <3>1, <3>2 DEF Node
    <3>4. QED
      BY <2>1, <2>3, <3>1, <3>2, <3>3, ReplaceShape DEF KeysMatch
  <2>4. QED
    BY <2>1, <2>2, <2>3
<1>5. ASSUME Trying, Replace(RestOfEdges), UNCHANGED <<graph, seen>>
      PROVE  KeysMatch'
  <2>1. stack # <<>> /\ RestOfEdges \in Frames(graph) /\ Len(stack) \in DOMAIN stack
    BY <1>5, RestOfEdgesType, TopType DEF Trying, Looping
  <2>2. /\ RestOfEdges.key = Top.key /\ RestOfEdges.node = Top.node
        /\ RestOfEdges.phase = Top.phase /\ RestOfEdges.state = Top.state
    BY <2>1, TopType DEF RestOfEdges, Frames
  <2>3. QED
    BY <1>5, <2>1, <2>2, ReplaceShape DEF KeysMatch, Top
<1>6. CASE SkipBack
  BY <1>5, <1>6 DEF SkipBack
<1>7. CASE PruneDead
  BY <1>5, <1>7 DEF PruneDead
<1>8. CASE Follow
  <2>1. Trying /\ stack # <<>> /\ UNCHANGED <<graph, seen>> /\ Len(stack) \in DOMAIN stack
    BY <1>8, FollowShape, TopType
  <2>2. /\ RestOfEdges.key = Top.key /\ RestOfEdges.node = Top.node
        /\ RestOfEdges.phase = "loop" /\ RestOfEdges.state = Top.state
    BY <2>1, TopType DEF RestOfEdges, Frames, Trying, Looping
  <2>3. /\ Callee.key[1] = Callee.node /\ Callee.key[2] = Callee.state
        /\ Callee.phase = "call"
    BY DEF Callee, Call, Key
  <2>4. ASSUME NEW i \in DOMAIN stack, i # Len(stack)
        PROVE  stack[i].phase # "call"
    BY <2>4 DEF KeysMatch
  <2>5. Len(stack') = Len(stack) + 1 /\ Len(stack) \in Nat /\ DOMAIN stack = 1 .. Len(stack)
    BY <1>8, FollowShape, <2>1, TopType, LenProperties DEF TypeOK
  <2>6. ASSUME NEW i \in DOMAIN stack'
        PROVE  LET f == stack'[i]
               IN  /\ f.key[1] = f.node
                   /\ f.phase = "call" => i = Len(stack') /\ f.key[2] = f.state
                   /\ f.phase = "loop" =>
                        f.key \in seen /\ f.state = ApplyStatement(graph.nodes[f.node].update, f.key[2])
    <3>1. CASE i = Len(stack) + 1
      BY <1>8, <2>3, <2>5, <3>1, FollowShape
    <3>2. CASE i = Len(stack)
      <4>1. stack'[i] = RestOfEdges
        BY <1>8, <2>5, <3>2, FollowShape
      <4>2. Top.phase = "loop"
        BY <2>1 DEF Trying, Looping
      <4>3. /\ Top.key[1] = Top.node /\ Top.key \in seen
            /\ Top.state = ApplyStatement(graph.nodes[Top.node].update, Top.key[2])
        BY <2>1, <4>2 DEF KeysMatch, Top
      <4>4. QED
        BY <2>2, <4>1, <4>3
    <3>3. CASE i \in DOMAIN stack /\ i # Len(stack)
      <4>1. stack'[i] = stack[i]
        BY <1>8, <2>5, <3>3, FollowShape
      <4>2. QED
        BY <2>4, <3>3, <4>1 DEF KeysMatch
    <3>4. QED
      BY <1>8, <2>5, <3>1, <3>2, <3>3, FollowShape
  <2>7. QED
    BY <2>1, <2>6 DEF KeysMatch
<1>9. CASE Return
  BY <1>1, <1>9 DEF Return, Looping
<1>10. CASE UNCHANGED vars
  BY <1>10 DEF KeysMatch, vars
<1>11. QED
  BY <1>2, <1>3, <1>4, <1>6, <1>7, <1>8, <1>9, <1>10 DEF Next, Terminated

\* An edge the walk declines leads to none of the keys still pending.
LEMMA DeclinedEdge ==
  ASSUME TypeOK, Trying,
         NextEdge.label = "back" \/ Impossible(Node, NextEdge.label, TopVerdict)
  PROVE  Pending(Top) \subseteq Pending(RestOfEdges)
<1>1. stack # <<>> /\ Top.edges # <<>>
  BY DEF Trying, Looping
<1>2. /\ RestOfEdges.node = Top.node /\ RestOfEdges.state = Top.state
      /\ RestOfEdges.edges = Tail(Top.edges)
  BY <1>1, TopType DEF RestOfEdges, Frames
<1>3. Range(Top.edges) \subseteq {NextEdge} \cup Range(RestOfEdges.edges)
  BY <1>1, <1>2, TopType, EdgeProperties DEF NextEdge
<1>4. QED
  BY <1>2, <1>3 DEF Pending, TopVerdict, Node

\* The edge the walk follows accounts for the key its call enters.
LEMMA FollowedEdge ==
  ASSUME TypeOK, Trying
  PROVE  Pending(Top) \subseteq Pending(RestOfEdges) \cup {Callee.key}
<1>1. stack # <<>> /\ Top.edges # <<>>
  BY DEF Trying, Looping
<1>2. /\ RestOfEdges.node = Top.node /\ RestOfEdges.state = Top.state
      /\ RestOfEdges.edges = Tail(Top.edges)
  BY <1>1, TopType DEF RestOfEdges, Frames
<1>3. Range(Top.edges) \subseteq {NextEdge} \cup Range(RestOfEdges.edges)
  BY <1>1, <1>2, TopType, EdgeProperties DEF NextEdge
<1>4. Callee.key = Key(NextEdge.dst, Assume(Node, NextEdge.label, Top.state))
  BY DEF Callee, Call
<1>5. QED
  BY <1>2, <1>3, <1>4 DEF Pending, Node

\* A call that has just stepped its node is still to visit every feasible successor.
LEMMA AllPending ==
  ASSUME TypeOK, KeysMatch, Calling
  PROVE  /\ FeasibleKeys(graph, Top.key) \subseteq Pending(Stepped)
         /\ Node.kind = "exit" \/ graph.out[Top.node] = <<>> => FeasibleKeys(graph, Top.key) = {}
<1>1. stack # <<>> /\ Top.phase = "call" /\ Len(stack) \in DOMAIN stack
  BY TopType DEF Calling
<1>2. Top.key[1] = Top.node /\ Top.key[2] = Top.state
  BY <1>1 DEF KeysMatch, Top
<1>3. /\ Stepped.node = Top.node /\ Stepped.edges = graph.out[Top.node]
      /\ Stepped.state = ApplyStatement(Node.update, Top.state)
  BY <1>1, TopType DEF Stepped, Frames
<1>4. FeasibleKeys(graph, Top.key) \subseteq Pending(Stepped)
  BY <1>2, <1>3 DEF FeasibleKeys, Pending, Node
<1>5. ASSUME graph.out[Top.node] = <<>> PROVE Range(graph.out[Top.node]) = {}
  BY <1>5 DEF Range
<1>6. QED
  BY <1>2, <1>4, <1>5 DEF FeasibleKeys, Node

\* Stepping a node examines its sites in the state of its key.
LEMMA VisitExamines ==
  ASSUME TypeOK, KeysMatch, Visit
  PROVE  \A key : key = Top.key => Examined(graph, key)'
<1>1. Calling /\ stack # <<>> /\ Len(stack) \in DOMAIN stack
  BY VisitShape, TopType
<1>2. Top.key[1] = Top.node /\ Top.key[2] = Top.state
  BY <1>1 DEF KeysMatch, Top, Calling
<1>3. UNCHANGED graph /\ events' = events \cup Scanned(Node, Top.state, Top.trail)
  BY VisitShape
<1>4. ASSUME NEW x \in Node.roots \cup Node.scan, Reported(x, Top.state)
      PROVE  \E e \in events' : e = ScanEvent(x, Top.state, e.trail)
  <2> DEFINE e == ScanEvent(x, Top.state, Top.trail)
  <2>1. e \in events'
    BY <1>3, <1>4 DEF Scanned
  <2>2. e.trail = Top.trail
    BY ScanEventTrail
  <2>3. QED
    BY <2>1, <2>2
<1>5. QED
  BY <1>2, <1>3, <1>4 DEF Examined, Node

\* A path once cut stays recorded.
LEMMA DepthCutStays ==
  ASSUME TypeOK, [Next]_vars, DepthCut
  PROVE  DepthCut'
<1>1. PICK i \in DOMAIN paths : Len(paths[i].nodes) >= MaxDepth
  BY DEF DepthCut
<1>2. \/ UNCHANGED paths
      \/ \E unwraps : Record(Top, unwraps)
  BY DEF Next, DepthReached, AlreadySeen, Visit, SkipBack, PruneDead, Follow, Return,
         Terminated, vars
<1>3. i \in DOMAIN paths' /\ paths'[i] = paths[i]
  <2>1. CASE UNCHANGED paths
    BY <1>1, <2>1
  <2>2. ASSUME NEW unwraps, Record(Top, unwraps)
        PROVE  i \in DOMAIN paths' /\ paths'[i] = paths[i]
    <3>1. /\ DOMAIN paths' = 1 .. Len(paths) + 1 /\ DOMAIN paths = 1 .. Len(paths)
          /\ Len(paths) \in Nat /\ \A j \in 1 .. Len(paths) : paths'[j] = paths[j]
      BY <2>2, RecordShape
    <3>2. QED
      BY <1>1, <3>1
  <2>3. QED
    BY <1>2, <2>1, <2>2
<1>4. QED
  BY <1>1, <1>3 DEF DepthCut

\* What was visited and examined stays so; what has to be shown of a step is that
\* it loses no key still to visit and accounts for the successors of a new one.
LEMMA SearchStep ==
  ASSUME SearchInv, ~DepthCut, UNCHANGED graph, seen \subseteq seen', events \subseteq events',
         \A key, k : Accounted(key, k) => Accounted(key, k)',
         Calling /\ Top.key = EntryKey => EntryKey \in seen',
         \A key \in seen' \ seen :
           Examined(graph, key)' /\ \A k \in FeasibleKeys(graph, key) : Accounted(key, k)'
  PROVE  SearchInv'
<1>1. EntryKey' = EntryKey
  BY DEF EntryKey
<1>2. EntryKey \in seen'
        \/ ~(Calling /\ Top.key = EntryKey)
  OBVIOUS
<1>3. EntryKey \in seen'
  BY <1>2 DEF SearchInv
<1>4. ASSUME NEW key \in seen PROVE Examined(graph, key)'
  <2>1. Examined(graph, key)
    BY DEF SearchInv
  <2>2. QED
    BY <2>1 DEF Examined
<1>5. ASSUME NEW key \in seen, NEW k \in FeasibleKeys(graph, key) PROVE Accounted(key, k)'
  BY DEF SearchInv
<1>6. \A key : FeasibleKeys(graph, key)' = FeasibleKeys(graph, key)
  BY DEF FeasibleKeys
<1>7. QED
  BY <1>1, <1>3, <1>4, <1>5, <1>6 DEF SearchInv

\* At first the entry is being entered,
THEOREM InitSearchInv == Init => SearchInv
<1> SUFFICES ASSUME Init PROVE SearchInv
  OBVIOUS
<1> DEFINE f == Call(graph.entry, <<graph.entry>>, InitialState(graph.params), {})
<1>1. f.key = EntryKey /\ f.phase = "call"
  BY DEF Call, EntryKey
<1>2. stack = <<f>> /\ seen = {}
  BY DEF Init
<1> HIDE DEF f
<1>3. stack # <<>> /\ Top = f
  BY <1>2 DEF Top
<1>4. QED
  BY <1>1, <1>2, <1>3 DEF SearchInv, Calling

\* and every step accounts for the successors of the keys it has stepped.
THEOREM NextSearchInv == TypeOK /\ KeysMatch /\ SearchInv /\ [Next]_vars => SearchInv'
<1> SUFFICES ASSUME TypeOK, KeysMatch, SearchInv, [Next]_vars, ~DepthCut'
             PROVE  SearchInv'
  BY DEF SearchInv
<1>1. ~DepthCut
  BY DepthCutStays
<1>2. CASE DepthReached
  <2>1. stack # <<>> /\ Len(Top.trail) >= MaxDepth /\ Record(Top, Top.unwraps)
    BY <1>2 DEF DepthReached, Calling
  <2>2. paths'[Len(paths) + 1] = [nodes |-> Top.trail, unwraps |-> Top.unwraps]
        /\ Len(paths) + 1 \in DOMAIN paths'
    BY <2>1, RecordShape
  <2>3. QED
    BY <2>1, <2>2 DEF DepthCut
\* The innermost call is gone: nothing was pending in it.
<1>3. ASSUME stack # <<>>, Pop, UNCHANGED graph, seen \subseteq seen',
             Calling => Top.key \in seen',
             Looping => Top.edges = <<>>
      PROVE  \A key, k : Accounted(key, k) => Accounted(key, k)'
  <2> SUFFICES ASSUME NEW key, NEW k, Accounted(key, k), k \notin seen, k \notin seen'
               PROVE  Accounted(key, k)'
    BY <1>3 DEF Accounted
  <2>1. ~(Calling /\ Top.key = k)
    BY <1>3
  <2>2. PICK i \in DOMAIN stack :
          stack[i].phase = "loop" /\ stack[i].key = key /\ k \in Pending(stack[i])
    BY <2>1 DEF Accounted
  <2>3. i # Len(stack)
    <3>1. ASSUME i = Len(stack) PROVE FALSE
      <4>1. Looping /\ Top = stack[i]
        BY <1>3, <2>2, <3>1 DEF Looping, Top
      <4>2. Range(Top.edges) = {}
        BY <1>3, <4>1 DEF Range
      <4>3. QED
        BY <2>2, <4>1, <4>2 DEF Pending
    <3>2. QED
      BY <3>1
  <2>4. i \in DOMAIN stack' /\ stack'[i] = stack[i]
    <3>1. DOMAIN stack = 1 .. Len(stack) /\ Len(stack) \in Nat
      BY LenProperties DEF TypeOK
    <3>2. i \in 1 .. Len(stack) - 1
      BY <2>3, <3>1
    <3>3. QED
      BY <1>3, <3>2, PopShape
  <2>5. (k \in Pending(stack[i]))'
    BY <1>3, <2>2, <2>4 DEF Pending
  <2>6. QED
    BY <2>2, <2>4, <2>5 DEF Accounted
<1>4. CASE AlreadySeen
  <2>1. /\ stack # <<>> /\ UNCHANGED <<graph, seen, paths, events>> /\ Pop
        /\ Top.key \in seen /\ ~Looping
    BY <1>4 DEF AlreadySeen, Calling, Looping, Revisits
  <2>2. \A key, k : Accounted(key, k) => Accounted(key, k)'
    BY <1>3, <2>1
  <2>3. QED
    BY <1>1, <2>1, <2>2, SearchStep
\* The innermost call is replaced, and perhaps calls: what it leaves pending, or
\* enters, covers what was pending.
<1>5. ASSUME NEW frame, stack # <<>>, UNCHANGED graph, seen \subseteq seen',
             Len(stack) \in DOMAIN stack',
             \A i \in DOMAIN stack : i \in DOMAIN stack'
             /\ stack'[i] = IF i = Len(stack) THEN frame ELSE stack[i],
             frame.phase = "loop", frame.key = Top.key,
             Calling => Top.key \in seen',
             Looping => \A k \in Pending(Top) : k \in Pending(frame) \/ (Calling /\ Top.key = k)'
      PROVE  \A key, k : Accounted(key, k) => Accounted(key, k)'
  <2> SUFFICES ASSUME NEW key, NEW k, Accounted(key, k), k \notin seen, k \notin seen'
               PROVE  Accounted(key, k)'
    BY <1>5 DEF Accounted
  <2>1. ~(Calling /\ Top.key = k)
    BY <1>5
  <2>2. PICK i \in DOMAIN stack :
          stack[i].phase = "loop" /\ stack[i].key = key /\ k \in Pending(stack[i])
    BY <2>1 DEF Accounted
  <2>3. CASE i = Len(stack)
    <3>1. Looping /\ Top = stack[i]
      BY <1>5, <2>2, <2>3 DEF Looping, Top
    <3>2. k \in Pending(frame) \/ (Calling /\ Top.key = k)'
      BY <1>5, <2>2, <3>1
    <3>3. CASE k \in Pending(frame)
      <4>1. stack'[i] = frame /\ i \in DOMAIN stack'
        BY <1>5, <2>3
      <4>2. (k \in Pending(stack[i]))'
        BY <1>5, <3>3, <4>1 DEF Pending
      <4>3. (stack[i].phase = "loop" /\ stack[i].key = key)'
        BY <1>5, <2>2, <3>1, <4>1
      <4>4. QED
        BY <4>1, <4>2, <4>3 DEF Accounted
    <3>4. QED
      BY <3>2, <3>3 DEF Accounted
  <2>4. CASE i # Len(stack)
    <3>1. i \in DOMAIN stack' /\ stack'[i] = stack[i]
      BY <1>5, <2>4
    <3>2. (k \in Pending(stack[i]))'
      BY <1>5, <2>2, <3>1 DEF Pending
    <3>3. QED
      BY <2>2, <3>1, <3>2 DEF Accounted
  <2>5. QED
    BY <2>3, <2>4
<1>6. CASE Visit
  <2>1. /\ Calling /\ ~Looping /\ stack # <<>> /\ UNCHANGED graph
        /\ seen' = seen \cup {Top.key}
        /\ events \subseteq events'
        /\ Stepped \in Frames(graph)
    BY <1>6, VisitShape DEF Calling, Looping
  <2>2. \A key : key = Top.key => Examined(graph, key)'
    BY <1>6, VisitExamines
  <2>3. CASE (Node.kind = "exit" \/ graph.out[Top.node] = <<>>) /\ Pop
    <3>1. \A key, k : Accounted(key, k) => Accounted(key, k)'
      BY <1>3, <2>1, <2>3
    <3>2. FeasibleKeys(graph, Top.key) = {}
      BY <2>1, <2>3, AllPending
    <3>3. QED
      BY <1>1, <2>1, <2>2, <3>1, <3>2, SearchStep
  <2>4. CASE Replace(Stepped)
    <3>1. Stepped.phase = "loop" /\ Stepped.key = Top.key
      BY <2>1, TopType DEF Stepped, Frames
    <3>2. /\ Len(stack) \in DOMAIN stack /\ DOMAIN stack' = DOMAIN stack
          /\ \A i \in DOMAIN stack : stack'[i] = IF i = Len(stack) THEN Stepped ELSE stack[i]
      BY <2>1, <2>4, TopType, ReplaceShape
    <3>3. \A key, k : Accounted(key, k) => Accounted(key, k)'
      BY <1>5, <2>1, <3>1, <3>2
    <3>4. ASSUME NEW i, i = Len(stack), NEW key, key = Top.key,
                 NEW k \in FeasibleKeys(graph, key)
          PROVE  Accounted(key, k)'
      <4>1. k \in Pending(Stepped)
        BY <2>1, <3>4, AllPending
      <4>2. stack'[i] = Stepped /\ i \in DOMAIN stack'
        BY <3>2, <3>4
      <4>3. (k \in Pending(stack[i]))'
        BY <2>1, <4>1, <4>2 DEF Pending
      <4>4. (stack[i].phase = "loop" /\ stack[i].key = key)'
        BY <3>1, <3>4, <4>2
      <4>5. QED
        BY <4>2, <4>3, <4>4 DEF Accounted
    <3>5. \A key \in seen' \ seen : \A k \in FeasibleKeys(graph, key) : Accounted(key, k)'
      BY <2>1, <3>4
    <3>6. QED
      BY <1>1, <2>1, <2>2, <3>3, <3>5, SearchStep
  <2>5. QED
    BY <1>6, <2>3, <2>4, VisitShape
<1>7. ASSUME Trying, Replace(RestOfEdges), UNCHANGED <<graph, seen>>, events \subseteq events',
             NextEdge.label = "back" \/ Impossible(Node, NextEdge.label, TopVerdict)
      PROVE  SearchInv'
  <2>1. stack # <<>> /\ ~Calling /\ Looping /\ RestOfEdges \in Frames(graph)
    BY <1>7, RestOfEdgesType DEF Trying, Looping, Calling
  <2>2. RestOfEdges.phase = "loop" /\ RestOfEdges.key = Top.key
    BY <2>1, TopType DEF RestOfEdges, Frames, Looping
  <2>3. /\ Len(stack) \in DOMAIN stack /\ DOMAIN stack' = DOMAIN stack
        /\ \A i \in DOMAIN stack : stack'[i] = IF i = Len(stack) THEN RestOfEdges ELSE stack[i]
    BY <1>7, <2>1, TopType, ReplaceShape
  <2>4. Pending(Top) \subseteq Pending(RestOfEdges)
    BY <1>7, DeclinedEdge
  <2>5. \A key, k : Accounted(key, k) => Accounted(key, k)'
    BY <1>5, <1>7, <2>1, <2>2, <2>3, <2>4
  <2>6. QED
    BY <1>1, <1>7, <2>1, <2>5, SearchStep
<1>8. CASE SkipBack
  BY <1>7, <1>8 DEF SkipBack, SkippedBack
<1>9. CASE PruneDead
  BY <1>7, <1>9 DEF PruneDead
<1>10. CASE Follow
  <2>1. /\ Trying /\ stack # <<>> /\ ~Calling /\ Looping
        /\ UNCHANGED <<graph, seen, paths, events>>
    BY <1>10, FollowShape DEF Trying, Looping, Calling
  <2>2. RestOfEdges.phase = "loop" /\ RestOfEdges.key = Top.key
    BY <2>1, TopType DEF RestOfEdges, Frames, Looping
  <2>3. /\ Len(stack) \in Nat /\ DOMAIN stack = 1 .. Len(stack) /\ Len(stack) \in DOMAIN stack
        /\ DOMAIN stack' = 1 .. Len(stack) + 1 /\ Len(stack') = Len(stack) + 1
        /\ stack'[Len(stack) + 1] = Callee
        /\ \A i \in DOMAIN stack : stack'[i] = IF i = Len(stack) THEN RestOfEdges ELSE stack[i]
    <3>1. DOMAIN stack = 1 .. Len(stack) /\ Len(stack) \in DOMAIN stack /\ Len(stack) \in Nat
      BY <2>1, TopType, LenProperties DEF TypeOK
    <3>2. QED
      BY <1>10, <3>1, FollowShape
  <2>4. ASSUME NEW k, k = Callee.key PROVE (Calling /\ Top.key = k)'
    <3>1. stack' # <<>> /\ Top' = Callee
      BY <2>3 DEF Top
    <3>2. Callee.phase = "call"
      BY DEF Callee, Call
    <3>3. QED
      BY <2>4, <3>1, <3>2 DEF Calling
  <2>5. \A k \in Pending(Top) : k \in Pending(RestOfEdges) \/ (Calling /\ Top.key = k)'
    BY <2>1, <2>4, FollowedEdge
  <2>6. \A key, k : Accounted(key, k) => Accounted(key, k)'
    <3>1. \A i \in DOMAIN stack : i \in DOMAIN stack'
      BY <2>3
    <3>2. QED
      BY <1>5, <2>1, <2>2, <2>3, <2>5, <3>1
  <2>7. QED
    BY <1>1, <2>1, <2>6, SearchStep
<1>11. CASE Return
  <2>1. /\ stack # <<>> /\ UNCHANGED <<graph, seen, paths, events>> /\ Pop
        /\ Top.edges = <<>> /\ ~Calling
    BY <1>11 DEF Return, Looping, Calling
  <2>2. \A key, k : Accounted(key, k) => Accounted(key, k)'
    BY <1>3, <2>1
  <2>3. QED
    BY <1>1, <2>1, <2>2, SearchStep
<1>12. CASE UNCHANGED vars
  BY <1>12 DEF SearchInv, DepthCut, EntryKey, Calling, Top, Examined, FeasibleKeys,
              Accounted, Pending, vars
<1>13. QED
  BY <1>2, <1>4, <1>6, <1>8, <1>9, <1>10, <1>11, <1>12 DEF Next, Terminated

\* When a walk has ended and no path was cut by max_depth, every feasible loop-free
\* continuation of every visited (node, state) pair was visited and all its sites were
\* examined, for every function, graph and depth: memoisation loses no finding's site.
THEOREM MemoisationLosesNothing == Spec => []SearchComplete
<1>1. SearchInv => SearchComplete
  <2> SUFFICES ASSUME SearchInv, Done, ~DepthCut
               PROVE  /\ EntryKey \in seen
                      /\ \A key \in seen : FeasibleKeys(graph, key) \subseteq seen
                                           /\ Examined(graph, key)
    BY DEF SearchComplete
  <2>1. ~Calling /\ DOMAIN stack = {}
    BY DEF Done, Calling
  <2>2. QED
    BY <2>1 DEF SearchInv, Accounted
<1>2. QED
  BY InitTypeOK, NextTypeOK, InitKeysMatch, NextKeysMatch, InitSearchInv, NextSearchInv,
     <1>1, PTL DEF Spec

----------------------------------------------------------------------------
(* The walk is a search.                                                   *)

\* Every call the walk makes enters a key its search allows.
THEOREM InitCallsAreAllowed == Init => CallsAreAllowed
<1> SUFFICES ASSUME Init PROVE CallsAreAllowed
  OBVIOUS
<1> DEFINE f == Call(graph.entry, <<graph.entry>>, InitialState(graph.params), {})
<1>1. f.key = EntryKeyOf(graph) /\ f.phase = "call"
  BY DEF Call, EntryKeyOf
<1>2. stack = <<f>>
  BY DEF Init
<1> HIDE DEF f
<1>3. DOMAIN stack = {1} /\ stack[1] = f
  BY <1>2
<1>4. QED
  BY <1>1, <1>3 DEF CallsAreAllowed, AllowedKeys

\* The edge the walk follows leads to a key its search allows.
LEMMA CalleeIsAllowed ==
  ASSUME TypeOK, WalkInv, KeysMatch, CallsAreAllowed, Follow
  PROVE  Callee.key \in AllowedKeys
<1>1. /\ Trying /\ stack # <<>> /\ Len(stack) \in DOMAIN stack
      /\ Top.phase = "loop" /\ ~Impossible(Node, NextEdge.label, TopVerdict)
  BY FollowShape, TopType DEF Follow, Trying, Looping
<1>2. NextEdge \in Range(graph.out[Top.node])
  BY <1>1, RestWalks DEF WalkInv, FrameWalks, Top
<1>3. /\ Top.key[1] = Top.node /\ Top.key \in seen /\ Node.kind # "exit"
      /\ Top.state = ApplyStatement(Node.update, Top.key[2])
  BY <1>1 DEF KeysMatch, CallsAreAllowed, Top, Node
<1>4. Callee.key = Key(NextEdge.dst, Assume(Node, NextEdge.label, Top.state))
  BY DEF Callee, Call
<1>5. Callee.key \in CalledKeys(graph, Top.key)
  BY <1>1, <1>2, <1>3, <1>4 DEF CalledKeys, TopVerdict, Node
<1>6. QED
  BY <1>3, <1>5 DEF AllowedKeys

\* ... and goes on doing so.
THEOREM NextCallsAreAllowed ==
  TypeOK /\ WalkInv /\ KeysMatch /\ CallsAreAllowed /\ [Next]_vars => CallsAreAllowed'
<1> SUFFICES ASSUME TypeOK, WalkInv, KeysMatch, CallsAreAllowed, [Next]_vars
             PROVE  CallsAreAllowed'
  OBVIOUS
<1>0. ASSUME UNCHANGED graph, seen \subseteq seen'
      PROVE  AllowedKeys \subseteq AllowedKeys'
  BY <1>0 DEF AllowedKeys, CalledKeys, EntryKeyOf
<1>1. ASSUME stack # <<>>, Pop, UNCHANGED graph, seen \subseteq seen'
      PROVE  CallsAreAllowed'
  BY <1>0, <1>1, PopShape DEF CallsAreAllowed
<1>2. ASSUME stack # <<>>, UNCHANGED graph, seen \subseteq seen', NEW frame \in Frames(graph),
             Replace(frame), frame.phase = "loop", graph.nodes[frame.node].kind # "exit"
      PROVE  CallsAreAllowed'
  BY <1>0, <1>2, ReplaceShape DEF CallsAreAllowed
<1>3. CASE DepthReached
  BY <1>1, <1>3 DEF DepthReached, Calling
<1>4. CASE AlreadySeen
  BY <1>1, <1>4 DEF AlreadySeen, Calling
<1>5. CASE Visit
  <2>1. /\ stack # <<>> /\ UNCHANGED graph /\ seen \subseteq seen'
        /\ Stepped \in Frames(graph)
        /\ Pop \/ (Node.kind # "exit" /\ Replace(Stepped))
    BY <1>5, VisitShape
  <2>2. Stepped.phase = "loop" /\ Stepped.node = Top.node
    BY <2>1, TopType DEF Stepped, Frames
  <2>3. QED
    BY <1>1, <1>2, <2>1, <2>2 DEF Node
<1>6. ASSUME Trying, Replace(RestOfEdges), UNCHANGED <<graph, seen>>
      PROVE  CallsAreAllowed'
  <2>1. /\ stack # <<>> /\ RestOfEdges \in Frames(graph) /\ Len(stack) \in DOMAIN stack
        /\ Top.phase = "loop"
    BY <1>6, RestOfEdgesType, TopType DEF Trying, Looping
  <2>2. RestOfEdges.phase = "loop" /\ RestOfEdges.node = Top.node
    BY <2>1, TopType DEF RestOfEdges, Frames
  <2>3. QED
    BY <1>2, <1>6, <2>1, <2>2 DEF CallsAreAllowed, Top
<1>7. CASE SkipBack
  BY <1>6, <1>7 DEF SkipBack
<1>8. CASE PruneDead
  BY <1>6, <1>8 DEF PruneDead
<1>9. CASE Follow
  <2>1. /\ Trying /\ stack # <<>> /\ UNCHANGED <<graph, seen>>
        /\ Top.phase = "loop" /\ Len(stack) \in DOMAIN stack
        /\ DOMAIN stack = 1 .. Len(stack) /\ Len(stack) \in Nat
    BY <1>9, FollowShape, TopType, LenProperties DEF Trying, Looping, TypeOK
  <2>2. RestOfEdges.phase = "loop" /\ RestOfEdges.node = Top.node
    BY <2>1, TopType DEF RestOfEdges, Frames
  <2>3. Callee.key \in AllowedKeys' /\ Callee.phase = "call"
    BY <1>0, <1>9, <2>1, CalleeIsAllowed DEF Callee, Call
  <2>4. ASSUME NEW i \in DOMAIN stack'
        PROVE  /\ stack'[i].phase = "call" => stack'[i].key \in AllowedKeys'
               /\ stack'[i].phase = "loop" => graph.nodes[stack'[i].node].kind # "exit"
    <3>1. CASE i = Len(stack) + 1
      BY <1>9, <2>3, <3>1, FollowShape
    <3>2. CASE i = Len(stack)
      <4>1. stack'[i] = RestOfEdges
        BY <1>9, <2>1, <3>2, FollowShape
      <4>2. graph.nodes[Top.node].kind # "exit"
        BY <2>1 DEF CallsAreAllowed, Top
      <4>3. QED
        BY <2>2, <4>1, <4>2
    <3>3. CASE i \in 1 .. Len(stack) /\ i # Len(stack)
      <4>1. stack'[i] = stack[i] /\ i \in DOMAIN stack
        BY <1>9, <2>1, <3>3, FollowShape
      <4>2. QED
        BY <1>0, <2>1, <4>1 DEF CallsAreAllowed
    <3>4. QED
      BY <1>9, <2>1, <3>1, <3>2, <3>3, FollowShape
  <2>5. QED
    BY <2>1, <2>4 DEF CallsAreAllowed
<1>10. CASE Return
  BY <1>1, <1>10 DEF Return, Looping
<1>11. CASE UNCHANGED vars
  BY <1>11 DEF CallsAreAllowed, AllowedKeys, CalledKeys, EntryKeyOf, vars
<1>12. QED
  BY <1>3, <1>4, <1>5, <1>7, <1>8, <1>9, <1>10, <1>11 DEF Next, Terminated

\* A path that Visit records is shorter than max_depth, so it cuts nothing.
LEMMA VisitCutsNothing ==
  ASSUME TypeOK, Visit
  PROVE  DepthCut' => DepthCut
<1> SUFFICES ASSUME DepthCut' PROVE DepthCut
  OBVIOUS
<1>1. Len(Top.trail) < MaxDepth /\ ((\E unwraps : Record(Top, unwraps)) \/ UNCHANGED paths)
  BY VisitShape
<1>2. CASE UNCHANGED paths
  BY <1>2 DEF DepthCut
<1>3. ASSUME NEW unwraps, Record(Top, unwraps)
      PROVE  DepthCut
  <2>0. /\ DOMAIN paths' = 1 .. Len(paths) + 1 /\ DOMAIN paths = 1 .. Len(paths)
        /\ Len(paths) \in Nat
        /\ paths'[Len(paths) + 1] = [nodes |-> Top.trail, unwraps |-> unwraps]
        /\ \A j \in 1 .. Len(paths) : paths'[j] = paths[j]
    BY <1>3, RecordShape
  <2>1. PICK i \in DOMAIN paths' : Len(paths'[i].nodes) >= MaxDepth
    BY DEF DepthCut
  <2>2. i # Len(paths) + 1
    <3>1. paths'[Len(paths) + 1].nodes = Top.trail
      BY <2>0
    <3>2. Len(Top.trail) \in Nat
      BY VisitShape, TopType, LenProperties DEF Trails
    <3>3. QED
      BY <1>1, <2>1, <3>1, <3>2, ExplorerAssumption
  <2>3. i \in DOMAIN paths /\ paths'[i] = paths[i]
    BY <2>0, <2>2
  <2>4. QED
    BY <2>1, <2>3 DEF DepthCut
<1>4. QED
  BY <1>1, <1>2, <1>3

\* Stepping a node examines one key of the search's frontier; any other step leaves the
\* keys alone and may only cut a path.
LEMMA StepExamines ==
  ASSUME TypeOK, WalkInv, CallsAreAllowed, [Next]_vars, stack # <<>>
  PROVE  /\ UNCHANGED graph
         /\ \/ /\ \E k \in AllowedKeys \ seen : seen' = seen \cup {k}
               /\ UNCHANGED DepthCut
            \/ UNCHANGED seen /\ (DepthCut' = TRUE \/ UNCHANGED DepthCut)
<1>1. DepthCut => DepthCut'
  BY DepthCutStays
<1>2. DepthCut \in BOOLEAN /\ DepthCut' \in BOOLEAN
  BY DEF DepthCut
<1>3. CASE Visit
  <2>1. /\ Calling /\ Top.phase = "call" /\ Len(stack) \in DOMAIN stack
        /\ UNCHANGED graph /\ seen' = seen \cup {Top.key}
    BY <1>3, VisitShape, TopType DEF Calling
  <2>2. Top.key \in AllowedKeys
    BY <2>1 DEF CallsAreAllowed, Top
  <2>3. Top.key \notin seen
    <3>1. Top.node \in Range(Top.trail)
      <4>1. /\ Top.trail \in Seq(DOMAIN graph.nodes) /\ Len(Top.trail) = Len(stack)
            /\ Top.node = Top.trail[Len(stack)] /\ Len(stack) \in Nat \ {0}
        BY <2>1, TopType DEF WalkInv, FrameWalks, Top, Trails, Calling
      <4>2. Len(stack) \in DOMAIN Top.trail
        BY <4>1, LenProperties
      <4>3. QED
        BY <4>1, <4>2 DEF Range
    <3>2. QED
      BY <1>3, <3>1 DEF Visit, Revisits
  <2>4. UNCHANGED DepthCut
    BY <1>1, <1>2, <1>3, VisitCutsNothing
  <2>5. QED
    BY <2>1, <2>2, <2>3, <2>4
<1>4. CASE ~Visit
  <2>1. UNCHANGED <<graph, seen>>
    BY <1>4 DEF Next, DepthReached, AlreadySeen, SkipBack, PruneDead, Follow, Return,
                Terminated, vars
  <2>2. QED
    BY <1>1, <1>2, <2>1
<1>5. QED
  BY <1>3, <1>4

\* Before its first call steps the entry, the search has examined nothing.
LEMMA InitIsSearch == Init => Abstract!Init
<1> SUFFICES ASSUME Init PROVE Abstract!Init
  OBVIOUS
<1>1. stack # <<>> /\ paths = <<>> /\ seen = {}
  BY DEF Init
<1>2. DOMAIN paths = {}
  BY <1>1
<1>3. DepthCut = FALSE /\ Done = FALSE
  BY <1>1, <1>2 DEF DepthCut, Done
<1>4. QED
  BY <1>1, <1>3 DEF Abstract!Init

\* A step of the walk is a step of the search, or leaves it where it was.
THEOREM StepIsSearch ==
  TypeOK /\ WalkInv /\ CallsAreAllowed /\ SearchComplete' /\ [Next]_vars
    => Abstract!Next \/ UNCHANGED Abstract!vars
<1> SUFFICES ASSUME TypeOK, WalkInv, CallsAreAllowed, SearchComplete', [Next]_vars
             PROVE  Abstract!Next \/ UNCHANGED Abstract!vars
  OBVIOUS
<1>1. CASE stack = <<>>
  <2>1. UNCHANGED vars
    BY <1>1 DEF Next, DepthReached, AlreadySeen, Visit, SkipBack, PruneDead, Follow, Return,
                Terminated, Calling, Looping, Trying
  <2>2. UNCHANGED <<graph, seen, DepthCut, Done>>
    BY <2>1 DEF vars, DepthCut, Done
  <2>3. QED
    BY <2>2 DEF Abstract!vars
<1>2. CASE stack # <<>>
  <2>1. Done = FALSE /\ Done' \in BOOLEAN
    BY <1>2 DEF Done
  <2>2. Done' /\ ~DepthCut' => Abstract!Closed(graph', seen')
    <3> SUFFICES ASSUME Done', ~DepthCut' PROVE Abstract!Closed(graph, seen)'
      BY DEF Abstract!Closed
    <3>1. EntryKeyOf(graph)' = EntryKey'
      BY DEF EntryKeyOf, EntryKey
    <3>2. QED
      BY <3>1 DEF SearchComplete, Abstract!Closed
  <2>3. UNCHANGED graph
    BY <1>2, StepExamines
  <2>4. Abstract!Examine \/ Abstract!Cut \/ Abstract!Rest
    <3>1. Abstract!Frontier = AllowedKeys \ seen
      BY DEF Abstract!Frontier, AllowedKeys
    <3>2. CASE /\ \E k \in AllowedKeys \ seen : seen' = seen \cup {k}
               /\ UNCHANGED DepthCut
      BY <3>1, <3>2 DEF Abstract!Examine
    <3>3. CASE UNCHANGED seen /\ (DepthCut' = TRUE \/ UNCHANGED DepthCut)
      BY <3>3 DEF Abstract!Cut, Abstract!Rest
    <3>4. QED
      BY <1>2, <3>2, <3>3, StepExamines
  <2>5. QED
    BY <2>1, <2>2, <2>3, <2>4 DEF Abstract!Next
<1>3. QED
  BY <1>1, <1>2

\* The walk of explore implements a search of the pairs (node, state): for every
\* function, graph and depth it examines only pairs the verdicts allow it to reach, each
\* at most once, and all it must unless max_depth cut it short.
THEOREM ExploreImplementsSearch == Spec => ExploreIsASearch
  BY InitTypeOK, NextTypeOK, InitWalkInv, NextWalkInv, InitKeysMatch, NextKeysMatch,
     InitCallsAreAllowed, NextCallsAreAllowed, MemoisationLosesNothing, InitIsSearch,
     StepIsSearch, PTL DEF Spec, ExploreIsASearch, Abstract!Spec

----------------------------------------------------------------------------
(* No trail comes back to a node.                                          *)

\* A nonempty set of naturals has a least element.
LEMMA LeastNatural ==
  ASSUME NEW S, S \subseteq Nat, S # {}
  PROVE  \E m \in S : \A x \in S : m <= x
<1> DEFINE R == OpToRel(<, Nat)
<1>0. R = {p \in Nat \X Nat : p[1] < p[2]} /\ IsWellFoundedOn(R, Nat)
  BY NatLessThanWellFounded, Zenon DEF OpToRel
<1> HIDE DEF R
<1>1. PICK m \in S : \A x \in S : <<x, m>> \notin R
  BY <1>0, WFMin, Zenon
<1>2. \A x \in S : ~(x < m)
  BY <1>0, <1>1
<1>3. QED
  BY <1>1, <1>2

\* A climbing walk that has come to a node behind a loop's condition has passed the condition.
LEMMA PassesTheCondition ==
  ASSUME IsGraph(graph), IsLaidOut(graph), NEW t \in Trails(graph), IsWalk(graph, t),
         Climbs(graph, t), graph.nodes[t[Len(t)]].kind # "exit",
         NEW e \in Range(graph.out[t[Len(t)]]), e.label = "back"
  PROVE  e.dst \in Range(t)
<1> DEFINE n == t[Len(t)]
           T == {j \in DOMAIN t : e.dst <= t[j]}
<1>1. /\ t \in Seq(DOMAIN graph.nodes) /\ DOMAIN t = 1 .. Len(t) /\ Len(t) \in Nat \ {0}
      /\ DOMAIN graph.nodes = 1 .. Len(graph.nodes) /\ Len(graph.nodes) \in Nat
  BY LenProperties, EmptySeq DEF IsWalk, Trails, IsGraph
<1>2. /\ \A j \in DOMAIN t : t[j] \in DOMAIN graph.nodes /\ t[j] \in Nat
      /\ graph.entry \in Nat
  BY <1>1, ElementOfSeq DEF IsGraph
<1>3. /\ e.dst \in graph.entry .. n
      /\ \A m \in DOMAIN graph.nodes : \A d \in Range(graph.out[m]) :
           d.dst \in e.dst + 1 .. n => m >= e.dst
  BY <1>1, <1>2 DEF IsLaidOut
<1>4. T \subseteq Nat /\ T # {} /\ Len(t) \in DOMAIN t /\ n \in Nat /\ e.dst \in Nat
  <2>1. Len(t) \in DOMAIN t
    BY <1>1
  <2>2. n \in Nat /\ e.dst \in Int /\ e.dst <= n /\ graph.entry <= e.dst
    BY <1>2, <1>3, <2>1
  <2>3. Len(t) \in T
    BY <2>1, <2>2
  <2>4. QED
    BY <1>1, <1>2, <2>1, <2>2, <2>3
<1>5. PICK j \in T : \A x \in T : j <= x
  BY <1>4, LeastNatural
<1>6. ASSUME t[j] # e.dst PROVE FALSE
  <2>1. j # 1
    BY <1>2, <1>3, <1>4, <1>5, <1>6 DEF IsWalk
  <2>2. j - 1 \in DOMAIN t /\ t[j - 1] < e.dst
    BY <1>1, <1>2, <1>3, <1>5, <2>1
  <2>3. t[j] \in e.dst + 1 .. n
    <3>1. j \in DOMAIN t /\ t[j] \in Nat /\ e.dst <= t[j]
      BY <1>2, <1>5
    <3>2. t[j] <= n
      <4>1. j = Len(t) \/ j < Len(t)
        BY <1>1, <3>1
      <4>2. j < Len(t) => t[j] < n
        BY <1>4, <3>1 DEF Climbs
      <4>3. QED
        BY <1>4, <3>1, <4>1, <4>2
    <3>3. QED
      BY <1>4, <1>6, <3>1, <3>2
  <2>4. PICK d \in Range(graph.out[t[j - 1]]) : d.dst = t[j]
    BY <1>1, <1>5, <2>2 DEF IsWalk
  <2>5. QED
    BY <1>2, <1>3, <2>2, <2>3, <2>4
<1>7. QED
  BY <1>5, <1>6 DEF Range

\* A climbing walk that goes on along an edge that is not skipped goes on climbing.
LEMMA ClimbGrows ==
  ASSUME IsGraph(graph), IsLaidOut(graph), NEW t \in Trails(graph), IsWalk(graph, t),
         Climbs(graph, t), graph.nodes[t[Len(t)]].kind # "exit",
         NEW e \in Range(graph.out[t[Len(t)]]), e.dst \in DOMAIN graph.nodes,
         ~(e.label = "back" /\ e.dst \in Range(t))
  PROVE  Climbs(graph, Append(t, e.dst))
<1> DEFINE u == Append(t, e.dst)
           N == DOMAIN graph.nodes
<1>1. /\ t \in Seq(N) /\ DOMAIN t = 1 .. Len(t) /\ Len(t) \in Nat \ {0}
      /\ N = 1 .. Len(graph.nodes) /\ Len(graph.nodes) \in Nat
  BY LenProperties, EmptySeq DEF IsWalk, Trails, IsGraph
<1>2. \A j \in DOMAIN t : t[j] \in N /\ t[j] \in Nat
  BY <1>1, ElementOfSeq
<1>3. e.label # "back"
  BY PassesTheCondition
<1>4. e.dst > t[Len(t)] \/ graph.nodes[e.dst].kind = "exit"
  BY <1>1, <1>2, <1>3 DEF IsLaidOut
<1>5. /\ Len(u) = Len(t) + 1 /\ DOMAIN u = 1 .. Len(t) + 1 /\ u[Len(t) + 1] = e.dst
      /\ \A i \in 1 .. Len(t) : u[i] = t[i]
  <2> HIDE DEF N
  <2>1. u \in Seq(N)
    BY <1>1, AppendGrows
  <2>2. QED
    BY <1>1, <2>1, AppendGrows, LenProperties
<1> HIDE DEF u
<1>6. ASSUME NEW i \in DOMAIN u, i < Len(u) PROVE graph.nodes[u[i]].kind # "exit"
  BY <1>1, <1>5, <1>6 DEF Climbs
<1>7. ASSUME NEW i \in DOMAIN u, NEW j \in DOMAIN u, i < j
      PROVE  u[i] < u[j] \/ (j = Len(u) /\ graph.nodes[u[j]].kind = "exit")
  <2>1. i \in 1 .. Len(t) /\ u[i] = t[i]
    BY <1>1, <1>5, <1>7
  <2>2. CASE j = Len(t) + 1
    <3>1. t[i] <= t[Len(t)]
      BY <1>1, <1>2, <2>1 DEF Climbs
    <3>2. QED
      BY <1>1, <1>2, <1>4, <1>5, <2>1, <2>2, <3>1
  <2>3. CASE j \in 1 .. Len(t)
    BY <1>1, <1>2, <1>5, <1>7, <2>1, <2>3 DEF Climbs
  <2>4. QED
    BY <1>1, <1>5, <2>2, <2>3
<1>8. QED
  BY <1>6, <1>7 DEF Climbs, u

\* explore's first call stands at the entry alone,
THEOREM InitClimbInv == Init => ClimbInv
<1> SUFFICES ASSUME Init PROVE ClimbInv
  OBVIOUS
<1> DEFINE f == Call(graph.entry, <<graph.entry>>, InitialState(graph.params), {})
<1>1. stack = <<f>> /\ f.trail = <<graph.entry>>
  BY DEF Init, Call
<1> HIDE DEF f
<1>2. Climbs(graph, f.trail)
  <2>1. DOMAIN f.trail = {1} /\ Len(f.trail) = 1
    BY <1>1
  <2>2. QED
    BY <2>1 DEF Climbs
<1>3. DOMAIN stack = {1} /\ stack[1] = f
  BY <1>1
<1>4. QED
  BY <1>2, <1>3 DEF ClimbInv

\* and a call either climbs on or goes to the exit: the edges that would lead it back
\* are the ones skipped.
THEOREM NextClimbInv ==
  TypeOK /\ WalkInv /\ CallsAreAllowed /\ IsLaidOut(graph) /\ ClimbInv /\ [Next]_vars
    => ClimbInv'
<1> SUFFICES ASSUME TypeOK, WalkInv, CallsAreAllowed, IsLaidOut(graph), ClimbInv, [Next]_vars
             PROVE  ClimbInv'
  OBVIOUS
<1>1. ASSUME stack # <<>>, Pop, UNCHANGED graph
      PROVE  ClimbInv'
  BY <1>1, PopShape DEF ClimbInv
<1>2. ASSUME stack # <<>>, UNCHANGED graph, NEW frame \in Frames(graph), Replace(frame),
             frame.trail = Top.trail
      PROVE  ClimbInv'
  BY <1>2, TopType, ReplaceShape DEF ClimbInv, Top
<1>3. ASSUME Trying
      PROVE  stack # <<>> /\ RestOfEdges \in Frames(graph) /\ RestOfEdges.trail = Top.trail
  <2>1. stack # <<>>
    BY <1>3 DEF Trying, Looping
  <2>2. QED
    BY <1>3, <2>1, TopType, RestOfEdgesType DEF RestOfEdges, Frames
<1>4. CASE DepthReached
  BY <1>1, <1>4 DEF DepthReached, Calling
<1>5. CASE AlreadySeen
  BY <1>1, <1>5 DEF AlreadySeen, Calling
<1>6. CASE Visit
  <2>1. stack # <<>> /\ UNCHANGED graph /\ Stepped \in Frames(graph) /\ (Pop \/ Replace(Stepped))
    BY <1>6, VisitShape
  <2>2. Stepped.trail = Top.trail
    BY <2>1, TopType DEF Stepped, Frames
  <2>3. QED
    BY <1>1, <1>2, <2>1, <2>2
<1>7. CASE SkipBack
  BY <1>2, <1>3, <1>7 DEF SkipBack
<1>8. CASE PruneDead
  BY <1>2, <1>3, <1>8 DEF PruneDead
<1>9. CASE Follow
  <2>1. /\ Trying /\ stack # <<>> /\ UNCHANGED graph /\ Callee \in Frames(graph)
        /\ Len(stack) \in DOMAIN stack /\ Top.phase = "loop" /\ ~SkippedBack(Top, NextEdge)
        /\ Top.trail \in Trails(graph)
    BY <1>9, FollowShape, TopType DEF Follow, Trying, Looping
  <2>2. /\ IsWalk(graph, Top.trail) /\ Top.node = Top.trail[Len(Top.trail)]
        /\ NextEdge \in Range(graph.out[Top.node]) /\ Climbs(graph, Top.trail)
        /\ graph.nodes[Top.node].kind # "exit"
    BY <2>1, RestWalks DEF WalkInv, FrameWalks, CallsAreAllowed, ClimbInv, Top
  <2>3. Callee.trail = Append(Top.trail, NextEdge.dst) /\ NextEdge.dst \in DOMAIN graph.nodes
    BY <2>1 DEF Callee, Call, Frames
  <2>4. Climbs(graph, Callee.trail)
    BY <2>1, <2>2, <2>3, ClimbGrows DEF SkippedBack, TypeOK
  <2>5. ASSUME NEW i \in DOMAIN stack'
        PROVE  Climbs(graph, stack'[i].trail)
    <3>1. \/ stack'[i] = Callee
          \/ stack'[i] = RestOfEdges
          \/ i \in DOMAIN stack /\ stack'[i] = stack[i]
      <4>1. DOMAIN stack = 1 .. Len(stack) /\ Len(stack) \in Nat
        BY LenProperties DEF TypeOK
      <4>2. QED
        BY <1>9, <4>1, FollowShape
    <3>2. QED
      BY <1>3, <2>1, <2>2, <2>4, <3>1 DEF ClimbInv
  <2>6. QED
    BY <2>1, <2>5 DEF ClimbInv
<1>10. CASE Return
  BY <1>1, <1>10 DEF Return, Looping
<1>11. CASE UNCHANGED vars
  BY <1>11 DEF ClimbInv, vars
<1>12. QED
  BY <1>4, <1>5, <1>6, <1>7, <1>8, <1>9, <1>10, <1>11 DEF Next, Terminated

\* No path goes round a loop: the trail of a call never holds a node twice, for every
\* graph laid out as the builder does it, and for every depth.
THEOREM LoopsAreWalkedOnce == Spec => []NoNodeTwice
<1>1. Init => IsLaidOut(graph)
  BY LayoutAssumption DEF Init
<1>2. IsLaidOut(graph) /\ [Next]_vars => IsLaidOut(graph)'
  BY DEF Next, DepthReached, AlreadySeen, Visit, SkipBack, PruneDead, Follow, Return,
         Terminated, vars
<1>3. TypeOK /\ ClimbInv => NoNodeTwice
  <2> SUFFICES ASSUME TypeOK, ClimbInv, NEW k \in DOMAIN stack,
                      NEW i \in DOMAIN stack[k].trail, NEW j \in DOMAIN stack[k].trail,
                      stack[k].trail[i] = stack[k].trail[j], i # j
               PROVE  FALSE
    BY DEF NoNodeTwice, IsInjective
  <2> DEFINE t == stack[k].trail
  <2>1. t \in Seq(DOMAIN graph.nodes) /\ DOMAIN graph.nodes \subseteq Nat
    <3>1. stack[k] \in Frames(graph)
      BY ElementOfSeq DEF TypeOK
    <3>2. graph.nodes \in Seq(GraphNodes)
      BY DEF TypeOK, IsGraph
    <3>3. DOMAIN graph.nodes = 1 .. Len(graph.nodes) /\ Len(graph.nodes) \in Nat
      BY <3>2, LenProperties
    <3>4. QED
      BY <3>1, <3>3 DEF Frames, Trails
  <2>2. Climbs(graph, t)
    BY DEF ClimbInv
  <2> HIDE DEF t
  <2>3. /\ DOMAIN t = 1 .. Len(t) /\ Len(t) \in Nat
        /\ \A m \in DOMAIN t : t[m] \in Nat
    BY <2>1, LenProperties, ElementOfSeq
  <2>4. i \in DOMAIN t /\ j \in DOMAIN t /\ t[i] = t[j]
    BY DEF t
  <2>5. ASSUME NEW m \in DOMAIN t, NEW n \in DOMAIN t, m < n PROVE t[m] # t[n]
    BY <2>2, <2>3, <2>5 DEF Climbs
  <2>6. QED
    BY <2>3, <2>4, <2>5
<1>4. QED
  BY InitTypeOK, NextTypeOK, InitWalkInv, NextWalkInv, InitKeysMatch, NextKeysMatch,
     InitCallsAreAllowed, NextCallsAreAllowed, InitClimbInv, NextClimbInv, <1>1, <1>2, <1>3,
     PTL DEF Spec

----------------------------------------------------------------------------
(* Events are computed from the facts of their paths.                      *)

\* What holds of 1 and passes on to the next number holds up to N.
LEMMA UpTo ==
  ASSUME NEW N \in Nat, NEW T, 1 \in T, \A i \in 1 .. N - 1 : i \in T => i + 1 \in T
  PROVE  1 .. N \subseteq T
<1> DEFINE out == (1 .. N) \ T
<1> SUFFICES ASSUME out # {} PROVE FALSE
  OBVIOUS
<1>1. PICK m \in out : \A x \in out : m <= x
  <2>1. out \subseteq Nat
    OBVIOUS
  <2> HIDE DEF out
  <2>2. QED
    BY <2>1, LeastNatural
<1>2. m \in 1 .. N /\ m # 1 /\ m - 1 \notin out
  BY <1>1
<1>3. QED
  BY <1>1, <1>2

\* f gives the states in which a walk along t can enter each of its first n nodes.
Entering(g, t, n, f) ==
  f = [i \in 1 .. n |-> IF i = 1 THEN {InitialState(g.params)}
                        ELSE Onward(g, f[i - 1], t[i - 1], t[i])]

\* There is such an f,
LEMMA EnteringExists ==
  ASSUME NEW g, NEW t, NEW N \in Nat \ {0}
  PROVE  \E f : Entering(g, t, N, f)
<1> DEFINE T == {n \in 1 .. N : \E f : Entering(g, t, n, f)}
<1>1. 1 \in T
  <2> DEFINE f == [i \in 1 .. 1 |-> {InitialState(g.params)}]
  <2>1. Entering(g, t, 1, f)
    BY DEF Entering
  <2>2. QED
    BY <2>1
<1>2. ASSUME NEW n \in 1 .. N - 1, n \in T PROVE n + 1 \in T
  <2>1. PICK f : Entering(g, t, n, f)
    BY <1>2
  <2> DEFINE S(h, i) == IF i = 1 THEN {InitialState(g.params)}
                        ELSE Onward(g, h[i - 1], t[i - 1], t[i])
             h == [i \in 1 .. n + 1 |-> IF i = n + 1 THEN S(f, i) ELSE f[i]]
  <2>2. f = [i \in 1 .. n |-> S(f, i)]
    BY <2>1 DEF Entering
  <2>3. ASSUME NEW i \in 1 .. n PROVE h[i] = f[i]
    OBVIOUS
  <2>4. ASSUME NEW i \in 1 .. n + 1 PROVE h[i] = S(h, i)
    <3>1. i = 1 \/ (i - 1 \in 1 .. n /\ h[i - 1] = f[i - 1])
      BY <2>3
    <3>2. S(h, i) = S(f, i)
      BY <3>1
    <3>3. i = n + 1 \/ (i \in 1 .. n /\ f[i] = S(f, i))
      <4>1. i = n + 1 \/ i \in 1 .. n
        OBVIOUS
      <4>2. QED
        BY <2>2, <4>1
    <3>4. QED
      BY <3>2, <3>3
  <2>5. h = [i \in 1 .. n + 1 |-> S(h, i)]
    <3>1. h = [i \in 1 .. n + 1 |-> h[i]]
      OBVIOUS
    <3> HIDE DEF h
    <3>2. QED
      BY <2>4, <3>1
  <2>6. Entering(g, t, n + 1, h)
    BY <2>5 DEF Entering
  <2>7. QED
    BY <2>6
<1> HIDE DEF T
<1>3. 1 .. N \subseteq T
  BY <1>1, <1>2, UpTo
<1>4. QED
  BY <1>3 DEF T

\* and it is the same for trails as far as they agree.
LEMMA EnteringAgrees ==
  ASSUME NEW g, NEW t, NEW u, NEW m \in Nat, NEW n \in Nat, NEW k \in 1 .. m, k <= n,
         NEW f, NEW h, Entering(g, t, m, f), Entering(g, u, n, h),
         \A i \in 1 .. k : t[i] = u[i]
  PROVE  f[k] = h[k]
<1> DEFINE T == {i \in 1 .. k : f[i] = h[i]}
<1>0. /\ \A i \in 1 .. m : f[i] = IF i = 1 THEN {InitialState(g.params)}
                                 ELSE Onward(g, f[i - 1], t[i - 1], t[i])
      /\ \A i \in 1 .. n : h[i] = IF i = 1 THEN {InitialState(g.params)}
                                 ELSE Onward(g, h[i - 1], u[i - 1], u[i])
  BY DEF Entering
<1>1. 1 \in T
  BY <1>0
<1>2. ASSUME NEW i \in 1 .. k - 1, i \in T PROVE i + 1 \in T
  <2>1. i + 1 \in 1 .. m /\ i + 1 \in 1 .. n /\ i + 1 # 1 /\ (i + 1) - 1 = i /\ i \in 1 .. k
        /\ i + 1 \in 1 .. k
    OBVIOUS
  <2>2. f[i + 1] = Onward(g, f[i], t[i], t[i + 1]) /\ h[i + 1] = Onward(g, h[i], u[i], u[i + 1])
    BY <1>0, <2>1
  <2>3. f[i + 1] = h[i + 1]
    BY <1>2, <2>1, <2>2
  <2>4. QED
    BY <2>1, <2>3
<1> HIDE DEF T
<1>3. 1 .. k \subseteq T
  BY <1>1, <1>2, UpTo
<1>4. QED
  BY <1>3 DEF T

\* StatesAlong is the last of them.
LEMMA AlongIsEntering ==
  ASSUME NEW g, NEW t \in Seq(DOMAIN g.nodes), t # <<>>
  PROVE  \E f : Entering(g, t, Len(t), f) /\ StatesAlong(g, t) = f[Len(t)]
<1>1. Len(t) \in Nat \ {0} /\ DOMAIN t = 1 .. Len(t)
  BY LenProperties, EmptySeq
<1> DEFINE F == CHOOSE f : f = [i \in DOMAIN t |-> IF i = 1 THEN {InitialState(g.params)}
                                                  ELSE Onward(g, f[i - 1], t[i - 1], t[i])]
<1>2. StatesAlong(g, t) = F[Len(t)]
  BY DEF StatesAlong
<1>3. \E f : f = [i \in DOMAIN t |-> IF i = 1 THEN {InitialState(g.params)}
                                     ELSE Onward(g, f[i - 1], t[i - 1], t[i])]
  <2>1. \E f : Entering(g, t, Len(t), f)
    BY <1>1, EnteringExists
  <2>2. QED
    BY <1>1, <2>1 DEF Entering
<1>4. F = [i \in DOMAIN t |-> IF i = 1 THEN {InitialState(g.params)}
                              ELSE Onward(g, F[i - 1], t[i - 1], t[i])]
  BY <1>3
<1> HIDE DEF F
<1>5. Entering(g, t, Len(t), F)
  BY <1>1, <1>4 DEF Entering
<1>6. QED
  BY <1>2, <1>5

\* The entry is entered in the initial state,
LEMMA AlongEntry ==
  ASSUME NEW g, g.entry \in DOMAIN g.nodes
  PROVE  StatesAlong(g, <<g.entry>>) = {InitialState(g.params)}
<1> DEFINE t == <<g.entry>>
<1>1. t \in Seq(DOMAIN g.nodes) /\ t # <<>> /\ Len(t) = 1
  <2> DEFINE S == DOMAIN g.nodes
  <2>1. g.entry \in S
    OBVIOUS
  <2> HIDE DEF S
  <2>2. t \in Seq(S) /\ t # <<>> /\ Len(t) = 1
    BY <2>1
  <2>3. QED
    BY <2>2 DEF S
<1> HIDE DEF t
<1>2. PICK f : Entering(g, t, 1, f) /\ StatesAlong(g, t) = f[1]
  BY <1>1, AlongIsEntering
<1>3. f[1] = {InitialState(g.params)}
  BY <1>2 DEF Entering
<1>4. QED
  BY <1>2, <1>3 DEF t

\* and a node in the states behind the edges to it.
LEMMA AlongOnward ==
  ASSUME NEW g, NEW t \in Seq(DOMAIN g.nodes), t # <<>>, NEW d \in DOMAIN g.nodes
  PROVE  StatesAlong(g, Append(t, d)) = Onward(g, StatesAlong(g, t), t[Len(t)], d)
<1> DEFINE u == Append(t, d)
           n == Len(t)
<1>1. /\ u \in Seq(DOMAIN g.nodes) /\ Len(u) = n + 1 /\ u # <<>> /\ u[n + 1] = d
      /\ \A i \in 1 .. n : u[i] = t[i]
      /\ n \in Nat \ {0}
  <2> DEFINE S == DOMAIN g.nodes
  <2>1. t \in Seq(S) /\ d \in S
    OBVIOUS
  <2> HIDE DEF S
  <2>2. /\ u \in Seq(S) /\ Len(u) = n + 1 /\ u[n + 1] = d
        /\ \A i \in 1 .. n : u[i] = t[i]
        /\ n \in Nat \ {0}
    BY <2>1, AppendGrows, EmptySeq
  <2>3. QED
    BY <2>2, EmptySeq DEF S
<1> HIDE DEF u, n
<1>2. PICK f : Entering(g, t, n, f) /\ StatesAlong(g, t) = f[n]
  BY AlongIsEntering DEF n
<1>3. PICK h : Entering(g, u, n + 1, h) /\ StatesAlong(g, u) = h[n + 1]
  BY <1>1, AlongIsEntering
<1>4. h[n] = f[n]
  <2>1. n \in 1 .. n + 1 /\ n <= n /\ n + 1 \in Nat /\ n \in Nat
    BY <1>1
  <2>2. QED
    BY <1>1, <1>2, <1>3, <2>1, EnteringAgrees
<1>5. h[n + 1] = Onward(g, h[n], u[n], u[n + 1])
  <2>1. n + 1 \in 1 .. n + 1 /\ n + 1 # 1 /\ (n + 1) - 1 = n
    BY <1>1
  <2>2. QED
    BY <1>3, <2>1 DEF Entering
<1>6. u[n] = t[n] /\ u[n + 1] = d
  BY <1>1
<1>7. QED
  BY <1>2, <1>3, <1>4, <1>5, <1>6 DEF u, n

\* The states along a trail, and what is told of them, are those of the graph alone.
LEMMA ToldStays ==
  ASSUME UNCHANGED graph
  PROVE  /\ \A e : Told(e)' <=> Told(e)
         /\ \A f : Entered(f)' <=> Entered(f)
<1>1. ASSUME NEW e PROVE Told(e)' <=> Told(e)
  BY DEF Told
<1>2. QED
  BY <1>1 DEF Entered

\* The innermost call stands at the last node of its trail and entered it in the state of
\* its key.
LEMMA TopEntered ==
  ASSUME TypeOK, WalkInv, KeysMatch, EventInv, stack # <<>>
  PROVE  /\ Top.trail \in Seq(DOMAIN graph.nodes) /\ Top.trail # <<>>
         /\ Top.node = Top.trail[Len(Top.trail)]
         /\ Top.key[1] = Top.node /\ Top.key[2] \in StatesAlong(graph, Top.trail)
         /\ Top.phase = "call" => Top.key[2] = Top.state
         /\ Top.phase = "loop" => Top.state = ApplyStatement(Node.update, Top.key[2])
         /\ \A e \in Top.unwraps : Told(e)
         /\ Entered(Top)
<1>1. Len(stack) \in DOMAIN stack /\ Top = stack[Len(stack)] /\ Top.trail \in Trails(graph)
  BY TopType DEF Top
<1>2. FrameWalks(Top, Len(stack)) /\ Entered(Top)
  BY <1>1 DEF WalkInv, EventInv
<1>3. Top.trail # <<>> /\ Top.node = Top.trail[Len(Top.trail)]
  BY <1>2 DEF FrameWalks, IsWalk
<1>4. /\ Top.key[1] = Top.node
      /\ Top.phase = "call" => Top.key[2] = Top.state
      /\ Top.phase = "loop" => Top.state = ApplyStatement(Node.update, Top.key[2])
  BY <1>1 DEF KeysMatch, Node
<1>5. QED
  BY <1>1, <1>2, <1>3, <1>4 DEF Entered, Trails

\* What a step scans and what it unwraps is told in the state it enters.
LEMMA StepTells ==
  ASSUME TypeOK, WalkInv, KeysMatch, EventInv, Calling
  PROVE  /\ \A e \in Scanned(Node, Top.state, Top.trail) : Told(e)
         /\ \A e \in Unwrapped : Told(e)
<1> DEFINE s == Top.state
           t == Top.trail
<1>1. stack # <<>> /\ Top.phase = "call"
  BY DEF Calling
<1>2. /\ Node = graph.nodes[t[Len(t)]] /\ s \in StatesAlong(graph, t)
      /\ \A e \in Top.unwraps : Told(e)
      /\ Node \in GraphNodes
  BY <1>1, TopEntered, TopType DEF Node
<1> HIDE DEF s, t
<1>3. \A x \in Node.roots \cup Node.scan : x.k \in {"unwrap", "subscript", "cast", "try", "sink"}
  BY <1>2 DEF GraphNodes, Sites
<1>4. ASSUME NEW e \in Scanned(Node, s, t) PROVE Told(e)
  <2>1. PICK x \in Node.roots \cup Node.scan : Reported(x, s) /\ e = ScanEvent(x, s, t)
    BY DEF Scanned
  <2>2. e.trail = t
    BY <2>1, ScanEventTrail
  <2>3. e.k = x.k
    BY <1>3, <2>1 DEF ScanEvent
  <2>4. e.k # "dead" /\ e.k # "unwrap"
    BY <1>3, <2>1, <2>3 DEF Reported
  <2>5. Tells(graph, e, s)
    BY <1>2, <2>1, <2>2, <2>4 DEF Tells
  <2>6. QED
    BY <1>2, <2>2, <2>5 DEF Told
<1>5. ASSUME NEW e \in UnwrapEvents(Node, s, t) PROVE Told(e)
  <2>1. PICK x \in Node.roots : x.k = "unwrap" /\ e = UnwrapEvent(x, s, t)
    BY DEF UnwrapEvents
  <2>2. e.trail = t /\ e.k = "unwrap"
    BY <2>1 DEF UnwrapEvent
  <2>3. Tells(graph, e, s)
    BY <1>2, <2>1, <2>2 DEF Tells
  <2>4. QED
    BY <1>2, <2>2, <2>3 DEF Told
<1>6. QED
  BY <1>2, <1>4, <1>5 DEF Unwrapped, s, t

\* An edge that is pruned contradicts the verdict of the state it would leave.
LEMMA PruneTells ==
  ASSUME TypeOK, WalkInv, KeysMatch, EventInv, PruneDead,
         graph.nodes[NextEdge.dst].label # "if-join"
  PROVE  Told(DeadBranchEvent(Top.node, NextEdge.label, TopVerdict, Top.trail))
<1> DEFINE e == DeadBranchEvent(Top.node, NextEdge.label, TopVerdict, Top.trail)
<1>1. /\ Trying /\ stack # <<>> /\ Top.phase = "loop"
      /\ Impossible(Node, NextEdge.label, TopVerdict)
  BY DEF PruneDead, Trying, Looping
<1>2. /\ Node = graph.nodes[Top.trail[Len(Top.trail)]]
      /\ Top.key[2] \in StatesAlong(graph, Top.trail)
      /\ TopVerdict = Verdict(Node, ApplyStatement(Node.update, Top.key[2]))
  BY <1>1, TopEntered DEF Node, TopVerdict
<1>3. NextEdge \in Range(graph.out[Top.node])
  BY <1>1, RestWalks
<1>4. /\ e.k = "dead" /\ e.node = Top.node /\ e.label = NextEdge.label
      /\ e.verdict = TopVerdict /\ e.trail = Top.trail
  BY DEF DeadBranchEvent
<1> HIDE DEF e
<1>5. Tells(graph, e, Top.key[2])
  BY <1>1, <1>2, <1>3, <1>4 DEF Tells
<1>6. QED
  BY <1>2, <1>4, <1>5 DEF Told, e

\* The call Follow makes enters its node in a state its trail leads to.
LEMMA CalleeEntered ==
  ASSUME TypeOK, WalkInv, KeysMatch, EventInv, Follow
  PROVE  Entered(Callee)
<1>1. /\ Trying /\ stack # <<>> /\ Top.phase = "loop" /\ Callee \in Frames(graph)
      /\ ~Impossible(Node, NextEdge.label, TopVerdict)
  BY FollowShape DEF Follow, Trying, Looping
<1>2. NextEdge \in Range(graph.out[Top.node])
  BY <1>1, RestWalks
<1>3. /\ Top.trail \in Seq(DOMAIN graph.nodes) /\ Top.trail # <<>>
      /\ Top.node = Top.trail[Len(Top.trail)] /\ Top.key[2] \in StatesAlong(graph, Top.trail)
      /\ Top.state = ApplyStatement(Node.update, Top.key[2])
      /\ \A e \in Top.unwraps : Told(e)
  BY <1>1, TopEntered
<1>4. /\ Callee.trail = Append(Top.trail, NextEdge.dst) /\ Callee.unwraps = Top.unwraps
      /\ Callee.key = <<NextEdge.dst, Assume(Node, NextEdge.label, Top.state)>>
      /\ Callee.node = NextEdge.dst
  BY DEF Callee, Call, Key
<1>5. NextEdge.dst \in DOMAIN graph.nodes
  BY <1>1, <1>4 DEF Frames
<1>6. Callee.key[2] \in Onward(graph, StatesAlong(graph, Top.trail), Top.node, NextEdge.dst)
  <2> DEFINE y == <<NextEdge, Top.key[2]>>
  <2>1. y \in Range(graph.out[Top.node]) \X StatesAlong(graph, Top.trail)
        /\ y[1] = NextEdge /\ y[2] = Top.key[2]
    BY <1>2, <1>3
  <2>2. Callee.key[2] = Assume(Node, NextEdge.label, Top.state)
    BY <1>4
  <2> HIDE DEF y
  <2>3. QED
    BY <1>1, <1>3, <2>1, <2>2 DEF Onward, TopVerdict, Node
<1>7. Callee.key[2] \in StatesAlong(graph, Callee.trail)
  BY <1>3, <1>4, <1>5, <1>6, AlongOnward
<1>8. QED
  BY <1>3, <1>4, <1>7 DEF Entered

\* What the recorded paths and the events hold after a step.
LEMMA AllEventsStep ==
  ASSUME TypeOK, NEW unwraps, Record(Top, unwraps) \/ (UNCHANGED paths /\ unwraps = {})
  PROVE  UNION {paths'[i].unwraps : i \in DOMAIN paths'} \subseteq
           (UNION {paths[i].unwraps : i \in DOMAIN paths}) \cup unwraps
<1>1. CASE Record(Top, unwraps)
  <2>1. /\ DOMAIN paths' = 1 .. Len(paths) + 1 /\ DOMAIN paths = 1 .. Len(paths)
        /\ Len(paths) \in Nat
        /\ paths'[Len(paths) + 1] = [nodes |-> Top.trail, unwraps |-> unwraps]
        /\ \A i \in 1 .. Len(paths) : paths'[i] = paths[i]
    BY <1>1, RecordShape
  <2>2. ASSUME NEW i \in DOMAIN paths'
        PROVE  paths'[i].unwraps \subseteq
                 (UNION {paths[j].unwraps : j \in DOMAIN paths}) \cup unwraps
    <3>1. CASE i = Len(paths) + 1
      <4>1. paths'[i].unwraps = unwraps
        BY <2>1, <3>1
      <4>2. QED
        BY <4>1
    <3>2. CASE i \in DOMAIN paths
      BY <2>1, <3>2
    <3>3. QED
      BY <2>1, <3>1, <3>2
  <2>3. QED
    BY <2>2
<1>2. QED
  BY <1>1

\* explore's first call enters the entry in the initial state,
THEOREM InitEventInv == Init => EventInv
<1> SUFFICES ASSUME Init PROVE EventInv
  OBVIOUS
<1> DEFINE f == Call(graph.entry, <<graph.entry>>, InitialState(graph.params), {})
<1>1. /\ f.trail = <<graph.entry>> /\ f.unwraps = {}
      /\ f.key = <<graph.entry, InitialState(graph.params)>>
  BY DEF Call, Key
<1>2. stack = <<f>> /\ paths = <<>> /\ events = {}
  BY DEF Init
<1> HIDE DEF f
<1>3. graph.entry \in DOMAIN graph.nodes
  BY ExplorerAssumption DEF Init, IsGraph
<1>4. Entered(f)
  BY <1>1, <1>3, AlongEntry DEF Entered
<1>5. DOMAIN stack = {1} /\ stack[1] = f /\ DOMAIN paths = {}
  BY <1>2
<1>6. QED
  BY <1>2, <1>4, <1>5 DEF EventInv, AllEvents

\* and every step computes what it reports from the states of its own trail.
THEOREM NextEventInv ==
  TypeOK /\ WalkInv /\ KeysMatch /\ EventInv /\ [Next]_vars => EventInv'
<1> SUFFICES ASSUME TypeOK, WalkInv, KeysMatch, EventInv, [Next]_vars PROVE EventInv'
  OBVIOUS
<1>0. /\ UNCHANGED graph
      /\ \A e : Told(e)' <=> Told(e)
      /\ \A f : Entered(f)' <=> Entered(f)
  <2>1. UNCHANGED graph
    BY DEF Next, DepthReached, AlreadySeen, Visit, SkipBack, PruneDead, Follow, Return,
           Terminated, vars
  <2>2. QED
    BY <2>1, ToldStays
<1>1. ASSUME \A i \in DOMAIN stack' : Entered(stack'[i]), \A e \in AllEvents' : Told(e)
      PROVE  EventInv'
  <2>1. ASSUME NEW i \in DOMAIN stack' PROVE Entered(stack[i])'
    <3>1. Entered(stack'[i]) /\ (Entered(stack'[i]) <=> Entered(stack[i])')
      BY <1>0, <1>1
    <3>2. QED
      BY <3>1
  <2>2. ASSUME NEW e \in AllEvents' PROVE Told(e)'
    BY <1>0, <1>1
  <2>3. QED
    BY <2>1, <2>2 DEF EventInv
<1>2. ASSUME stack # <<>>, Pop PROVE \A i \in DOMAIN stack' : Entered(stack'[i])
  BY <1>2, PopShape DEF EventInv
<1>3. ASSUME stack # <<>>, NEW frame \in Frames(graph), Replace(frame), Entered(frame)
      PROVE  \A i \in DOMAIN stack' : Entered(stack'[i])
  BY <1>3, ReplaceShape DEF EventInv
<1>4. ASSUME NEW unwraps, Record(Top, unwraps) \/ (UNCHANGED paths /\ unwraps = {}),
             NEW seenNow, events' \subseteq events \cup seenNow,
             \A e \in unwraps \cup seenNow : Told(e)
      PROVE  \A e \in AllEvents' : Told(e)
  <2>1. UNION {paths'[i].unwraps : i \in DOMAIN paths'} \subseteq
           (UNION {paths[i].unwraps : i \in DOMAIN paths}) \cup unwraps
    BY <1>4, AllEventsStep
  <2>2. AllEvents' \subseteq AllEvents \cup unwraps \cup seenNow
    BY <1>4, <2>1 DEF AllEvents
  <2>3. QED
    BY <1>4, <2>2 DEF EventInv
<1>5. ASSUME UNCHANGED <<paths, events>> PROVE \A e \in AllEvents' : Told(e)
  BY <1>5 DEF AllEvents, EventInv
<1>6. ASSUME Trying
      PROVE  stack # <<>> /\ RestOfEdges \in Frames(graph) /\ Entered(RestOfEdges)
  <2>1. stack # <<>>
    BY <1>6 DEF Trying, Looping
  <2>2. /\ RestOfEdges.trail = Top.trail /\ RestOfEdges.key = Top.key
        /\ RestOfEdges.unwraps = Top.unwraps
    BY <2>1, TopType DEF RestOfEdges, Frames
  <2>3. QED
    BY <1>6, <2>1, <2>2, RestOfEdgesType, TopEntered DEF Entered
<1>7. CASE DepthReached
  <2>1. /\ stack # <<>> /\ Record(Top, Top.unwraps) /\ Pop /\ UNCHANGED events
        /\ \A e \in Top.unwraps \cup {} : Told(e)
    BY <1>7, TopEntered DEF DepthReached, Calling
  <2>2. \A e \in AllEvents' : Told(e)
    BY <1>4, <2>1
  <2>3. QED
    BY <1>1, <1>2, <2>1, <2>2
<1>8. CASE AlreadySeen
  BY <1>1, <1>2, <1>5, <1>8 DEF AlreadySeen, Calling
<1>9. CASE Visit
  <2>1. /\ Calling /\ stack # <<>> /\ Stepped \in Frames(graph)
        /\ events' = events \cup Scanned(Node, Top.state, Top.trail)
        /\ \/ Record(Top, Unwrapped) /\ Pop
           \/ Replace(Stepped) /\ UNCHANGED paths
    BY <1>9, VisitShape
  <2>2. /\ \A e \in Scanned(Node, Top.state, Top.trail) : Told(e)
        /\ \A e \in Unwrapped : Told(e)
    BY <2>1, StepTells
  <2>3. CASE Record(Top, Unwrapped) /\ Pop
    <3>1. \A e \in AllEvents' : Told(e)
      BY <1>4, <2>1, <2>2, <2>3
    <3>2. QED
      BY <1>1, <1>2, <2>1, <2>3, <3>1
  <2>4. CASE Replace(Stepped) /\ UNCHANGED paths
    <3>1. /\ Stepped.trail = Top.trail /\ Stepped.key = Top.key /\ Stepped.unwraps = Unwrapped
      BY <2>1, TopType DEF Stepped, Frames
    <3>2. Entered(Stepped)
      BY <2>1, <2>2, <3>1, TopEntered DEF Entered
    <3>3. \A e \in {} \cup Scanned(Node, Top.state, Top.trail) : Told(e)
      BY <2>2
    <3>4. \A e \in AllEvents' : Told(e)
      BY <1>4, <2>1, <2>4, <3>3
    <3>5. QED
      BY <1>1, <1>3, <2>1, <2>4, <3>2, <3>4
  <2>5. QED
    BY <2>1, <2>3, <2>4
<1>10. CASE SkipBack
  <2>1. Trying /\ Replace(RestOfEdges) /\ UNCHANGED <<paths, events>>
    BY <1>10 DEF SkipBack
  <2>2. QED
    BY <1>1, <1>3, <1>5, <1>6, <2>1
<1>11. CASE PruneDead
  <2> DEFINE dead == DeadBranchEvent(Top.node, NextEdge.label, TopVerdict, Top.trail)
             told == IF graph.nodes[NextEdge.dst].label = "if-join" THEN {} ELSE {dead}
  <2>1. Trying /\ Replace(RestOfEdges) /\ UNCHANGED paths /\ events' \subseteq events \cup told
    BY <1>11 DEF PruneDead
  <2>2. \A e \in {} \cup told : Told(e)
    BY <1>11, PruneTells
  <2> HIDE DEF told
  <2>3. \A e \in AllEvents' : Told(e)
    BY <1>4, <2>1, <2>2
  <2>4. QED
    BY <1>1, <1>3, <1>6, <2>1, <2>3
<1>12. CASE Follow
  <2>1. Trying /\ UNCHANGED <<paths, events>>
    BY <1>12, FollowShape
  <2>2. ASSUME NEW i \in DOMAIN stack'
        PROVE  Entered(stack'[i])
    <3>1. \/ stack'[i] = Callee
          \/ stack'[i] = RestOfEdges
          \/ i \in DOMAIN stack /\ stack'[i] = stack[i]
      <4>1. DOMAIN stack = 1 .. Len(stack) /\ Len(stack) \in Nat
        BY LenProperties DEF TypeOK
      <4>2. QED
        BY <1>12, <4>1, FollowShape
    <3>2. QED
      BY <1>6, <1>12, <2>1, <3>1, CalleeEntered DEF EventInv
  <2>3. QED
    BY <1>1, <1>5, <2>1, <2>2
<1>13. CASE Return
  BY <1>1, <1>2, <1>5, <1>13 DEF Return, Looping
<1>14. CASE UNCHANGED vars
  <2>1. UNCHANGED <<stack, paths, events>>
    BY <1>14 DEF vars
  <2>2. QED
    BY <1>1, <1>5, <2>1 DEF EventInv
<1>15. QED
  BY <1>7, <1>8, <1>9, <1>10, <1>11, <1>12, <1>13, <1>14 DEF Next, Terminated

\* What an event or a recorded unwrap says was computed from the facts of the very path it
\* quotes, for every function, graph and depth: nothing leaks from a sibling branch.
THEOREM EventsStayOnTheirPath == Spec => []EventsFollowTheirPath
<1>1. EventInv => EventsFollowTheirPath
  BY DEF EventInv, EventsFollowTheirPath
<1>2. QED
  BY InitTypeOK, NextTypeOK, InitWalkInv, NextWalkInv, InitKeysMatch, NextKeysMatch,
     InitEventInv, NextEventInv, <1>1, PTL DEF Spec

----------------------------------------------------------------------------
(* Every step of the walk descends.                                        *)

\* The measures the walk can have.
Measures == [1 .. MaxDepth -> Nat]

\* What is to do is a measure, in every state.
LEMMA ToDoType == TypeOK => ToDo \in Measures
<1> SUFFICES ASSUME TypeOK, NEW i \in 1 .. MaxDepth, ~(i > Len(stack))
             PROVE  Left(stack[i]) \in Nat
  BY DEF ToDo, Measures
<1>1. stack \in Seq(Frames(graph)) /\ Len(stack) \in Nat /\ DOMAIN stack = 1 .. Len(stack)
  BY LenProperties DEF TypeOK
<1>2. i \in DOMAIN stack
  BY <1>1, ExplorerAssumption
<1>3. stack[i] \in Frames(graph)
  BY <1>1, <1>2, ElementOfSeq
<1>4. Len(stack[i].edges) \in Nat
  BY <1>3, LenProperties DEF Frames
<1>5. Len(graph.out[stack[i].node]) \in Nat
  BY <1>3, LenProperties DEF Frames, TypeOK, IsGraph
<1>6. QED
  BY <1>4, <1>5 DEF Left

\* What is to do after a step.
LEMMA ToDoAfter ==
  ASSUME UNCHANGED graph, NEW i \in 1 .. MaxDepth
  PROVE  ToDo'[i] = IF i > Len(stack') THEN 0 ELSE Left(stack'[i])
  BY DEF ToDo, Left

\* A step that leaves the calls under the innermost one alone descends when it leaves
\* the innermost one less to do.
LEMMA LessAtTheTop ==
  ASSUME TypeOK, WalkInv, stack # <<>>, UNCHANGED graph, Len(stack') \in Nat,
         Len(stack') >= Len(stack) - 1,
         \A i \in 1 .. Len(stack) - 1 : stack'[i] = stack[i],
         (IF Len(stack') < Len(stack) THEN 0 ELSE Left(stack'[Len(stack)])) < Left(Top)
  PROVE  LessToDo(ToDo', ToDo)
<1> DEFINE n == Len(stack)
<1>1. n \in 1 .. MaxDepth
  BY TopType, ExplorerAssumption DEF WalkInv, FrameWalks
<1>2. ToDo'[n] < ToDo[n]
  <2>1. ToDo'[n] = IF n > Len(stack') THEN 0 ELSE Left(stack'[n])
    BY <1>1, ToDoAfter
  <2>2. ToDo[n] = Left(Top)
    BY <1>1 DEF ToDo, Top
  <2>3. QED
    BY <1>1, <2>1, <2>2
<1>3. ASSUME NEW i \in 1 .. n - 1 PROVE ToDo'[i] = ToDo[i]
  <2>1. i \in 1 .. MaxDepth /\ ~(i > Len(stack)) /\ ~(i > Len(stack')) /\ stack'[i] = stack[i]
    BY <1>1, ExplorerAssumption
  <2>2. ToDo'[i] = Left(stack[i])
    BY <2>1, ToDoAfter
  <2>3. QED
    BY <2>1, <2>2 DEF ToDo
<1>4. QED
  BY <1>1, <1>2, <1>3 DEF LessToDo

\* Returning from a call leaves nothing to do in it.
LEMMA PopDescends ==
  ASSUME TypeOK, WalkInv, stack # <<>>, Pop, UNCHANGED graph
  PROVE  LessToDo(ToDo', ToDo)
<1>1. /\ Len(stack') = Len(stack) - 1 /\ Len(stack) \in Nat \ {0}
      /\ \A i \in 1 .. Len(stack) - 1 : stack'[i] = stack[i]
  BY PopShape, TopType
<1>2. Len(Top.edges) \in Nat /\ Len(graph.out[Top.node]) \in Nat
  BY TopType, LenProperties
<1>3. 0 < Left(Top)
  BY <1>2 DEF Left
<1>4. QED
  BY <1>1, <1>3, LessAtTheTop

\* Dropping an edge leaves one less to try, whether or not the edge is followed.
LEMMA RestDescends ==
  ASSUME TypeOK, WalkInv, Trying, UNCHANGED graph, Len(stack') \in Nat,
         Len(stack') >= Len(stack),
         \A i \in 1 .. Len(stack) : stack'[i] = IF i = Len(stack) THEN RestOfEdges ELSE stack[i]
  PROVE  LessToDo(ToDo', ToDo)
<1>1. stack # <<>> /\ Top.edges # <<>> /\ Top.phase = "loop"
  BY DEF Trying, Looping
<1>2. Len(stack) \in Nat \ {0}
  BY <1>1, TopType
<1>3. Len(Tail(Top.edges)) = Len(Top.edges) - 1 /\ Len(Top.edges) \in Nat
  BY <1>1, TopType, HeadTailProperties, LenProperties
<1>4. RestOfEdges.phase = "loop" /\ RestOfEdges.edges = Tail(Top.edges)
  BY <1>1, TopType DEF RestOfEdges, Frames
<1>5. stack'[Len(stack)] = RestOfEdges /\ \A i \in 1 .. Len(stack) - 1 : stack'[i] = stack[i]
  BY <1>2
<1>6. Left(RestOfEdges) < Left(Top)
  BY <1>1, <1>3, <1>4 DEF Left
<1>7. QED
  BY <1>1, <1>2, <1>5, <1>6, LessAtTheTop

\* So every step descends.
LEMMA StepDescends ==
  ASSUME TypeOK, WalkInv, [Next]_vars
  PROVE  [LessToDo(ToDo', ToDo)]_vars
<1> SUFFICES ASSUME Next PROVE LessToDo(ToDo', ToDo) \/ UNCHANGED vars
  OBVIOUS
<1>1. CASE DepthReached
  BY <1>1, PopDescends DEF DepthReached, Calling
<1>2. CASE AlreadySeen
  BY <1>2, PopDescends DEF AlreadySeen, Calling
<1>3. CASE Visit
  <2>1. stack # <<>> /\ UNCHANGED graph /\ Stepped \in Frames(graph)
    BY <1>3, VisitShape
  <2>2. CASE Pop
    BY <2>1, <2>2, PopDescends
  <2>3. CASE Replace(Stepped)
    <3>1. /\ Len(stack) \in Nat \ {0} /\ Len(stack') = Len(stack)
          /\ stack'[Len(stack)] = Stepped
          /\ \A i \in 1 .. Len(stack) - 1 : stack'[i] = stack[i]
      <4>1. DOMAIN stack = 1 .. Len(stack)
        BY LenProperties DEF TypeOK
      <4>2. QED
        BY <2>1, <2>3, <4>1, ReplaceShape, TopType
    <3>2. Stepped.phase = "loop" /\ Stepped.edges = graph.out[Top.node]
      BY <2>1, TopType DEF Stepped, Frames
    <3>3. Len(graph.out[Top.node]) \in Nat
      BY <2>1, TopType, LenProperties
    <3>4. Left(Stepped) < Left(Top)
      BY <1>3, <3>2, <3>3 DEF Left, Visit, Calling
    <3>5. QED
      BY <2>1, <3>1, <3>4, LessAtTheTop
  <2>4. QED
    BY <1>3, <2>2, <2>3, VisitShape
<1>4. ASSUME Trying, Replace(RestOfEdges), UNCHANGED graph PROVE LessToDo(ToDo', ToDo)
  <2>1. stack # <<>> /\ RestOfEdges \in Frames(graph)
    BY <1>4, RestOfEdgesType DEF Trying, Looping
  <2>2. Len(stack) \in Nat /\ DOMAIN stack = 1 .. Len(stack)
    BY LenProperties DEF TypeOK
  <2>3. Len(stack') = Len(stack)
    BY <1>4, <2>1, ReplaceShape
  <2>4. \A i \in DOMAIN stack : stack'[i] = IF i = Len(stack) THEN RestOfEdges ELSE stack[i]
    BY <1>4, <2>1, ReplaceShape
  <2>5. \A i \in 1 .. Len(stack) :
          stack'[i] = IF i = Len(stack) THEN RestOfEdges ELSE stack[i]
    BY <2>2, <2>4
  <2>6. Len(stack') \in Nat /\ Len(stack') >= Len(stack)
    BY <2>2, <2>3
  <2>7. Trying /\ UNCHANGED graph
    BY <1>4
  <2>8. QED
    BY <2>5, <2>6, <2>7, RestDescends
<1>5. CASE SkipBack
  BY <1>4, <1>5 DEF SkipBack
<1>6. CASE PruneDead
  BY <1>4, <1>6 DEF PruneDead
<1>7. CASE Follow
  <2>1. Len(stack) \in Nat
    BY LenProperties DEF TypeOK
  <2>2. /\ Len(stack') = Len(stack) + 1 /\ Trying /\ UNCHANGED graph
        /\ \A i \in 1 .. Len(stack) + 1 :
             stack'[i] = IF i = Len(stack) + 1 THEN Callee
                         ELSE IF i = Len(stack) THEN RestOfEdges ELSE stack[i]
    BY <1>7, FollowShape
  <2>3. \A i \in 1 .. Len(stack) : stack'[i] = IF i = Len(stack) THEN RestOfEdges ELSE stack[i]
    BY <2>1, <2>2
  <2>4. QED
    BY <2>1, <2>2, <2>3, RestDescends
<1>8. CASE Return
  BY <1>8, PopDescends DEF Return, Looping
<1>9. CASE Terminated
  BY <1>9 DEF Terminated
<1>10. QED
  BY <1>1, <1>2, <1>3, <1>5, <1>6, <1>7, <1>8, <1>9 DEF Next

\* Each recursive step of explore uses up something no later one gives back.
THEOREM WalkDescends == Spec => EveryStepDescends
<1>1. TypeOK /\ WalkInv /\ [Next]_vars => [LessToDo(ToDo', ToDo)]_vars
  BY StepDescends
<1>2. Init => TypeOK /\ WalkInv
  BY InitTypeOK, InitWalkInv
<1>3. TypeOK /\ WalkInv /\ [Next]_vars => TypeOK' /\ WalkInv'
  BY NextTypeOK, NextWalkInv
<1>4. QED
  BY <1>1, <1>2, <1>3, PTL DEF Spec, EveryStepDescends

\* And what is to do cannot descend for ever: no infinite run of proper steps exists,
\* whatever the graph and however deep a trail may be.
THEOREM DescentEnds ==
  ~ \E w \in [Nat -> Measures] : \A n \in Nat : LessToDo(w[n + 1], w[n])
<1> DEFINE R == OpToRel(<, Nat)
<1>1. R = {p \in Nat \X Nat : p[1] < p[2]} /\ IsWellFoundedOn(R, Nat)
  BY NatLessThanWellFounded, Zenon DEF OpToRel
<1> HIDE DEF R
<1>2. MaxDepth \in Nat
  BY ExplorerAssumption
<1>3. IsWellFoundedOn(LexProductOrdering(R, Nat, MaxDepth), Measures)
  BY <1>1, <1>2, WFLexProductOrdering, Zenon DEF Measures
<1>4. ASSUME NEW a \in Measures, NEW b \in Measures, LessToDo(b, a)
      PROVE  <<b, a>> \in LexProductOrdering(R, Nat, MaxDepth)
  <2>1. PICK j \in 1 .. MaxDepth : b[j] < a[j] /\ \A i \in 1 .. j - 1 : b[i] = a[i]
    BY <1>4 DEF LessToDo
  <2>2. a[j] \in Nat /\ b[j] \in Nat
    BY DEF Measures
  <2>3. <<b[j], a[j]>> \in R
    BY <1>1, <2>1, <2>2
  <2>4. QED
    BY <2>1, <2>3 DEF LexProductOrdering, Measures
<1>5. SUFFICES ASSUME NEW w \in [Nat -> Measures], \A n \in Nat : LessToDo(w[n + 1], w[n])
               PROVE  FALSE
  OBVIOUS
<1>6. \A n \in Nat : <<w[n + 1], w[n]>> \in LexProductOrdering(R, Nat, MaxDepth)
  BY <1>4, <1>5
<1>7. QED
  BY <1>3, <1>5, <1>6 DEF IsWellFoundedOn
=============================================================================
