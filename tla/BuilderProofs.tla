---------------------------- MODULE BuilderProofs ----------------------------
(***************************************************************************)
(* What holds of the graph of every function: that PathExplorer can walk   *)
(* it (which ExplorerProofs assumes), that every node is on a way from the *)
(* entry to the exit, and that back edges close loops.                     *)
(***************************************************************************)
EXTENDS CFGBuilder, ListingProofs

----------------------------------------------------------------------------
(* The invariant.                                                          *)

BlockCalls == [k : {"block"}, stmts : Bodies, tails : Nat]

Calls ==
  BlockCalls
  \cup [k : Forks, cond : Nat,
        branches : Seq([label : {"true", "false", "case"}, stmts : Bodies]),
        before : Nat, joined : Seq(Nat)]
  \cup [k : {"do"}, preds : Nat, tails : Nat, catches : Seq(Bodies)]

BuildStates ==
  [nodes : Seq(GraphNodes), edges : Seq([src : Nat, dst : Nat, label : EdgeLabels]),
   lists : Seq(Seq(Nat)), stack : Seq(Calls)]

NodeIds(b) == 1 .. Len(b.nodes)
LoopNodes(b) == {n \in NodeIds(b) : b.nodes[n].label \in LoopLabels}

\* The lists and nodes a call holds are there.
IsPlaced(b, call) ==
  /\ call.k = "block" => call.tails \in DOMAIN b.lists
  /\ call.k \in Forks => call.cond \in 3 .. Len(b.nodes)
  /\ call.k = "loop" => call.cond \in LoopNodes(b)
  /\ call.k = "do" => call.preds \in DOMAIN b.lists /\ call.tails \in {NoList} \cup DOMAIN b.lists

\* Only a block calls another method, a `do` has no tails only while a block above it is
\* at work, and a block above a condition is its first branch.
IsStacked(calls, i) ==
  /\ calls[i].k # "block" => i > 1 /\ calls[i - 1].k = "block"
  /\ calls[i].k = "do" /\ calls[i].tails = NoList =>
       i < Len(calls) /\ calls[i + 1].k = "block"
  /\ calls[i].k \in Forks /\ i < Len(calls) => calls[i].branches # <<>>

TypeInv(b) ==
  /\ b \in BuildStates
  /\ Len(b.nodes) >= ExitId /\ b.nodes[ExitId].kind = "exit"
  /\ \A e \in Range(b.edges) : e.src \in NodeIds(b) \ {ExitId} /\ e.dst \in NodeIds(b)
  /\ \A t \in DOMAIN b.lists : Range(b.lists[t]) \subseteq NodeIds(b) \ {ExitId}
  /\ \A i \in DOMAIN b.stack : IsPlaced(b, b.stack[i]) /\ IsStacked(b.stack, i)

ForksOf(b) == {i \in DOMAIN b.stack : b.stack[i].k \in Forks}
Conds(b) == {b.stack[i].cond : i \in ForksOf(b)}

\* The loop of cond ends at z.
Closed(E, cond, z) == \A d \in E : d.dst \in cond + 1 .. z => d.src \in cond .. z

\* N nodes and the edges E, while the conditions C have branches left: what a back edge
\* closes is out of reach of what comes, and what comes after a condition in C is only
\* entered through it.
GraphInv(N, L, E, C) ==
  /\ \A e \in E : e.label # "back" => e.dst > e.src \/ e.dst = ExitId
  /\ \A e \in E : e.label = "back" =>
       /\ e.dst \in L /\ 3 <= e.dst /\ e.dst <= e.src
       /\ \E z \in e.src .. N : Closed(E, e.dst, z) /\ \A c \in C : c \notin e.dst + 1 .. z
  /\ \A c \in C : \A e \in E : e.dst > c => e.src >= c
  /\ \A n \in 3 .. N : \E e \in E : e.dst = n /\ e.src < n

Listed(b, t) == IF t = NoList THEN {} ELSE Range(b.lists[t])

\* The nodes a call may yet draw edges from.
Held(b, call) ==
  CASE call.k = "block" -> Listed(b, call.tails)
    [] call.k = "do"    -> Listed(b, call.preds) \cup Listed(b, call.tails)
    [] OTHER            -> {call.cond} \cup Range(call.joined)

\* Inside a branch nothing is drawn from a node before its condition.
HeldInv(b) ==
  \A i \in ForksOf(b) : \A j \in i .. Len(b.stack) :
    \A n \in Held(b, b.stack[j]) : n \in b.stack[i].cond .. Len(b.nodes)

\* The nodes the call at i in the stack will draw an edge from.
Pending(b, i) ==
  LET call == b.stack[i]
      top == i = Len(b.stack)
  IN  CASE call.k = "block" -> IF top THEN Listed(b, call.tails) ELSE {}
        [] call.k = "do"    -> Listed(b, call.tails)
        [] OTHER            -> Range(call.joined) \cup
                               IF top /\ call.joined = <<>> THEN {call.cond} ELSE {}

Live(b) == UNION {Pending(b, i) : i \in DOMAIN b.stack}

Closing(E, X) == \A e \in E : e.src \in X => e.dst \in X

\* From n, the edges E lead to the exit or to a node of L.
Leads(E, L, n) == \A X : n \in X /\ Closing(E, X) => ExitId \in X \/ X \cap L # {}

NoTrap(b) == \A n \in NodeIds(b) : Leads(Range(b.edges), Live(b), n)

Inv(b) ==
  /\ TypeInv(b)
  /\ GraphInv(Len(b.nodes), LoopNodes(b), Range(b.edges), Conds(b))
  /\ HeldInv(b)
  /\ NoTrap(b)

----------------------------------------------------------------------------
(* The graph grows.                                                        *)

Twins(e, f) ==
  /\ e.src = f.src /\ e.dst = f.dst
  /\ e.label = "back" <=> f.label = "back"

\* f leads from a node that is not before a condition of C to one after the first N, or
\* to the exit.
Onwards(N, M, C, f) ==
  /\ f.label # "back" /\ f.src \in (1 .. M) \ {ExitId}
  /\ \/ f.dst = ExitId
     \/ f.dst \in N + 1 .. M /\ f.src < f.dst /\ \A c \in C : f.src >= c

\* F has the edges E, some under other labels, and others that lead onwards.
Extends(N, M, C, E, F) ==
  /\ \A f \in F : (\E e \in E : Twins(e, f)) \/ Onwards(N, M, C, f)
  /\ \A e \in E : \E f \in F : Twins(e, f)
  /\ \A n \in N + 1 .. M : \E f \in F : f.dst = n /\ f.src < n

\* New nodes, edges that lead to them or to the exit, and new labels for branches keep the
\* shape of the graph; a new condition is its last node.
LEMMA GraphGrows ==
  ASSUME NEW N \in Nat, NEW M \in Nat, 2 <= N, N <= M, NEW L, NEW K, L \subseteq K,
         NEW C \in SUBSET (3 .. N), NEW D \in SUBSET (C \cup {M}), N < M \/ D \subseteq C,
         NEW E, \A e \in E : e.src \in 1 .. N /\ e.dst \in 1 .. N,
         GraphInv(N, L, E, C), NEW F, Extends(N, M, C, E, F)
  PROVE  GraphInv(M, K, F, D)
<1>1. ASSUME NEW f \in F, f.label # "back" PROVE f.dst > f.src \/ f.dst = ExitId
  <2>1. CASE \E e \in E : Twins(e, f)
    BY <1>1, <2>1 DEF GraphInv, Twins
  <2>2. CASE Onwards(N, M, C, f)
    BY <2>2 DEF Onwards, ExitId
  <2>3. QED
    BY <2>1, <2>2 DEF Extends
<1>2. ASSUME NEW f \in F, f.label = "back"
      PROVE  /\ f.dst \in K /\ 3 <= f.dst /\ f.dst <= f.src
             /\ \E z \in f.src .. M :
                  Closed(F, f.dst, z) /\ \A c \in D : c \notin f.dst + 1 .. z
  <2>1. PICK e \in E : Twins(e, f)
    BY <1>2 DEF Extends, Onwards
  <2>2. e.dst \in L /\ 3 <= e.dst /\ e.dst <= e.src
    BY <1>2, <2>1 DEF GraphInv, Twins
  <2>3. PICK z \in e.src .. N : Closed(E, e.dst, z) /\ \A c \in C : c \notin e.dst + 1 .. z
    BY <1>2, <2>1 DEF GraphInv, Twins
  <2>4. ASSUME NEW d \in F, d.dst \in e.dst + 1 .. z PROVE d.src \in e.dst .. z
    <3>1. CASE \E x \in E : Twins(x, d)
      BY <2>3, <2>4, <3>1 DEF Closed, Twins
    <3>2. CASE Onwards(N, M, C, d)
      BY <2>2, <2>3, <2>4, <3>2 DEF Onwards, ExitId
    <3>3. QED
      BY <3>1, <3>2 DEF Extends
  <2>5. ASSUME NEW c \in D PROVE c \notin e.dst + 1 .. z
    BY <2>3, <2>5
  <2>6. z \in f.src .. M /\ f.dst = e.dst /\ f.src = e.src
    BY <2>1, <2>3 DEF Twins
  <2>7. Closed(F, f.dst, z)
    BY <2>4, <2>6 DEF Closed
  <2>8. QED
    BY <2>2, <2>5, <2>6, <2>7
<1>3. ASSUME NEW c \in D, NEW f \in F, f.dst > c PROVE f.src >= c
  <2>1. CASE \E e \in E : Twins(e, f)
    <3>1. PICK e \in E : Twins(e, f)
      BY <2>1
    <3>2. c \in C
      BY <1>3, <3>1 DEF Twins
    <3>3. QED
      BY <1>3, <3>1, <3>2 DEF GraphInv, Twins
  <2>2. CASE Onwards(N, M, C, f)
    <3>1. c >= 3
      OBVIOUS
    <3>2. f.dst \in N + 1 .. M /\ \A x \in C : f.src >= x
      BY <1>3, <2>2, <3>1 DEF Onwards, ExitId
    <3>3. c \in C
      BY <1>3, <3>2
    <3>4. QED
      BY <3>2, <3>3
  <2>3. QED
    BY <2>1, <2>2 DEF Extends
<1>4. ASSUME NEW n \in 3 .. M PROVE \E f \in F : f.dst = n /\ f.src < n
  <2>1. CASE n \in N + 1 .. M
    BY <2>1 DEF Extends
  <2>2. CASE n \in 3 .. N
    <3>1. PICK e \in E : e.dst = n /\ e.src < n
      BY <2>2 DEF GraphInv
    <3>2. QED
      BY <3>1 DEF Extends, Twins
  <2>3. QED
    BY <2>1, <2>2
<1>5. QED
  BY <1>1, <1>2, <1>3, <1>4 DEF GraphInv

\* So do the edges that close the loop of the innermost condition.
LEMMA LoopCloses ==
  ASSUME NEW N \in Nat, NEW L, NEW C \in SUBSET (3 .. N), NEW c \in C, c \in L,
         NEW D \in SUBSET C, \A d \in D : d <= c,
         NEW E, \A e \in E : e.src \in 1 .. N /\ e.dst \in 1 .. N,
         GraphInv(N, L, E, C), NEW F, E \subseteq F,
         \A f \in F \ E : f.src \in c .. N /\ f.dst = c /\ f.label = "back"
  PROVE  GraphInv(N, L, F, D)
<1>1. ASSUME NEW f \in F, f.label # "back" PROVE f.dst > f.src \/ f.dst = ExitId
  BY <1>1 DEF GraphInv
<1>2. ASSUME NEW f \in F, f.label = "back"
      PROVE  /\ f.dst \in L /\ 3 <= f.dst /\ f.dst <= f.src
             /\ \E z \in f.src .. N :
                  Closed(F, f.dst, z) /\ \A d \in D : d \notin f.dst + 1 .. z
  <2>1. CASE f \in E
    <3>1. f.dst \in L /\ 3 <= f.dst /\ f.dst <= f.src
      BY <1>2, <2>1 DEF GraphInv
    <3>2. PICK z \in f.src .. N :
            Closed(E, f.dst, z) /\ \A d \in C : d \notin f.dst + 1 .. z
      BY <1>2, <2>1 DEF GraphInv
    <3>3. Closed(F, f.dst, z)
      BY <3>2 DEF Closed
    <3>4. QED
      BY <3>1, <3>2, <3>3
  <2>2. CASE f \notin E
    <3>1. f.src \in c .. N /\ f.dst = c
      BY <2>2
    <3>2. Closed(F, c, N)
      <4>1. ASSUME NEW d \in F, d.dst \in c + 1 .. N PROVE d.src \in c .. N
        <5>1. d \in E
          BY <4>1
        <5>2. QED
          BY <4>1, <5>1 DEF GraphInv
      <4>2. QED
        BY <4>1 DEF Closed
    <3>3. \A d \in D : d \notin c + 1 .. N
      OBVIOUS
    <3>4. N \in f.src .. N
      BY <3>1
    <3>5. QED
      BY <3>1, <3>2, <3>3, <3>4
  <2>3. QED
    BY <2>1, <2>2
<1>3. ASSUME NEW d \in D, NEW f \in F, f.dst > d PROVE f.src >= d
  BY <1>3 DEF GraphInv
<1>4. ASSUME NEW n \in 3 .. N PROVE \E f \in F : f.dst = n /\ f.src < n
  BY DEF GraphInv
<1>5. QED
  BY <1>1, <1>2, <1>3, <1>4 DEF GraphInv

\* What leads to nodes that lead on, leads on.
LEMMA LeadsOn ==
  ASSUME NEW E, NEW F, NEW A, NEW B, NEW n, Leads(E, A, n),
         \A e \in E : \E f \in F : Twins(e, f),
         \A m \in A : Leads(F, B, m)
  PROVE  Leads(F, B, n)
<1> SUFFICES ASSUME NEW X, n \in X, Closing(F, X), ExitId \notin X PROVE X \cap B # {}
  BY DEF Leads
<1>1. Closing(E, X)
  <2> SUFFICES ASSUME NEW e \in E, e.src \in X PROVE e.dst \in X
    BY DEF Closing
  <2>1. PICK f \in F : Twins(e, f)
    OBVIOUS
  <2>2. QED
    BY <2>1 DEF Twins, Closing
<1>2. PICK m \in A : m \in X
  BY <1>1 DEF Leads
<1>3. QED
  BY <1>2 DEF Leads

\* An edge leads where its end leads.
LEMMA LeadsAlong ==
  ASSUME NEW E, NEW B, NEW e \in E, Leads(E, B, e.dst)
  PROVE  Leads(E, B, e.src)
BY DEF Leads, Closing

----------------------------------------------------------------------------
(* The stack changes from some call on.                                    *)

HeldFrom(b, p) == UNION {Held(b, b.stack[j]) : j \in p .. Len(b.stack)}

\* c has the nodes of b, and its lists, extended by elements of H.
Grown(b, c, H) ==
  /\ Len(b.nodes) <= Len(c.nodes)
  /\ \A n \in NodeIds(b) : c.nodes[n] = b.nodes[n]
  /\ \A t \in DOMAIN b.lists :
       /\ t \in DOMAIN c.lists
       /\ Range(b.lists[t]) \subseteq Range(c.lists[t])
       /\ Range(c.lists[t]) \subseteq Range(b.lists[t]) \cup H

\* The calls before p are those of b, and the one at p is of the same method.
Behind(b, c, p) ==
  /\ p \in DOMAIN b.stack /\ p \in DOMAIN c.stack
  /\ \A i \in 1 .. p - 1 : c.stack[i] = b.stack[i]
  /\ c.stack[p].k = b.stack[p].k
  /\ b.stack[p].k \in Forks => c.stack[p].cond = b.stack[p].cond

NewNodes(b, c) == Len(b.nodes) + 1 .. Len(c.nodes)

\* What a call from p on may be: it holds what calls from p on held, or new nodes; a new
\* condition is the last node.
IsRenewed(b, c, p, i) ==
  LET call == c.stack[i]
  IN  /\ IsPlaced(c, call)
      /\ Held(c, call) \subseteq HeldFrom(b, p) \cup NewNodes(b, c)
      /\ i > p => IsStacked(c.stack, i)
      /\ i > p /\ call.k \in Forks =>
           /\ i = Len(c.stack) /\ Held(c, call) = {call.cond}
           /\ call.cond = Len(c.nodes) /\ Len(b.nodes) < Len(c.nodes)
      /\ ~(i = p /\ call.k = "do" /\ call.tails = NoList)
      /\ i = p /\ call.k \in Forks => p = Len(c.stack) \/ call.branches # <<>>

\* A call that was there is as sound as it was.
LEMMA CallStays ==
  ASSUME NEW b, NEW c, NEW H, Grown(b, c, H), NEW call \in Calls, IsPlaced(b, call)
  PROVE  IsPlaced(c, call) /\ Held(c, call) \subseteq Held(b, call) \cup H
<1>1. IsPlaced(c, call)
  BY DEF IsPlaced, Grown, LoopNodes, NodeIds
<1>2. CASE call.k = "block"
  BY <1>1, <1>2 DEF Held, Listed, Grown, IsPlaced
<1>3. CASE call.k = "do"
  BY <1>1, <1>3 DEF Held, Listed, Grown, IsPlaced
<1>4. CASE call.k \notin {"block", "do"}
  BY <1>1, <1>4 DEF Held
<1>5. QED
  BY <1>1, <1>2, <1>3, <1>4

LEMMA StackSteps ==
  ASSUME NEW b, TypeInv(b), HeldInv(b), NEW c \in BuildStates, NEW p, Behind(b, c, p),
         Grown(b, c, HeldFrom(b, p)),
         \A i \in p .. Len(c.stack) : IsRenewed(b, c, p, i)
  PROVE  /\ \A i \in DOMAIN c.stack : IsPlaced(c, c.stack[i]) /\ IsStacked(c.stack, i)
         /\ HeldInv(c)
         /\ Conds(c) \subseteq Conds(b) \cup {Len(c.nodes)}
         /\ Len(b.nodes) < Len(c.nodes) \/ Conds(c) \subseteq Conds(b)
<1> DEFINE H == HeldFrom(b, p)
           N == Len(b.nodes)
           M == Len(c.nodes)
<1>0. /\ N \in Nat /\ M \in Nat /\ N <= M
      /\ DOMAIN b.stack = 1 .. Len(b.stack) /\ Len(b.stack) \in Nat
      /\ DOMAIN c.stack = 1 .. Len(c.stack) /\ Len(c.stack) \in Nat
      /\ \A i \in DOMAIN b.stack : b.stack[i] \in Calls
      /\ p \in Nat /\ p >= 1 /\ p <= Len(b.stack) /\ p <= Len(c.stack)
  <2>1. b.nodes \in Seq(GraphNodes) /\ c.nodes \in Seq(GraphNodes)
    BY DEF TypeInv, BuildStates
  <2>2. b.stack \in Seq(Calls) /\ c.stack \in Seq(Calls)
    BY DEF TypeInv, BuildStates
  <2>3. QED
    BY <2>1, <2>2 DEF Grown, Behind
<1>1. ASSUME NEW i \in 1 .. p - 1
      PROVE  /\ IsPlaced(c, c.stack[i])
             /\ Held(c, c.stack[i]) \subseteq Held(b, b.stack[i]) \cup H
  <2>1. c.stack[i] = b.stack[i] /\ i \in DOMAIN b.stack
    BY <1>0 DEF Behind
  <2>2. IsPlaced(b, b.stack[i])
    BY <2>1 DEF TypeInv
  <2>3. QED
    BY <1>0, <2>1, <2>2, CallStays
<1>2. ASSUME NEW i \in DOMAIN c.stack PROVE IsPlaced(c, c.stack[i])
  BY <1>0, <1>1 DEF IsRenewed
<1>3. ASSUME NEW i \in DOMAIN c.stack PROVE IsStacked(c.stack, i)
  <2>1. CASE i > p
    BY <1>0, <2>1 DEF IsRenewed
  <2>2. CASE i <= p
    <3>1. i \in DOMAIN b.stack /\ IsStacked(b.stack, i)
      BY <1>0, <2>2 DEF TypeInv
    <3>2. \A j \in 1 .. p : c.stack[j].k = b.stack[j].k
      BY <1>0 DEF Behind
    <3>3. ASSUME c.stack[i].k # "block" PROVE i > 1 /\ c.stack[i - 1].k = "block"
      <4>1. i \in 1 .. p
        BY <1>0, <2>2
      <4>2. b.stack[i].k # "block"
        BY <3>2, <3>3, <4>1
      <4>3. i > 1 /\ b.stack[i - 1].k = "block"
        BY <3>1, <4>2 DEF IsStacked
      <4>4. i - 1 \in 1 .. p
        BY <1>0, <4>1, <4>3
      <4>5. QED
        BY <3>2, <4>3, <4>4
    <3>4. ASSUME c.stack[i].k = "do", c.stack[i].tails = NoList
          PROVE  i < Len(c.stack) /\ c.stack[i + 1].k = "block"
      <4>1. i < p
        BY <1>0, <2>2, <3>4 DEF IsRenewed
      <4>2. b.stack[i] = c.stack[i]
        BY <1>0, <4>1 DEF Behind
      <4>3. b.stack[i + 1].k = "block"
        BY <3>1, <3>4, <4>2 DEF IsStacked
      <4>4. QED
        BY <1>0, <3>2, <4>1, <4>3
    <3>5. ASSUME c.stack[i].k \in Forks, i < Len(c.stack) PROVE c.stack[i].branches # <<>>
      <4>1. CASE i = p
        BY <1>0, <3>5, <4>1 DEF IsRenewed
      <4>2. CASE i < p
        <5>1. b.stack[i] = c.stack[i] /\ i < Len(b.stack)
          BY <1>0, <4>2 DEF Behind
        <5>2. QED
          BY <3>1, <3>5, <5>1 DEF IsStacked
      <4>3. QED
        BY <1>0, <2>2, <4>1, <4>2
    <3>6. QED
      BY <3>3, <3>4, <3>5 DEF IsStacked
  <2>3. QED
    BY <1>0, <2>1, <2>2
<1>4. ASSUME NEW i \in ForksOf(c), i <= p
      PROVE  /\ i \in ForksOf(b) /\ c.stack[i].cond = b.stack[i].cond
             /\ c.stack[i].cond \in 3 .. N
  <2>1. i \in DOMAIN b.stack /\ c.stack[i].k \in Forks
    BY <1>0, <1>4 DEF ForksOf
  <2>2. c.stack[i].k = b.stack[i].k /\ (i = p \/ c.stack[i] = b.stack[i])
    BY <1>0, <1>4, <2>1 DEF Behind
  <2>3. i \in ForksOf(b) /\ c.stack[i].cond = b.stack[i].cond
    BY <2>1, <2>2 DEF ForksOf, Behind
  <2>4. IsPlaced(b, b.stack[i])
    BY <2>1 DEF TypeInv
  <2>5. b.stack[i].k \in Forks
    BY <2>1, <2>2
  <2>6. QED
    BY <2>3, <2>4, <2>5 DEF IsPlaced
<1>5. ASSUME NEW i \in ForksOf(c), i > p
      PROVE  /\ i = Len(c.stack) /\ c.stack[i].cond = M /\ N < M
             /\ Held(c, c.stack[i]) = {c.stack[i].cond}
  <2>1. i \in p .. Len(c.stack) /\ c.stack[i].k \in Forks
    BY <1>0, <1>5 DEF ForksOf
  <2>2. IsRenewed(b, c, p, i)
    BY <2>1
  <2>3. QED
    BY <1>5, <2>1, <2>2 DEF IsRenewed
<1>6. HeldInv(c)
  <2> SUFFICES ASSUME NEW i \in ForksOf(c), NEW j \in i .. Len(c.stack),
                      NEW n \in Held(c, c.stack[j])
               PROVE  n \in c.stack[i].cond .. M
    BY DEF HeldInv
  <2>0. i \in DOMAIN c.stack /\ j \in DOMAIN c.stack /\ i \in Nat /\ j \in Nat /\ i <= j
    BY <1>0 DEF ForksOf
  <2>1. CASE i > p
    <3>1. i = Len(c.stack) /\ c.stack[i].cond = M /\ Held(c, c.stack[i]) = {M}
      BY <1>5, <2>1
    <3>2. j = i
      BY <1>0, <2>0, <3>1
    <3>3. QED
      BY <1>0, <3>1, <3>2
  <2>2. CASE i <= p
    <3>0. i \in ForksOf(b) /\ c.stack[i].cond = b.stack[i].cond /\ c.stack[i].cond \in 3 .. N
      BY <1>4, <2>2
    <3>1. \A x \in H : x \in c.stack[i].cond .. N
      <4>1. ASSUME NEW k \in p .. Len(b.stack), NEW x \in Held(b, b.stack[k])
            PROVE  x \in c.stack[i].cond .. N
        <5>1. k \in i .. Len(b.stack)
          BY <1>0, <2>0, <2>2
        <5>2. QED
          BY <3>0, <5>1 DEF HeldInv
      <4>2. QED
        BY <4>1 DEF HeldFrom
    <3>2. CASE j < p
      <4>1. Held(c, c.stack[j]) \subseteq Held(b, b.stack[j]) \cup H
        BY <1>1, <2>0, <3>2, <1>0
      <4>2. j \in i .. Len(b.stack)
        BY <1>0, <2>0, <3>2
      <4>3. \A x \in Held(b, b.stack[j]) : x \in c.stack[i].cond .. N
        BY <3>0, <4>2 DEF HeldInv
      <4>4. n \in c.stack[i].cond .. N
        BY <3>1, <4>1, <4>3
      <4>5. QED
        BY <1>0, <3>0, <4>4
    <3>3. CASE j >= p
      <4>1. n \in H \cup NewNodes(b, c)
        <5>1. j \in p .. Len(c.stack)
          BY <1>0, <2>0, <3>3
        <5>2. QED
          BY <5>1 DEF IsRenewed
      <4>2. n \in NewNodes(b, c) => n \in c.stack[i].cond .. M
        BY <1>0, <3>0 DEF NewNodes
      <4>3. n \in H => n \in c.stack[i].cond .. M
        BY <1>0, <3>0, <3>1
      <4>4. QED
        BY <4>1, <4>2, <4>3
    <3>4. QED
      BY <1>0, <2>0, <3>2, <3>3
  <2>3. QED
    BY <1>0, <2>0, <2>1, <2>2
<1>7. Conds(c) \subseteq Conds(b) \cup {M} /\ (N < M \/ Conds(c) \subseteq Conds(b))
  <2>1. ASSUME NEW i \in ForksOf(c)
        PROVE  c.stack[i].cond \in Conds(b) \/ (c.stack[i].cond = M /\ N < M)
    <3>1. i \in Nat
      BY <1>0 DEF ForksOf
    <3>2. CASE i <= p
      BY <1>4, <3>2 DEF Conds
    <3>3. CASE i > p
      BY <1>5, <3>3
    <3>4. QED
      BY <1>0, <3>1, <3>2, <3>3
  <2>2. QED
    BY <2>1 DEF Conds
<1>8. QED
  BY <1>2, <1>3, <1>6, <1>7

\* The calls from p on are renewed, and the others stay.
Follows(b, c, p) ==
  /\ Behind(b, c, p)
  /\ Grown(b, c, HeldFrom(b, p))
  /\ \A i \in p .. Len(c.stack) : IsRenewed(b, c, p, i)
  /\ \A t \in DOMAIN c.lists \ DOMAIN b.lists :
       Range(c.lists[t]) \subseteq HeldFrom(b, p) \cup NewNodes(b, c)

Sizes(b) ==
  /\ Len(b.nodes) \in Nat /\ DOMAIN b.nodes = NodeIds(b)
  /\ Len(b.edges) \in Nat /\ DOMAIN b.edges = 1 .. Len(b.edges)
  /\ Len(b.lists) \in Nat /\ DOMAIN b.lists = 1 .. Len(b.lists)
  /\ Len(b.stack) \in Nat /\ DOMAIN b.stack = 1 .. Len(b.stack)
  /\ \A i \in DOMAIN b.stack : b.stack[i] \in Calls

LEMMA HasSizes ==
  ASSUME NEW b \in BuildStates
  PROVE  Sizes(b)
<1>1. /\ b.nodes \in Seq(GraphNodes) /\ b.stack \in Seq(Calls) /\ b.lists \in Seq(Seq(Nat))
      /\ b.edges \in Seq([src : Nat, dst : Nat, label : EdgeLabels])
  BY DEF BuildStates
<1>2. QED
  BY <1>1 DEF Sizes, NodeIds

\* Calls hold nodes that have a way on.
LEMMA HeldAreNodes ==
  ASSUME NEW b, TypeInv(b), HeldInv(b)
  PROVE  /\ \A i \in DOMAIN b.stack : Held(b, b.stack[i]) \subseteq NodeIds(b) \ {ExitId}
         /\ \A p \in Nat \ {0} : HeldFrom(b, p) \subseteq NodeIds(b) \ {ExitId}
<1>0. Sizes(b)
  BY HasSizes DEF TypeInv
<1>1. ASSUME NEW i \in DOMAIN b.stack
      PROVE  Held(b, b.stack[i]) \subseteq NodeIds(b) \ {ExitId}
  <2> DEFINE call == b.stack[i]
  <2>1. call \in Calls /\ IsPlaced(b, call)
    BY <1>0 DEF Sizes, TypeInv
  <2>2. CASE call.k \in {"block", "do"}
    BY <2>1, <2>2 DEF IsPlaced, Held, Listed, TypeInv
  <2>3. CASE call.k \notin {"block", "do"}
    <3>1. call.k \in Forks
      BY <2>1, <2>3 DEF Calls, BlockCalls
    <3>2. i \in ForksOf(b) /\ i \in i .. Len(b.stack)
      BY <1>0, <3>1 DEF ForksOf, Sizes
    <3>3. \A n \in Held(b, call) : n \in call.cond .. Len(b.nodes)
      BY <3>2 DEF HeldInv
    <3>4. call.cond \in 3 .. Len(b.nodes)
      BY <2>1, <3>1 DEF IsPlaced
    <3>5. QED
      BY <1>0, <3>3, <3>4 DEF NodeIds, ExitId, Sizes
  <2>4. QED
    BY <2>2, <2>3
<1>2. QED
  <2> SUFFICES ASSUME NEW p \in Nat \ {0}, NEW j \in p .. Len(b.stack)
               PROVE  j \in DOMAIN b.stack
    BY <1>1 DEF HeldFrom
  <2>1. QED
    BY <1>0 DEF Sizes

\* What is pending before p stays so.
LEMMA PendingStays ==
  ASSUME NEW b, TypeInv(b), NEW c \in BuildStates, NEW H, Grown(b, c, H), NEW p, Behind(b, c, p),
         NEW i \in 1 .. p - 1
  PROVE  i \in DOMAIN c.stack /\ Pending(b, i) \subseteq Pending(c, i)
<1>0. Sizes(b) /\ Sizes(c)
  BY HasSizes DEF TypeInv
<1>1. /\ i \in DOMAIN b.stack /\ i \in DOMAIN c.stack /\ i # Len(b.stack) /\ i # Len(c.stack)
      /\ c.stack[i] = b.stack[i]
  BY <1>0 DEF Behind, Sizes
<1>2. IsPlaced(b, b.stack[i])
  BY <1>1 DEF TypeInv
<1>3. CASE b.stack[i].k = "do"
  BY <1>1, <1>2, <1>3 DEF Pending, Listed, IsPlaced, Grown
<1>4. CASE b.stack[i].k # "do"
  BY <1>1, <1>4 DEF Pending
<1>5. QED
  BY <1>3, <1>4

\* A node that was live before p leads on.
LEMMA LiveLeads ==
  ASSUME NEW b, TypeInv(b), NEW c \in BuildStates, NEW H, Grown(b, c, H), NEW p, Behind(b, c, p),
         NEW F,
         \A i \in p .. Len(b.stack) : \A m \in Pending(b, i) : Leads(F, Live(c), m)
  PROVE  \A m \in Live(b) : Leads(F, Live(c), m)
<1>0. Sizes(b)
  BY HasSizes DEF TypeInv
<1> SUFFICES ASSUME NEW i \in DOMAIN b.stack, NEW m \in Pending(b, i)
             PROVE  Leads(F, Live(c), m)
  BY DEF Live
<1>1. CASE i \in p .. Len(b.stack)
  BY <1>1
<1>2. CASE i \in 1 .. p - 1
  <2>1. m \in Live(c)
    BY <1>2, PendingStays DEF Live
  <2>2. QED
    BY <2>1 DEF Leads
<1>3. QED
  BY <1>0, <1>1, <1>2 DEF Sizes, Behind

\* A step that adds nodes, edges that lead onwards, and calls, keeps the invariant if what
\* was pending leads on.
LEMMA TypeSteps ==
  ASSUME NEW b, Inv(b), NEW c \in BuildStates, NEW p, Follows(b, c, p),
         \A e \in Range(c.edges) :
           e.src \in NodeIds(c) \ {ExitId} /\ e.dst \in NodeIds(c)
  PROVE  /\ TypeInv(c) /\ HeldInv(c)
         /\ Conds(c) \subseteq Conds(b) \cup {Len(c.nodes)}
         /\ Len(b.nodes) < Len(c.nodes) \/ Conds(c) \subseteq Conds(b)
<1>0. Sizes(b) /\ Sizes(c) /\ TypeInv(b) /\ HeldInv(b)
  BY HasSizes DEF TypeInv, Inv
<1>1. p \in Nat \ {0}
  BY <1>0 DEF Follows, Behind, Sizes
<1>2. /\ \A i \in DOMAIN c.stack : IsPlaced(c, c.stack[i]) /\ IsStacked(c.stack, i)
      /\ HeldInv(c)
      /\ Conds(c) \subseteq Conds(b) \cup {Len(c.nodes)}
      /\ Len(b.nodes) < Len(c.nodes) \/ Conds(c) \subseteq Conds(b)
  BY <1>0, StackSteps DEF Follows
<1>3. Len(c.nodes) >= ExitId /\ c.nodes[ExitId].kind = "exit"
  <2>1. Len(b.nodes) >= ExitId /\ b.nodes[ExitId].kind = "exit" /\ ExitId \in NodeIds(b)
    BY <1>0 DEF TypeInv, NodeIds, ExitId, Sizes
  <2>2. QED
    BY <1>0, <2>1 DEF Follows, Grown, Sizes, ExitId
<1>4. ASSUME NEW t \in DOMAIN c.lists PROVE Range(c.lists[t]) \subseteq NodeIds(c) \ {ExitId}
  <2>1. HeldFrom(b, p) \subseteq NodeIds(b) \ {ExitId}
    BY <1>0, <1>1, HeldAreNodes
  <2>2. NodeIds(b) \subseteq NodeIds(c)
    BY <1>0 DEF NodeIds, Follows, Grown, Sizes
  <2>3. NewNodes(b, c) \subseteq NodeIds(c) \ {ExitId}
    BY <1>0 DEF NewNodes, NodeIds, ExitId, Sizes, TypeInv
  <2>4. CASE t \in DOMAIN b.lists
    <3>1. Range(b.lists[t]) \subseteq NodeIds(b) \ {ExitId}
      BY <1>0, <2>4 DEF TypeInv
    <3>2. Range(c.lists[t]) \subseteq Range(b.lists[t]) \cup HeldFrom(b, p)
      BY <2>4 DEF Follows, Grown
    <3>3. QED
      BY <2>1, <2>2, <3>1, <3>2
  <2>5. CASE t \notin DOMAIN b.lists
    BY <2>1, <2>2, <2>3, <2>5 DEF Follows
  <2>6. QED
    BY <2>4, <2>5
<1>5. TypeInv(c)
  BY <1>2, <1>3, <1>4 DEF TypeInv
<1>6. QED
  BY <1>2, <1>5

LEMMA CondsAreNodes ==
  ASSUME NEW b, TypeInv(b)
  PROVE  Conds(b) \in SUBSET (3 .. Len(b.nodes))
BY DEF Conds, ForksOf, TypeInv, IsPlaced

LEMMA Steps ==
  ASSUME NEW b, Inv(b), NEW c \in BuildStates, NEW p, Follows(b, c, p),
         Extends(Len(b.nodes), Len(c.nodes), Conds(b), Range(b.edges), Range(c.edges)),
         \A i \in p .. Len(b.stack) : \A m \in Pending(b, i) :
           Leads(Range(c.edges), Live(c), m),
         \A n \in NewNodes(b, c) : Leads(Range(c.edges), Live(c), n)
  PROVE  Inv(c)
<1> DEFINE N == Len(b.nodes)
           M == Len(c.nodes)
           E == Range(b.edges)
           F == Range(c.edges)
<1>0. Sizes(b) /\ Sizes(c) /\ TypeInv(b) /\ N \in Nat /\ M \in Nat /\ N <= M /\ 2 <= N
  BY HasSizes DEF TypeInv, Inv, Sizes, Follows, Grown, ExitId
<1>1. ASSUME NEW e \in F PROVE e.src \in NodeIds(c) \ {ExitId} /\ e.dst \in NodeIds(c)
  <2>1. CASE \E d \in E : Twins(d, e)
    BY <1>0, <2>1 DEF Twins, TypeInv, NodeIds
  <2>2. CASE Onwards(N, M, Conds(b), e)
    BY <1>0, <2>2 DEF Onwards, NodeIds, ExitId
  <2>3. QED
    BY <2>1, <2>2 DEF Extends
<1>2. /\ TypeInv(c) /\ HeldInv(c)
      /\ Conds(c) \subseteq Conds(b) \cup {M}
      /\ N < M \/ Conds(c) \subseteq Conds(b)
  BY <1>1, TypeSteps
<1>3. LoopNodes(b) \subseteq LoopNodes(c)
  BY <1>0 DEF LoopNodes, NodeIds, Follows, Grown
<1>4. GraphInv(M, LoopNodes(c), F, Conds(c))
  <2>1. Conds(b) \in SUBSET (3 .. N)
    BY <1>0, CondsAreNodes
  <2>2. \A e \in E : e.src \in 1 .. N /\ e.dst \in 1 .. N
    BY <1>0 DEF TypeInv, NodeIds
  <2>3. GraphInv(N, LoopNodes(b), E, Conds(b))
    BY DEF Inv
  <2>4. Conds(c) \in SUBSET (Conds(b) \cup {M})
    BY <1>2
  <2> HIDE DEF N, M, E, F
  <2>5. Extends(N, M, Conds(b), E, F)
    BY DEF N, M, E, F
  <2>6. QED
    BY <1>0, <1>2, <1>3, <2>1, <2>2, <2>3, <2>4, <2>5, GraphGrows
<1>5. NoTrap(c)
  <2>1. \A m \in Live(b) : Leads(F, Live(c), m)
    BY <1>0, LiveLeads DEF Follows
  <2>2. \A e \in E : \E f \in F : Twins(e, f)
    BY DEF Extends
  <2>3. ASSUME NEW n \in NodeIds(b) PROVE Leads(F, Live(c), n)
    <3>1. Leads(E, Live(b), n)
      BY DEF Inv, NoTrap
    <3>2. QED
      BY <2>1, <2>2, <3>1, LeadsOn
  <2>4. NodeIds(c) \subseteq NodeIds(b) \cup NewNodes(b, c)
    BY <1>0 DEF NodeIds, NewNodes
  <2>5. QED
    BY <2>3, <2>4 DEF NoTrap
<1>6. QED
  BY <1>2, <1>4, <1>5 DEF Inv

----------------------------------------------------------------------------
(* What the methods are made of.                                           *)

LEMMA RangeOfJoin ==
  ASSUME NEW S, NEW s \in Seq(S), NEW t \in Seq(S)
  PROVE  Range(s \o t) = Range(s) \cup Range(t)
<1>1. ASSUME NEW x \in Range(s \o t) PROVE x \in Range(s) \cup Range(t)
  BY <1>1 DEF Range
<1>2. ASSUME NEW i \in DOMAIN s PROVE s[i] \in Range(s \o t)
  <2>1. i \in DOMAIN (s \o t) /\ (s \o t)[i] = s[i]
    OBVIOUS
  <2>2. QED
    BY <2>1 DEF Range
<1>3. ASSUME NEW i \in DOMAIN t PROVE t[i] \in Range(s \o t)
  <2>1. Len(s) + i \in DOMAIN (s \o t) /\ (s \o t)[Len(s) + i] = t[i]
    OBVIOUS
  <2>2. QED
    BY <2>1 DEF Range
<1>4. QED
  BY <1>1, <1>2, <1>3 DEF Range

LEMMA JoinIs ==
  ASSUME NEW S, NEW s \in Seq(S), NEW t \in Seq(S), Len(t) >= 1
  PROVE  /\ Len(s \o t) = Len(s) + Len(t)
         /\ \A i \in 1 .. Len(s) : (s \o t)[i] = s[i]
         /\ (s \o t)[Len(s \o t)] = t[Len(t)]
OBVIOUS

\* All but the edges stays.
SameButEdges(b, c) == c.nodes = b.nodes /\ c.lists = b.lists /\ c.stack = b.stack

EdgesFrom(srcs, dst, label) ==
  {[src |-> s, dst |-> dst, label |-> label] : s \in Range(srcs)}

LEMMA EdgesAre ==
  ASSUME NEW srcs \in Seq(Nat), NEW dst \in Nat, NEW label \in EdgeLabels
  PROVE  /\ Edges(srcs, dst, label) \in Seq([src : Nat, dst : Nat, label : EdgeLabels])
         /\ Range(Edges(srcs, dst, label)) = EdgesFrom(srcs, dst, label)
<1> DEFINE f == Edges(srcs, dst, label)
<1>1. /\ DOMAIN f = 1 .. Len(srcs)
      /\ \A i \in DOMAIN f : f[i] = [src |-> srcs[i], dst |-> dst, label |-> label]
  BY DEF Edges
<1> DEFINE T == [src : Nat, dst : Nat, label : EdgeLabels]
<1> HIDE DEF f
<1>2. f \in Seq(T)
  <2>1. \A i \in 1 .. Len(srcs) : f[i] \in T
    BY <1>1
  <2>2. f = [i \in 1 .. Len(srcs) |-> f[i]]
    BY <1>1 DEF f, Edges
  <2> HIDE DEF T
  <2>3. QED
    BY <2>1, <2>2
<1>3. Range(f) = EdgesFrom(srcs, dst, label)
  BY <1>1 DEF Range, EdgesFrom
<1>4. QED
  BY <1>2, <1>3 DEF f

\* _BuildState.edge, for several predecessors.
LEMMA LinkIs ==
  ASSUME NEW b \in BuildStates, NEW srcs \in Seq(Nat), NEW dst \in Nat, NEW label \in EdgeLabels
  PROVE  LET c == Link(b, srcs, dst, label)
         IN  /\ c \in BuildStates /\ SameButEdges(b, c)
             /\ Range(c.edges) = Range(b.edges) \cup EdgesFrom(srcs, dst, label)
<1> DEFINE c == Link(b, srcs, dst, label)
           new == Edges(srcs, dst, label)
           T == [src : Nat, dst : Nat, label : EdgeLabels]
<1>1. new \in Seq(T) /\ Range(new) = EdgesFrom(srcs, dst, label)
  BY EdgesAre
<1>2. c = [b EXCEPT !.edges = @ \o new]
  BY DEF Link
<1> HIDE DEF c, new
<1>3. b.edges \in Seq(T)
  BY DEF BuildStates
<1>4. c \in BuildStates /\ SameButEdges(b, c) /\ c.edges = b.edges \o new
  <2>1. b.edges \o new \in Seq(T)
    BY <1>1, <1>3
  <2>2. QED
    BY <1>2, <2>1 DEF BuildStates, SameButEdges
<1>5. Range(c.edges) = Range(b.edges) \cup Range(new)
  BY <1>1, <1>3, <1>4, RangeOfJoin
<1>6. QED
  BY <1>1, <1>4, <1>5 DEF c

\* Nodes in a row: emit_calls, and the node of the statement.
InARow(n, k) == {[src |-> n + i, dst |-> n + i + 1, label |-> "seq"] : i \in 1 .. k - 1}

LEMMA ChainIs ==
  ASSUME NEW b \in BuildStates, NEW srcs \in Seq(Nat), NEW new \in Seq(GraphNodes), Len(new) >= 1
  PROVE  LET c == Chain(b, srcs, new)
             n == Len(b.nodes)
         IN  /\ c \in BuildStates
             /\ c.nodes = b.nodes \o new /\ c.lists = b.lists /\ c.stack = b.stack
             /\ Range(c.edges) = Range(b.edges) \cup EdgesFrom(srcs, n + 1, "seq")
                                 \cup InARow(n, Len(new))
<1> DEFINE c == Chain(b, srcs, new)
           n == Len(b.nodes)
           T == [src : Nat, dst : Nat, label : EdgeLabels]
           first == Edges(srcs, n + 1, "seq")
           row == [i \in 1 .. Len(new) - 1 |->
                     [src |-> n + i, dst |-> n + i + 1, label |-> "seq"]]
<1>0. b.nodes \in Seq(GraphNodes) /\ b.edges \in Seq(T) /\ n \in Nat /\ Len(new) \in Nat
  BY DEF BuildStates
<1>3. c = [b EXCEPT !.nodes = @ \o new, !.edges = @ \o first \o row]
  BY DEF Chain
<1> HIDE DEF c, n, T
<1>1. first \in Seq(T) /\ Range(first) = EdgesFrom(srcs, n + 1, "seq")
  <2>1. n + 1 \in Nat
    BY <1>0
  <2>2. "seq" \in EdgeLabels
    BY DEF EdgeLabels
  <2>3. QED
    BY <2>1, <2>2, EdgesAre DEF T
<1>2. row \in Seq(T) /\ Range(row) = InARow(n, Len(new))
  <2>1. ASSUME NEW i \in 1 .. Len(new) - 1
        PROVE  [src |-> n + i, dst |-> n + i + 1, label |-> "seq"] \in T
    <3>1. n + i \in Nat /\ n + i + 1 \in Nat
      BY <1>0
    <3>2. "seq" \in EdgeLabels
      BY DEF EdgeLabels
    <3>3. QED
      BY <3>1, <3>2 DEF T
  <2>2. row \in Seq(T)
    BY <1>0, <2>1
  <2>3. Range(row) = InARow(n, Len(new))
    BY DEF Range, InARow
  <2>4. QED
    BY <2>2, <2>3
<1> HIDE DEF first, row
<1>4. b.nodes \o new \in Seq(GraphNodes) /\ b.edges \o first \in Seq(T)
      /\ b.edges \o first \o row \in Seq(T)
  BY <1>0, <1>1, <1>2
<1>5. /\ c \in BuildStates
      /\ c.nodes = b.nodes \o new /\ c.lists = b.lists /\ c.stack = b.stack
      /\ c.edges = b.edges \o first \o row
  BY <1>3, <1>4 DEF BuildStates, T
<1>6. Range(c.edges) = Range(b.edges) \cup Range(first) \cup Range(row)
  <2>1. Range(b.edges \o first) = Range(b.edges) \cup Range(first)
    BY <1>0, <1>1, RangeOfJoin
  <2> DEFINE most == b.edges \o first
  <2>2. Range(most \o row) = Range(most) \cup Range(row)
    <3>1. most \in Seq(T)
      BY <1>4
    <3> HIDE DEF most
    <3>2. QED
      BY <1>2, <3>1, RangeOfJoin
  <2>3. QED
    BY <1>5, <2>1, <2>2
<1>7. QED
  BY <1>1, <1>2, <1>5, <1>6 DEF c, n

SameButStack(b, c) == c.nodes = b.nodes /\ c.edges = b.edges /\ c.lists = b.lists

LEMMA ResumeIs ==
  ASSUME NEW b \in BuildStates, b.stack # <<>>, NEW call \in Calls
  PROVE  LET c == Resume(b, call)
         IN  /\ c \in BuildStates /\ SameButStack(b, c)
             /\ Len(c.stack) = Len(b.stack) /\ c.stack[Len(b.stack)] = call
             /\ \A i \in 1 .. Len(b.stack) - 1 : c.stack[i] = b.stack[i]
<1> DEFINE c == Resume(b, call)
<1>1. b.stack \in Seq(Calls) /\ Len(b.stack) \in DOMAIN b.stack
  BY DEF BuildStates
<1>2. [b.stack EXCEPT ![Len(b.stack)] = call] \in Seq(Calls)
  BY <1>1
<1>3. c = [b EXCEPT !.stack = [b.stack EXCEPT ![Len(b.stack)] = call]]
  BY DEF Resume
<1> HIDE DEF c
<1>4. c \in BuildStates /\ SameButStack(b, c) /\ c.stack = [b.stack EXCEPT ![Len(b.stack)] = call]
  BY <1>2, <1>3 DEF BuildStates, SameButStack
<1>5. QED
  BY <1>1, <1>4 DEF c

LEMMA EnterIs ==
  ASSUME NEW b \in BuildStates, NEW calls \in Seq(Calls)
  PROVE  LET c == Enter(b, calls)
         IN  /\ c \in BuildStates /\ SameButStack(b, c)
             /\ Len(c.stack) = Len(b.stack) + Len(calls)
             /\ \A i \in 1 .. Len(b.stack) : c.stack[i] = b.stack[i]
             /\ \A i \in 1 .. Len(calls) : c.stack[Len(b.stack) + i] = calls[i]
<1> DEFINE c == Enter(b, calls)
<1>1. b.stack \in Seq(Calls)
  BY DEF BuildStates
<1>2. b.stack \o calls \in Seq(Calls)
  BY <1>1
<1>3. c = [b EXCEPT !.stack = b.stack \o calls]
  BY DEF Enter
<1> HIDE DEF c
<1>4. c \in BuildStates /\ SameButStack(b, c) /\ c.stack = b.stack \o calls
  BY <1>2, <1>3 DEF BuildStates, SameButStack
<1>5. QED
  BY <1>1, <1>4 DEF c

LEMMA LeaveIs ==
  ASSUME NEW b \in BuildStates, b.stack # <<>>
  PROVE  LET c == Leave(b)
         IN  /\ c \in BuildStates /\ SameButStack(b, c)
             /\ Len(c.stack) = Len(b.stack) - 1
             /\ \A i \in 1 .. Len(b.stack) - 1 : c.stack[i] = b.stack[i]
<1> DEFINE c == Leave(b)
           rest == SubSeq(b.stack, 1, Len(b.stack) - 1)
<1>1. b.stack \in Seq(Calls) /\ Len(b.stack) \in Nat \ {0}
  BY DEF BuildStates
<1>2. rest \in Seq(Calls) /\ Len(rest) = Len(b.stack) - 1
      /\ \A i \in 1 .. Len(b.stack) - 1 : rest[i] = b.stack[i]
  BY <1>1
<1>3. c = [b EXCEPT !.stack = rest]
  BY DEF Leave
<1> HIDE DEF c, rest
<1>4. c \in BuildStates /\ SameButStack(b, c) /\ c.stack = rest
  BY <1>2, <1>3 DEF BuildStates, SameButStack
<1>5. QED
  BY <1>2, <1>4 DEF c

LEMMA MakeListIs ==
  ASSUME NEW b \in BuildStates, NEW nodes \in Seq(Nat)
  PROVE  LET c == MakeList(b, nodes)
         IN  /\ c \in BuildStates
             /\ c.nodes = b.nodes /\ c.edges = b.edges /\ c.stack = b.stack
             /\ Len(c.lists) = Len(b.lists) + 1 /\ c.lists[Len(b.lists) + 1] = nodes
             /\ \A t \in DOMAIN b.lists : c.lists[t] = b.lists[t]
<1> DEFINE c == MakeList(b, nodes)
<1>1. b.lists \in Seq(Seq(Nat))
  BY DEF BuildStates
<1>2. Append(b.lists, nodes) \in Seq(Seq(Nat))
  BY <1>1
<1>3. c = [b EXCEPT !.lists = Append(b.lists, nodes)]
  BY DEF MakeList
<1> HIDE DEF c
<1>4. c \in BuildStates /\ c.lists = Append(b.lists, nodes)
      /\ c.nodes = b.nodes /\ c.edges = b.edges /\ c.stack = b.stack
  BY <1>2, <1>3 DEF BuildStates
<1>5. QED
  BY <1>1, <1>4 DEF c

LEMMA BlockChanges ==
  ASSUME NEW call \in BlockCalls
  PROVE  /\ call \in Calls
         /\ \A stmts \in Bodies : [call EXCEPT !.stmts = stmts] = Block(stmts, call.tails)
         /\ \A t \in Nat : [call EXCEPT !.tails = t] = Block(call.stmts, t)
         /\ \A stmts \in Bodies, t \in Nat : Block(stmts, t) \in BlockCalls
BY DEF Block, BlockCalls, Calls

\* The innermost call, a block, goes on with a new list.
LEMMA AttachToIs ==
  ASSUME NEW b \in BuildStates, b.stack # <<>>, Active(b).k = "block", NEW nodes \in Seq(Nat)
  PROVE  LET c == AttachTo(b, nodes)
             t == Len(b.lists) + 1
         IN  /\ c \in BuildStates /\ c.nodes = b.nodes /\ c.edges = b.edges
             /\ Len(c.lists) = t /\ c.lists[t] = nodes
             /\ \A u \in DOMAIN b.lists : c.lists[u] = b.lists[u]
             /\ Len(c.stack) = Len(b.stack)
             /\ c.stack[Len(b.stack)] = Block(Active(b).stmts, t)
             /\ \A i \in 1 .. Len(b.stack) - 1 : c.stack[i] = b.stack[i]
<1> DEFINE t == Len(b.lists) + 1
           call == [Active(b) EXCEPT !.tails = t]
<1>1. Sizes(b) /\ Len(b.stack) \in DOMAIN b.stack
  <2>1. b.stack \in Seq(Calls)
    BY DEF BuildStates
  <2>2. Len(b.stack) \in DOMAIN b.stack
    BY <2>1
  <2>3. QED
    BY <2>2, HasSizes
<1>2. Active(b) \in BlockCalls
  BY <1>1 DEF Active, Calls, BlockCalls, Forks, Sizes
<1>3. call = Block(Active(b).stmts, t) /\ call \in Calls
  <2>1. t \in Nat /\ Active(b).stmts \in Bodies
    BY <1>1, <1>2 DEF Sizes, BlockCalls
  <2> HIDE DEF t
  <2>2. call = Block(Active(b).stmts, t) /\ call \in BlockCalls
    BY <1>2, <2>1, BlockChanges
  <2>3. QED
    BY <2>2 DEF Calls
<1> DEFINE d == Resume(b, call)
<1>4. /\ d \in BuildStates /\ SameButStack(b, d)
      /\ Len(d.stack) = Len(b.stack) /\ d.stack[Len(b.stack)] = call
      /\ \A i \in 1 .. Len(b.stack) - 1 : d.stack[i] = b.stack[i]
  BY <1>3, ResumeIs
<1>5. AttachTo(b, nodes) = MakeList(d, nodes)
  BY DEF AttachTo
<1> HIDE DEF d, call
<1> DEFINE c == MakeList(d, nodes)
<1>6. /\ c \in BuildStates
      /\ c.nodes = d.nodes /\ c.edges = d.edges /\ c.stack = d.stack
      /\ Len(c.lists) = Len(d.lists) + 1 /\ c.lists[Len(d.lists) + 1] = nodes
      /\ \A u \in DOMAIN d.lists : c.lists[u] = d.lists[u]
  BY <1>4, MakeListIs
<1> HIDE DEF c
<1>7. /\ c \in BuildStates /\ c.nodes = b.nodes /\ c.edges = b.edges
      /\ Len(c.lists) = t /\ c.lists[t] = nodes
      /\ \A u \in DOMAIN b.lists : c.lists[u] = b.lists[u]
      /\ Len(c.stack) = Len(b.stack)
      /\ c.stack[Len(b.stack)] = call
      /\ \A i \in 1 .. Len(b.stack) - 1 : c.stack[i] = b.stack[i]
  BY <1>4, <1>6 DEF SameButStack
<1>8. QED
  BY <1>3, <1>5, <1>7 DEF c

BranchLabels == {"true", "false", "case"}

\* The loop over the edges at the end of _connect_branch.
LEMMA RelabelIs ==
  ASSUME NEW b \in BuildStates, NEW before \in Nat, NEW cond \in Nat, NEW label \in BranchLabels
  PROVE  LET c == Relabel(b, before, cond, label)
         IN  /\ c \in BuildStates /\ SameButEdges(b, c)
             /\ \A f \in Range(c.edges) : \E e \in Range(b.edges) : Twins(e, f)
             /\ \A e \in Range(b.edges) : \E f \in Range(c.edges) : Twins(e, f)
<1> DEFINE T == [src : Nat, dst : Nat, label : EdgeLabels]
           hit(i) == i > before /\ b.edges[i].src = cond /\ b.edges[i].label = "seq"
           new(i) == IF hit(i) THEN [b.edges[i] EXCEPT !.label = label] ELSE b.edges[i]
           edges == [i \in DOMAIN b.edges |-> new(i)]
           c == Relabel(b, before, cond, label)
<1>1. b.edges \in Seq(T) /\ DOMAIN b.edges = 1 .. Len(b.edges) /\ Len(b.edges) \in Nat
  BY DEF BuildStates
<1>2. c = [b EXCEPT !.edges = edges]
  BY DEF Relabel
<1>3. ASSUME NEW i \in DOMAIN b.edges PROVE new(i) \in T /\ Twins(b.edges[i], new(i))
  <2>1. b.edges[i] \in T
    <3> HIDE DEF T
    <3>1. QED
      BY <1>1
  <2>2. CASE hit(i)
    <3>1. /\ new(i) = [src |-> b.edges[i].src, dst |-> b.edges[i].dst, label |-> label]
          /\ label # "back" /\ label \in EdgeLabels
      BY <2>1, <2>2 DEF BranchLabels, EdgeLabels
    <3>2. b.edges[i].label = "seq"
      BY <2>2
    <3> HIDE DEF new
    <3>3. QED
      BY <2>1, <3>1, <3>2 DEF Twins
  <2>3. CASE ~hit(i)
    BY <2>1, <2>3 DEF Twins
  <2>4. QED
    BY <2>2, <2>3
<1> HIDE DEF new, c, T
<1>4. edges \in Seq(T) /\ DOMAIN edges = DOMAIN b.edges
      /\ \A i \in DOMAIN edges : edges[i] = new(i)
  BY <1>1, <1>3
<1> HIDE DEF edges
<1>5. c \in BuildStates /\ SameButEdges(b, c) /\ c.edges = edges
  BY <1>2, <1>4 DEF BuildStates, SameButEdges, T
<1>6. \A f \in Range(edges) : \E e \in Range(b.edges) : Twins(e, f)
  BY <1>3, <1>4 DEF Range
<1>7. \A e \in Range(b.edges) : \E f \in Range(edges) : Twins(e, f)
  BY <1>3, <1>4 DEF Range
<1>8. QED
  BY <1>5, <1>6, <1>7 DEF c

----------------------------------------------------------------------------
(* A statement adds its nodes.                                             *)

\* The innermost call is a block with nodes to go on from.
LEMMA BlockIs ==
  ASSUME NEW b, TypeInv(b), HeldInv(b), In(b, {"block"})
  PROVE  LET n == Len(b.stack)
         IN  /\ Sizes(b) /\ b \in BuildStates /\ n \in DOMAIN b.stack /\ b.stack # <<>>
             /\ Active(b) = b.stack[n] /\ Active(b).k = "block"
             /\ Active(b) = Block(Active(b).stmts, Active(b).tails)
             /\ Active(b) \in BlockCalls /\ Active(b).stmts \in Bodies
             /\ Active(b).tails \in DOMAIN b.lists /\ Active(b).tails # NoList
             /\ Tails(b) \in Seq(Nat)
             /\ Range(Tails(b)) \subseteq NodeIds(b) \ {ExitId}
             /\ Held(b, b.stack[n]) = Range(Tails(b)) /\ Pending(b, n) = Range(Tails(b))
             /\ HeldFrom(b, n) = Range(Tails(b))
             /\ \A c \in Conds(b) : \A m \in Range(Tails(b)) : m >= c
<1> DEFINE n == Len(b.stack)
<1>1. Sizes(b) /\ b \in BuildStates
  BY HasSizes DEF TypeInv
<1>2. n \in DOMAIN b.stack /\ Active(b) = b.stack[n] /\ Active(b).k = "block" /\ b.stack # <<>>
  <2>1. b.stack \in Seq(Calls)
    BY <1>1 DEF BuildStates
  <2>2. QED
    BY <2>1 DEF In, Built, Active
<1>3. Active(b) \in BlockCalls
  BY <1>1, <1>2 DEF Sizes, Calls, Forks, BlockCalls
<1>4. /\ Active(b) = Block(Active(b).stmts, Active(b).tails) /\ Active(b).stmts \in Bodies
      /\ Active(b).tails \in DOMAIN b.lists /\ Active(b).tails # NoList
  <2>1. IsPlaced(b, b.stack[n])
    BY <1>2 DEF TypeInv
  <2>2. Active(b).tails \in DOMAIN b.lists
    BY <1>2, <2>1 DEF IsPlaced
  <2>3. QED
    BY <1>1, <1>3, <2>2 DEF Block, BlockCalls, Sizes, NoList
<1>5. /\ Tails(b) \in Seq(Nat) /\ Range(Tails(b)) \subseteq NodeIds(b) \ {ExitId}
  BY <1>1, <1>4 DEF Tails, TypeInv, BuildStates
<1>6. Held(b, b.stack[n]) = Range(Tails(b)) /\ Pending(b, n) = Range(Tails(b))
  BY <1>2, <1>4 DEF Held, Pending, Listed, Tails
<1>7. HeldFrom(b, n) = Range(Tails(b))
  <2>1. n .. Len(b.stack) = {n}
    BY <1>1 DEF Sizes
  <2>2. QED
    BY <1>6, <2>1 DEF HeldFrom
<1>8. ASSUME NEW i \in ForksOf(b), NEW m \in Range(Tails(b)) PROVE m >= b.stack[i].cond
  <2>1. n \in i .. Len(b.stack)
    BY <1>1 DEF ForksOf, Sizes
  <2>2. m \in b.stack[i].cond .. Len(b.nodes)
    BY <1>6, <2>1 DEF HeldInv
  <2>3. IsPlaced(b, b.stack[i]) /\ b.stack[i].k \in Forks
    BY DEF ForksOf, TypeInv
  <2>4. QED
    BY <1>1, <2>2, <2>3 DEF IsPlaced, Sizes
<1>9. QED
  BY <1>1, <1>2, <1>3, <1>4, <1>5, <1>6, <1>7, <1>8 DEF Conds

\* F has the edges of b and of a chain of k nodes behind the tails.
Chained(b, k, F) ==
  /\ Range(b.edges) \subseteq F
  /\ EdgesFrom(Tails(b), Len(b.nodes) + 1, "seq") \subseteq F
  /\ InARow(Len(b.nodes), k) \subseteq F

\* Edges of a chain, and edges from its nodes to the exit, lead onwards.
LEMMA ChainExtends ==
  ASSUME NEW b, Inv(b), AtStatement(b), NEW k \in Nat \ {0}, NEW F, Chained(b, k, F),
         \A f \in F : \/ f \in Range(b.edges)
                      \/ f \in EdgesFrom(Tails(b), Len(b.nodes) + 1, "seq")
                      \/ f \in InARow(Len(b.nodes), k)
                      \/ /\ f.label # "back" /\ f.dst = ExitId
                         /\ f.src \in Len(b.nodes) + 1 .. Len(b.nodes) + k
  PROVE  Extends(Len(b.nodes), Len(b.nodes) + k, Conds(b), Range(b.edges), F)
<1> DEFINE N == Len(b.nodes)
           M == N + k
           E == Range(b.edges)
<1>0. /\ TypeInv(b) /\ HeldInv(b) /\ In(b, {"block"}) /\ Sizes(b)
      /\ N \in Nat /\ M \in Nat /\ N < M /\ N >= 2
      /\ Conds(b) \in SUBSET (3 .. N)
  BY CondsAreNodes, HasSizes DEF Inv, AtStatement, TypeInv, Sizes, ExitId
<1>1. /\ Tails(b) \in Seq(Nat) /\ Range(Tails(b)) \subseteq NodeIds(b) \ {ExitId}
      /\ \A c \in Conds(b) : \A m \in Range(Tails(b)) : m >= c
  BY <1>0, BlockIs
<1>2. ASSUME NEW f \in F PROVE (\E e \in E : Twins(e, f)) \/ Onwards(N, M, Conds(b), f)
  <2>1. CASE f \in E
    BY <2>1 DEF Twins
  <2>2. CASE f \in EdgesFrom(Tails(b), N + 1, "seq")
    <3>1. /\ f.src \in Range(Tails(b)) /\ f.dst = N + 1 /\ f.label = "seq"
      BY <2>2 DEF EdgesFrom
    <3>2. f.src \in NodeIds(b) \ {ExitId}
      BY <1>1, <3>1
    <3>3. QED
      BY <1>0, <1>1, <3>1, <3>2 DEF Onwards, NodeIds
  <2>3. CASE f \in InARow(N, k)
    <3>0. PICK i \in 1 .. k - 1 : f = [src |-> N + i, dst |-> N + i + 1, label |-> "seq"]
      BY <2>3 DEF InARow
    <3>1. f.src = N + i /\ f.dst = N + i + 1 /\ f.label = "seq"
      BY <3>0
    <3>2. /\ f.src \in (1 .. M) \ {ExitId} /\ f.dst \in N + 1 .. M /\ f.src < f.dst
          /\ f.src > N
      BY <1>0, <3>1 DEF ExitId
    <3>3. \A c \in Conds(b) : f.src >= c
      BY <1>0, <3>2
    <3>4. QED
      BY <3>1, <3>2, <3>3 DEF Onwards
  <2>4. CASE f.label # "back" /\ f.dst = ExitId /\ f.src \in N + 1 .. M
    BY <1>0, <2>4 DEF Onwards, ExitId
  <2>5. QED
    BY <2>1, <2>2, <2>3, <2>4
<1>3. \A e \in E : \E f \in F : Twins(e, f)
  BY DEF Chained, Twins
<1>4. ASSUME NEW n \in N + 1 .. M PROVE \E f \in F : f.dst = n /\ f.src < n
  <2>1. CASE n = N + 1
    <3> DEFINE m == Tails(b)[1]
    <3>1. m \in Range(Tails(b))
      <4>1. 1 \in DOMAIN Tails(b)
        BY <1>1 DEF AtStatement
      <4>2. QED
        BY <4>1 DEF Range
    <3>2. [src |-> m, dst |-> N + 1, label |-> "seq"] \in F
      BY <3>1 DEF Chained, EdgesFrom
    <3>3. m \in NodeIds(b)
      BY <1>1, <3>1
    <3> HIDE DEF m
    <3>4. QED
      BY <1>0, <2>1, <3>2, <3>3 DEF NodeIds
  <2>2. CASE n # N + 1
    <3> DEFINE i == n - N - 1
    <3>1. i \in 1 .. k - 1 /\ n = N + i + 1
      BY <1>0, <2>2
    <3>2. [src |-> N + i, dst |-> N + i + 1, label |-> "seq"] \in F
      BY <3>1 DEF Chained, InARow
    <3>3. QED
      BY <1>0, <3>1, <3>2
  <2>3. QED
    BY <2>1, <2>2
<1>5. QED
  BY <1>2, <1>3, <1>4 DEF Extends

\* Where the last node of a chain leads, all of it leads, and so do the tails before it.
LEMMA ChainLeads ==
  ASSUME NEW b, Inv(b), AtStatement(b), NEW k \in Nat \ {0}, NEW F, Chained(b, k, F), NEW L,
         Leads(F, L, Len(b.nodes) + k)
  PROVE  /\ \A n \in Len(b.nodes) + 1 .. Len(b.nodes) + k : Leads(F, L, n)
         /\ \A m \in Range(Tails(b)) : Leads(F, L, m)
<1> DEFINE N == Len(b.nodes)
           M == N + k
           out == {n \in -M .. -(N + 1) : ~Leads(F, L, -n)}
<1>0. N \in Nat /\ M \in Nat /\ N < M
  BY HasSizes DEF Inv, TypeInv, Sizes
<1>1. ASSUME out # {} PROVE FALSE
  <2>1. IsFiniteSet(out) /\ out \subseteq Int
    <3>1. IsFiniteSet(-M .. -(N + 1))
      BY <1>0, FS_Interval
    <3>2. QED
      BY <1>0, <3>1, FS_Subset
  <2>2. PICK m \in out : \A x \in out : m <= x
    <3> HIDE DEF out
    <3>1. QED
      BY <1>1, <2>1, LeastExists
  <2>3. m \in Int /\ -m \in N + 1 .. M /\ ~Leads(F, L, -m)
    BY <1>0
  <2>4. m # -M
    BY <1>0, <2>3
  <2>5. Leads(F, L, -m + 1)
    <3>1. m - 1 \notin out
      <4> HIDE DEF out
      <4>1. QED
        BY <2>2, <2>3
    <3>2. m - 1 \in -M .. -(N + 1)
      BY <1>0, <2>3, <2>4
    <3>3. -(m - 1) = -m + 1
      BY <2>3
    <3>4. QED
      BY <3>1, <3>2, <3>3
  <2> DEFINE i == -m - N
             e == [src |-> N + i, dst |-> N + i + 1, label |-> "seq"]
  <2>6. i \in 1 .. k - 1 /\ N + i = -m /\ N + i + 1 = -m + 1
    BY <1>0, <2>3, <2>4
  <2>7. e \in F
    BY <2>6 DEF Chained, InARow
  <2>8. e.src = -m /\ e.dst = -m + 1
    BY <2>6
  <2> HIDE DEF e
  <2>9. QED
    BY <2>3, <2>5, <2>7, <2>8, LeadsAlong
<1>2. ASSUME NEW n \in N + 1 .. M PROVE Leads(F, L, n)
  <2>1. -n \in -M .. -(N + 1) /\ -(-n) = n
    BY <1>0
  <2>2. QED
    BY <1>1, <2>1
<1>3. ASSUME NEW m \in Range(Tails(b)) PROVE Leads(F, L, m)
  <2> DEFINE e == [src |-> m, dst |-> N + 1, label |-> "seq"]
  <2>1. e \in F
    BY DEF Chained, EdgesFrom
  <2>2. Leads(F, L, N + 1)
    BY <1>0, <1>2
  <2>3. e.src = m /\ e.dst = N + 1
    OBVIOUS
  <2> HIDE DEF e
  <2>4. QED
    BY <2>1, <2>2, <2>3, LeadsAlong
<1>4. QED
  BY <1>2, <1>3

\* The statement at hand.
LEMMA StmtIs ==
  ASSUME NEW b, TypeInv(b), HeldInv(b), AtStatement(b)
  PROVE  /\ Stmt(b) \in Statements /\ IsStatement(Stmt(b))
         /\ Tail(Active(b).stmts) \in Bodies
<1>1. Active(b).stmts \in Bodies /\ Active(b).stmts # <<>>
  BY BlockIs DEF AtStatement
<1> DEFINE body == Active(b).stmts
<1>2. Head(body) \in Statements /\ Tail(body) \in Seq(Statements)
  <2> HIDE DEF body
  <2>1. body \in Seq(Statements) /\ body # <<>>
    BY <1>1 DEF body, Bodies
  <2>2. QED
    BY <2>1
<1>3. QED
  BY <1>2, BuilderAssumption DEF Stmt, Bodies

\* _BuildState.add.
LEMMA PlainIsNode ==
  ASSUME NEW kind \in Kinds, NEW label \in NodeLabels
  PROVE  /\ Plain(kind, label) \in GraphNodes
         /\ Plain(kind, label).kind = kind /\ Plain(kind, label).label = label
<1>1. [k |-> "keep"] \in Updates /\ [k |-> "none"] \in Conditions
  BY DEF Updates, Conditions, Atoms, Values
<1> DEFINE up == [k |-> "keep"]
           cond == [k |-> "none"]
<1> HIDE DEF up, cond
<1>2. Plain(kind, label) =
        [kind |-> kind, label |-> label, roots |-> {}, update |-> up, cond |-> cond,
         scan |-> {}]
  BY DEF Plain, up, cond
<1>3. up \in Updates /\ cond \in Conditions
  BY <1>1 DEF up, cond
<1>4. QED
  BY <1>2, <1>3 DEF GraphNodes

\* emit_calls.
LEMMA CallNodesAre ==
  ASSUME NEW stmt, stmt.calls \in Seq(SUBSET Sites)
  PROVE  CallNodes(stmt) \in Seq(GraphNodes)
<1>1. Plain("call", "call") \in GraphNodes
  BY PlainIsNode DEF Kinds, NodeLabels
<1> DEFINE p == Plain("call", "call")
           f == [i \in DOMAIN stmt.calls |-> [p EXCEPT !.scan = stmt.calls[i]]]
<1> HIDE DEF p
<1>2. ASSUME NEW i \in DOMAIN stmt.calls PROVE [p EXCEPT !.scan = stmt.calls[i]] \in GraphNodes
  BY <1>1 DEF p, GraphNodes
<1>3. f \in Seq(GraphNodes)
  <2>1. DOMAIN stmt.calls = 1 .. Len(stmt.calls) /\ Len(stmt.calls) \in Nat
    OBVIOUS
  <2> HIDE DEF GraphNodes
  <2>2. QED
    BY <1>2, <2>1
<1>4. QED
  BY <1>3 DEF CallNodes, p

LEMMA ProceedIs ==
  ASSUME NEW b, TypeInv(b), HeldInv(b), AtStatement(b)
  PROVE  LET c == Proceed(b)
             n == Len(b.stack)
         IN  /\ c \in BuildStates /\ SameButStack(b, c)
             /\ Len(c.stack) = n
             /\ c.stack[n] = Block(Tail(Active(b).stmts), Active(b).tails)
             /\ \A i \in 1 .. n - 1 : c.stack[i] = b.stack[i]
<1> DEFINE call == Block(Tail(Active(b).stmts), Active(b).tails)
<1>1. /\ Sizes(b) /\ b \in BuildStates /\ b.stack # <<>>
      /\ Active(b).tails \in DOMAIN b.lists
      /\ Active(b) \in BlockCalls /\ Tail(Active(b).stmts) \in Bodies
  BY BlockIs, StmtIs DEF AtStatement
<1>2. Proceed(b) = Resume(b, call)
  <2>1. [Active(b) EXCEPT !.stmts = Tail(@)] = call
    BY <1>1, BlockChanges
  <2>2. QED
    BY <2>1 DEF Proceed
<1>3. call \in Calls
  BY <1>1 DEF Block, Calls, BlockCalls, Sizes
<1> HIDE DEF call
<1>4. QED
  BY <1>1, <1>2, <1>3, ResumeIs DEF call

LEMMA EmittedIs ==
  ASSUME NEW b, TypeInv(b), HeldInv(b), AtStatement(b),
         NEW new \in Seq(GraphNodes), Len(new) >= 1
  PROVE  LET c == Emitted(b, new)
             n == Len(b.stack)
         IN  /\ c \in BuildStates /\ c.lists = b.lists
             /\ Len(c.nodes) = Len(b.nodes) + Len(new)
             /\ \A m \in NodeIds(b) : c.nodes[m] = b.nodes[m]
             /\ c.nodes[Len(c.nodes)] = new[Len(new)]
             /\ Range(c.edges) = Range(b.edges)
                                 \cup EdgesFrom(Tails(b), Len(b.nodes) + 1, "seq")
                                 \cup InARow(Len(b.nodes), Len(new))
             /\ Len(c.stack) = n /\ c.stack # <<>>
             /\ c.stack[n] = Block(Tail(Active(b).stmts), Active(b).tails)
             /\ \A i \in 1 .. n - 1 : c.stack[i] = b.stack[i]
<1> DEFINE n == Len(b.stack)
           d == Proceed(b)
           c == Chain(d, Tails(b), new)
<1>1. Sizes(b) /\ b \in BuildStates /\ b.stack # <<>> /\ Tails(b) \in Seq(Nat)
  BY BlockIs DEF AtStatement
<1>2. /\ d \in BuildStates /\ SameButStack(b, d)
      /\ Len(d.stack) = Len(b.stack)
      /\ d.stack[Len(b.stack)] = Block(Tail(Active(b).stmts), Active(b).tails)
      /\ \A i \in 1 .. Len(b.stack) - 1 : d.stack[i] = b.stack[i]
  BY ProceedIs
<1> HIDE DEF d
<1>3. /\ c \in BuildStates
      /\ c.nodes = d.nodes \o new /\ c.lists = d.lists /\ c.stack = d.stack
      /\ Range(c.edges) = Range(d.edges) \cup EdgesFrom(Tails(b), Len(d.nodes) + 1, "seq")
                          \cup InARow(Len(d.nodes), Len(new))
  BY <1>1, <1>2, ChainIs
<1>4. Emitted(b, new) = c
  BY DEF Emitted, d
<1> HIDE DEF c
<1>5. /\ Len(c.nodes) = Len(b.nodes) + Len(new)
      /\ \A m \in NodeIds(b) : c.nodes[m] = b.nodes[m]
      /\ c.nodes[Len(c.nodes)] = new[Len(new)]
  <2>1. b.nodes \in Seq(GraphNodes) /\ c.nodes = b.nodes \o new
    BY <1>1, <1>2, <1>3 DEF BuildStates, SameButStack
  <2>2. QED
    BY <2>1, JoinIs DEF NodeIds
<1>6. c.stack # <<>>
  <2>1. Len(c.stack) = Len(b.stack) /\ Len(b.stack) # 0
    BY <1>1, <1>2, <1>3 DEF BuildStates
  <2>2. QED
    BY <2>1
<1>7. QED
  BY <1>2, <1>3, <1>4, <1>5, <1>6 DEF SameButStack

\* c has the nodes of b and more, and a new list.
Lists(b, c, nodes) ==
  /\ Len(b.nodes) <= Len(c.nodes)
  /\ \A n \in NodeIds(b) : c.nodes[n] = b.nodes[n]
  /\ Len(c.lists) = Len(b.lists) + 1 /\ c.lists[Len(b.lists) + 1] = nodes
  /\ \A t \in DOMAIN b.lists : c.lists[t] = b.lists[t]

\* The innermost call is a block at p that goes on with that list.
GoesOn(b, c, p, stmts) ==
  /\ Len(c.stack) = p /\ c.stack[p] = Block(stmts, Len(b.lists) + 1)
  /\ \A i \in 1 .. p - 1 : c.stack[i] = b.stack[i]

LEMMA Attached ==
  ASSUME NEW b, TypeInv(b), NEW c \in BuildStates, NEW p \in DOMAIN b.stack,
         b.stack[p].k = "block", NEW nodes,
         Range(nodes) \subseteq HeldFrom(b, p) \cup NewNodes(b, c),
         Lists(b, c, nodes), NEW stmts, GoesOn(b, c, p, stmts)
  PROVE  Follows(b, c, p) /\ Range(nodes) \subseteq Live(c)
<1>0. Sizes(b) /\ Sizes(c) /\ p \in Nat /\ p >= 1 /\ p \in DOMAIN c.stack
  BY HasSizes DEF TypeInv, Sizes, GoesOn
<1> DEFINE t == Len(b.lists) + 1
           call == c.stack[p]
<1>1. call.k = "block" /\ call.tails = t /\ t # NoList /\ t \in DOMAIN c.lists
  BY <1>0 DEF Block, NoList, Sizes, Lists, GoesOn
<1>2. Behind(b, c, p)
  BY <1>0, <1>1 DEF Behind, Forks, GoesOn
<1>3. Grown(b, c, HeldFrom(b, p))
  BY <1>0 DEF Grown, Sizes, Lists
<1>4. Held(c, call) = Range(nodes) /\ Pending(c, p) = Range(nodes)
  BY <1>1 DEF Held, Pending, Listed, Lists, GoesOn
<1>5. ASSUME NEW i \in p .. Len(c.stack) PROVE IsRenewed(b, c, p, i)
  <2>1. i = p
    BY <1>0 DEF GoesOn
  <2>2. IsPlaced(c, call)
    BY <1>1 DEF IsPlaced, Forks
  <2>3. QED
    BY <1>0, <1>1, <1>4, <2>1, <2>2 DEF IsRenewed, Forks
<1>6. ASSUME NEW u \in DOMAIN c.lists \ DOMAIN b.lists
      PROVE  Range(c.lists[u]) \subseteq HeldFrom(b, p) \cup NewNodes(b, c)
  <2>1. u = t
    BY <1>0 DEF Sizes, Lists
  <2>2. QED
    BY <2>1 DEF Lists
<1>7. QED
  BY <1>0, <1>2, <1>3, <1>4, <1>5, <1>6 DEF Follows, Live

\* A block, in which a chain of nodes was added, goes on after the last of them.
LEMMA ChainAttached ==
  ASSUME NEW b, Inv(b), AtStatement(b), NEW new \in Seq(GraphNodes), Len(new) >= 1,
         NEW nodes \in Seq(Nat),
         Range(nodes) \subseteq Len(b.nodes) + 1 .. Len(b.nodes) + Len(new),
         NEW c \in BuildStates,
         LET e == Emitted(b, new)
         IN  /\ SameButEdges(e, c) /\ Range(e.edges) \subseteq Range(c.edges)
             /\ \A f \in Range(c.edges) \ Range(e.edges) :
                  /\ f.label # "back" /\ f.dst = ExitId
                  /\ f.src \in Len(b.nodes) + 1 .. Len(b.nodes) + Len(new)
  PROVE  LET d == AttachTo(c, nodes)
             F == Range(d.edges)
         IN  /\ d \in BuildStates /\ d.nodes = c.nodes /\ d.edges = c.edges
             /\ Follows(b, d, Len(b.stack)) /\ Range(nodes) \subseteq Live(d)
             /\ Chained(b, Len(new), F)
             /\ Leads(F, Live(d), Len(d.nodes)) => Inv(d)
<1> DEFINE n == Len(b.stack)
           k == Len(new)
           e == Emitted(b, new)
           d == AttachTo(c, nodes)
           F == Range(d.edges)
           stmts == Tail(Active(b).stmts)
<1>0. TypeInv(b) /\ HeldInv(b) /\ In(b, {"block"}) /\ k \in Nat \ {0}
  BY DEF Inv, AtStatement
<1>1. /\ Sizes(b) /\ b \in BuildStates /\ n \in DOMAIN b.stack /\ b.stack[n].k = "block"
      /\ HeldFrom(b, n) = Range(Tails(b)) /\ Pending(b, n) = Range(Tails(b))
  BY <1>0, BlockIs
<1>2. /\ e \in BuildStates /\ e.lists = b.lists
      /\ Len(e.nodes) = Len(b.nodes) + k
      /\ \A m \in NodeIds(b) : e.nodes[m] = b.nodes[m]
      /\ Range(e.edges) = Range(b.edges) \cup EdgesFrom(Tails(b), Len(b.nodes) + 1, "seq")
                          \cup InARow(Len(b.nodes), k)
      /\ Len(e.stack) = n /\ e.stack # <<>>
      /\ e.stack[n] = Block(stmts, Active(b).tails)
      /\ \A i \in 1 .. n - 1 : e.stack[i] = b.stack[i]
  BY <1>0, EmittedIs
<1> HIDE DEF e
<1>3. /\ c.nodes = e.nodes /\ c.lists = e.lists /\ c.stack = e.stack
      /\ Range(e.edges) \subseteq Range(c.edges)
      /\ \A f \in Range(c.edges) \ Range(e.edges) :
           /\ f.label # "back" /\ f.dst = ExitId
           /\ f.src \in Len(b.nodes) + 1 .. Len(b.nodes) + k
  BY DEF e, SameButEdges
<1> HIDE DEF stmts
<1>4. Active(c).k = "block" /\ Active(c).stmts = stmts /\ c.stack # <<>> /\ Len(c.stack) = n
  <2>1. Active(c) = Block(stmts, Active(b).tails) /\ c.stack # <<>> /\ Len(c.stack) = n
    <3> HIDE DEF n
    <3>1. c.stack # <<>> /\ Len(c.stack) = n /\ c.stack[n] = Block(stmts, Active(b).tails)
      BY <1>2, <1>3
    <3>2. QED
      BY <3>1 DEF Active
  <2>2. QED
    BY <2>1 DEF Block
<1>5. /\ d \in BuildStates /\ d.nodes = c.nodes /\ d.edges = c.edges
      /\ Len(d.lists) = Len(c.lists) + 1 /\ d.lists[Len(c.lists) + 1] = nodes
      /\ \A u \in DOMAIN c.lists : d.lists[u] = c.lists[u]
      /\ Len(d.stack) = n
      /\ d.stack[n] = Block(stmts, Len(c.lists) + 1)
      /\ \A i \in 1 .. n - 1 : d.stack[i] = c.stack[i]
  BY <1>4, AttachToIs
<1> HIDE DEF d
<1>6. /\ Len(d.nodes) = Len(b.nodes) + k
      /\ Lists(b, d, nodes) /\ GoesOn(b, d, n, stmts)
  <2>1. Len(d.nodes) = Len(b.nodes) + k /\ Len(b.nodes) <= Len(d.nodes)
    BY <1>0, <1>1, <1>2, <1>3, <1>5 DEF Sizes
  <2>2. QED
    BY <1>2, <1>3, <1>5, <2>1 DEF Lists, GoesOn
<1>7. Len(b.nodes) \in Nat /\ NewNodes(b, d) = Len(b.nodes) + 1 .. Len(b.nodes) + k
  BY <1>1, <1>6 DEF NewNodes, Sizes
<1>8. Follows(b, d, n) /\ Range(nodes) \subseteq Live(d)
  <2>1. Range(nodes) \subseteq HeldFrom(b, n) \cup NewNodes(b, d)
    BY <1>7
  <2> HIDE DEF n
  <2>2. QED
    BY <1>0, <1>1, <1>5, <1>6, <2>1, Attached
<1>9. Chained(b, k, F)
  BY <1>2, <1>3, <1>5 DEF Chained
<1>10. ASSUME Leads(F, Live(d), Len(d.nodes)) PROVE Inv(d)
  <2>1. Extends(Len(b.nodes), Len(b.nodes) + k, Conds(b), Range(b.edges), F)
    <3>1. \A f \in F : \/ f \in Range(b.edges)
                       \/ f \in EdgesFrom(Tails(b), Len(b.nodes) + 1, "seq")
                       \/ f \in InARow(Len(b.nodes), k)
                       \/ /\ f.label # "back" /\ f.dst = ExitId
                          /\ f.src \in Len(b.nodes) + 1 .. Len(b.nodes) + k
      BY <1>2, <1>3, <1>5
    <3> HIDE DEF F, k
    <3>2. QED
      BY <1>0, <1>9, <3>1, ChainExtends
  <2>2. /\ \A m \in NewNodes(b, d) : Leads(F, Live(d), m)
        /\ \A m \in Range(Tails(b)) : Leads(F, Live(d), m)
    <3>1. Leads(F, Live(d), Len(b.nodes) + k)
      BY <1>6, <1>10
    <3> HIDE DEF F, k
    <3>2. QED
      BY <1>0, <1>7, <1>9, <3>1, ChainLeads
  <2>3. \A i \in n .. Len(b.stack) : \A m \in Pending(b, i) : Leads(F, Live(d), m)
    BY <1>1, <2>2 DEF Sizes
  <2>4. Extends(Len(b.nodes), Len(d.nodes), Conds(b), Range(b.edges), Range(d.edges))
    BY <1>6, <2>1
  <2> HIDE DEF n
  <2>5. QED
    BY <1>5, <1>8, <2>2, <2>3, <2>4, Steps
<1>11. QED
  BY <1>5, <1>8, <1>9, <1>10 DEF d

\* emit_statement of a statement without branches: the next one follows its last node,
\* or there is none.
LEMMA NodesKeepInv ==
  ASSUME NEW b, Inv(b), AtStatement(b), NEW new \in Seq(GraphNodes), Len(new) >= 1
  PROVE  LET c == Emitted(b, new)
         IN  /\ Inv(AttachTo(c, <<Len(c.nodes)>>))
             /\ Inv(AttachTo(Link(c, <<Len(c.nodes)>>, ExitId, "seq"), <<>>))
<1> DEFINE c == Emitted(b, new)
           M == Len(c.nodes)
           last == <<M>>
           e == Link(c, last, ExitId, "seq")
<1>0. TypeInv(b) /\ HeldInv(b) /\ Len(b.nodes) \in Nat /\ Len(new) \in Nat \ {0}
  BY HasSizes DEF Inv, TypeInv, Sizes
<1>1. c \in BuildStates /\ M = Len(b.nodes) + Len(new)
  BY <1>0, EmittedIs
<1>2. M \in Len(b.nodes) + 1 .. Len(b.nodes) + Len(new) /\ M \in Nat
  BY <1>0, <1>1
<1>3. last \in Seq(Nat) /\ Range(last) = {M}
  <2> HIDE DEF M
  <2>1. QED
    BY <1>2 DEF Range
<1>4. Inv(AttachTo(c, last))
  <2>1. SameButEdges(c, c)
    BY DEF SameButEdges
  <2> DEFINE d == AttachTo(c, last)
             F == Range(d.edges)
  <2>2. Range(last) \subseteq Len(b.nodes) + 1 .. Len(b.nodes) + Len(new)
    BY <1>2, <1>3
  <2> HIDE DEF last
  <2>3. /\ d.nodes = c.nodes /\ Range(last) \subseteq Live(d)
        /\ Leads(F, Live(d), Len(d.nodes)) => Inv(d)
    BY <1>1, <1>3, <2>1, <2>2, ChainAttached
  <2>4. Leads(F, Live(d), M)
    BY <1>3, <2>3 DEF Leads
  <2>5. QED
    BY <2>3, <2>4
<1>5. Inv(AttachTo(e, <<>>))
  <2> DEFINE none == <<>>
             d == AttachTo(e, none)
             F == Range(d.edges)
  <2>0. ExitId \in Nat /\ "seq" \in EdgeLabels
    BY DEF ExitId, EdgeLabels
  <2> HIDE DEF last, c
  <2>1. /\ e \in BuildStates /\ SameButEdges(c, e)
        /\ Range(e.edges) = Range(c.edges) \cup EdgesFrom(last, ExitId, "seq")
    BY <1>1, <1>3, <2>0, LinkIs
  <2>2. EdgesFrom(last, ExitId, "seq") = {[src |-> M, dst |-> ExitId, label |-> "seq"]}
    BY <1>3 DEF EdgesFrom
  <2> DEFINE out == [src |-> M, dst |-> ExitId, label |-> "seq"]
  <2>3. out.src = M /\ out.dst = ExitId /\ out.label # "back"
    OBVIOUS
  <2> HIDE DEF out, e
  <2>4. Range(e.edges) = Range(c.edges) \cup {out}
    BY <2>1, <2>2 DEF out
  <2>5. /\ Range(c.edges) \subseteq Range(e.edges)
        /\ \A f \in Range(e.edges) \ Range(c.edges) :
             /\ f.label # "back" /\ f.dst = ExitId
             /\ f.src \in Len(b.nodes) + 1 .. Len(b.nodes) + Len(new)
    BY <1>2, <2>3, <2>4
  <2>6. none \in Seq(Nat) /\ Range(none) \subseteq Len(b.nodes) + 1 .. Len(b.nodes) + Len(new)
    BY DEF Range
  <2> HIDE DEF none, M
  <2>7. /\ d.nodes = e.nodes /\ d.edges = e.edges
        /\ Leads(F, Live(d), Len(d.nodes)) => Inv(d)
    BY <2>1, <2>5, <2>6, ChainAttached DEF c
  <2>8. Leads(F, Live(d), ExitId)
    BY DEF Leads
  <2>9. out \in F
    BY <2>4, <2>7
  <2>10. Leads(F, Live(d), M)
    BY <2>3, <2>8, <2>9, LeadsAlong
  <2>11. QED
    BY <2>1, <2>7, <2>10 DEF SameButEdges, none, M
<1>6. QED
  BY <1>4, <1>5

LEMMA StatementsKeepInv ==
  ASSUME NEW b, Inv(b), AtStatement(b)
  PROVE  /\ Stmt(b).k = "simple" => Inv(EmitSimple(b))
         /\ Stmt(b).k = "leave" => Inv(EmitLeave(b))
         /\ Stmt(b).k = "jump" => Inv(EmitJump(b))
<1> DEFINE stmt == Stmt(b)
<1>1. IsStatement(stmt)
  BY StmtIs DEF Inv
<1> HIDE DEF stmt
<1>2. ASSUME NEW kind \in Kinds, NEW label \in NodeLabels
      PROVE  Plain(kind, label) \in GraphNodes
  BY PlainIsNode
<1>3. ASSUME stmt.k = "simple" PROVE Inv(EmitSimple(b))
  <2> DEFINE p == Plain("statement", stmt.label)
             node == [p EXCEPT !.roots = stmt.roots, !.update = stmt.update]
             calls == CallNodes(stmt)
             new == Append(calls, node)
  <2>1. stmt.label \in NodeLabels /\ stmt.roots \in SUBSET Sites /\ stmt.update \in Updates
        /\ stmt.calls \in Seq(SUBSET Sites) /\ "statement" \in Kinds
    BY <1>1, <1>3 DEF IsStatement, NodeLabels, Kinds
  <2>2. p \in GraphNodes /\ calls \in Seq(GraphNodes)
    BY <1>2, <2>1, CallNodesAre
  <2> HIDE DEF p, calls
  <2>3. node \in GraphNodes
    BY <2>1, <2>2 DEF GraphNodes
  <2> HIDE DEF node
  <2>4. new \in Seq(GraphNodes) /\ Len(new) >= 1
    BY <2>2, <2>3
  <2>5. EmitSimple(b) = LET c == Emitted(b, new) IN AttachTo(c, <<Len(c.nodes)>>)
    BY DEF EmitSimple, new, node, p, calls, stmt
  <2> HIDE DEF new
  <2>6. QED
    BY <2>4, <2>5, NodesKeepInv
<1>4. ASSUME stmt.k = "leave" PROVE Inv(EmitLeave(b))
  <2> DEFINE p == Plain(stmt.kind, stmt.label)
             node == [p EXCEPT !.roots = stmt.roots]
             calls == CallNodes(stmt)
             new == Append(calls, node)
  <2>1. stmt.label \in NodeLabels /\ stmt.roots \in SUBSET Sites /\ stmt.kind \in Kinds
        /\ stmt.calls \in Seq(SUBSET Sites)
    BY <1>1, <1>4 DEF IsStatement, NodeLabels, Kinds
  <2>2. p \in GraphNodes /\ calls \in Seq(GraphNodes)
    BY <1>2, <2>1, CallNodesAre
  <2> HIDE DEF p, calls
  <2>3. node \in GraphNodes
    BY <2>1, <2>2 DEF GraphNodes
  <2> HIDE DEF node
  <2>4. new \in Seq(GraphNodes) /\ Len(new) >= 1
    BY <2>2, <2>3
  <2>5. EmitLeave(b) = LET c == Emitted(b, new)
                       IN  AttachTo(Link(c, <<Len(c.nodes)>>, ExitId, "seq"), <<>>)
    BY DEF EmitLeave, new, node, p, calls, stmt
  <2> HIDE DEF new
  <2>6. QED
    BY <2>4, <2>5, NodesKeepInv
<1>5. ASSUME stmt.k = "jump" PROVE Inv(EmitJump(b))
  <2> DEFINE p == Plain("statement", stmt.label)
             new == <<p>>
  <2>1. stmt.label \in NodeLabels /\ "statement" \in Kinds
    BY <1>1, <1>5 DEF IsStatement, NodeLabels, StatementLabels, Kinds
  <2>2. p \in GraphNodes
    BY <1>2, <2>1
  <2> HIDE DEF p
  <2>3. new \in Seq(GraphNodes) /\ Len(new) >= 1
    BY <2>2
  <2>4. EmitJump(b) = LET c == Emitted(b, new)
                      IN  AttachTo(Link(c, <<Len(c.nodes)>>, ExitId, "seq"), <<>>)
    BY DEF EmitJump, new, p, stmt
  <2> HIDE DEF new
  <2>5. QED
    BY <2>3, <2>4, NodesKeepInv
<1>6. QED
  BY <1>3, <1>4, <1>5 DEF stmt

----------------------------------------------------------------------------
(* A statement with branches adds its condition.                           *)

BranchesOf == Seq([label : BranchLabels, stmts : Bodies])

LEMMA ForkIsCall ==
  ASSUME NEW k \in Forks, NEW cond \in Nat, NEW branches \in BranchesOf
  PROVE  /\ Fork(k, cond, branches) \in Calls
         /\ Fork(k, cond, branches).k = k /\ Fork(k, cond, branches).cond = cond
         /\ Fork(k, cond, branches).joined = <<>>
<1> DEFINE none == <<>>
<1>1. none \in Seq(Nat)
  OBVIOUS
<1> HIDE DEF none
<1>2. [k |-> k, cond |-> cond, branches |-> branches, before |-> 0, joined |-> none] \in Calls
  BY <1>1 DEF Calls, BranchesOf, BranchLabels
<1>3. QED
  BY <1>2 DEF Fork, none

LEMMA EnterForkKeepsInv ==
  ASSUME NEW b, Inv(b), AtStatement(b), NEW k \in Forks, NEW node \in GraphNodes,
         k = "loop" => node.label \in LoopLabels, NEW branches \in BranchesOf
  PROVE  Inv(EnterFork(b, k, node, branches))
<1> DEFINE n == Len(b.stack)
           N == Len(b.nodes)
           new == <<node>>
           c == Emitted(b, new)
           M == Len(c.nodes)
           call == Fork(k, M, branches)
           stmts == Tail(Active(b).stmts)
           t == Active(b).tails
<1>0. /\ TypeInv(b) /\ HeldInv(b) /\ In(b, {"block"}) /\ Sizes(b) /\ N \in Nat /\ N >= 2
      /\ new \in Seq(GraphNodes) /\ Len(new) = 1 /\ new[1] = node
  BY HasSizes DEF Inv, TypeInv, Sizes, AtStatement, ExitId
<1>1. /\ n \in DOMAIN b.stack /\ b.stack[n].k = "block"
      /\ t \in DOMAIN b.lists /\ t # NoList
      /\ HeldFrom(b, n) = Range(Tails(b)) /\ Pending(b, n) = Range(Tails(b))
  BY <1>0, BlockIs
<1> HIDE DEF new
<1>2. /\ c \in BuildStates /\ c.lists = b.lists
      /\ M = N + 1
      /\ \A m \in NodeIds(b) : c.nodes[m] = b.nodes[m]
      /\ c.nodes[M] = node
      /\ Range(c.edges) = Range(b.edges) \cup EdgesFrom(Tails(b), N + 1, "seq")
                          \cup InARow(N, 1)
      /\ Len(c.stack) = n
      /\ c.stack[n] = Block(stmts, t)
      /\ \A i \in 1 .. n - 1 : c.stack[i] = b.stack[i]
  <2>1. Len(new) >= 1
    BY <1>0
  <2>2. /\ c \in BuildStates /\ c.lists = b.lists
        /\ M = N + Len(new)
        /\ \A m \in NodeIds(b) : c.nodes[m] = b.nodes[m]
        /\ c.nodes[M] = new[Len(new)]
        /\ Range(c.edges) = Range(b.edges) \cup EdgesFrom(Tails(b), N + 1, "seq")
                            \cup InARow(N, Len(new))
        /\ Len(c.stack) = n
        /\ c.stack[n] = Block(stmts, t)
        /\ \A i \in 1 .. n - 1 : c.stack[i] = b.stack[i]
    BY <1>0, <2>1, EmittedIs
  <2> HIDE DEF c
  <2>3. QED
    BY <1>0, <2>2
<1> HIDE DEF c, stmts, t
<1>3. M \in Nat /\ M \in 3 .. M
  BY <1>0, <1>2
<1>4. call \in Calls /\ call.k = k /\ call.cond = M /\ call.joined = <<>>
  BY <1>3, ForkIsCall
<1> HIDE DEF M, call
<1> DEFINE calls == <<call>>
           d == Enter(c, calls)
           F == Range(d.edges)
<1>5. calls \in Seq(Calls) /\ Len(calls) = 1 /\ calls[1] = call
  BY <1>4
<1> HIDE DEF calls
<1>6. /\ d \in BuildStates /\ SameButStack(c, d)
      /\ Len(d.stack) = n + 1
      /\ d.stack[n + 1] = call /\ d.stack[n] = Block(stmts, t)
      /\ \A i \in 1 .. n - 1 : d.stack[i] = b.stack[i]
  <2>1. /\ d \in BuildStates /\ SameButStack(c, d)
        /\ Len(d.stack) = Len(c.stack) + Len(calls)
        /\ \A i \in 1 .. Len(c.stack) : d.stack[i] = c.stack[i]
        /\ \A i \in 1 .. Len(calls) : d.stack[Len(c.stack) + i] = calls[i]
    BY <1>2, <1>5, EnterIs
  <2>2. n \in Nat \ {0}
    BY <1>0, <1>1 DEF Sizes
  <2>3. QED
    BY <1>2, <1>5, <2>1, <2>2
<1>7. EnterFork(b, k, node, branches) = d
  BY DEF EnterFork, d, c, new, calls, call, M
<1> HIDE DEF d
<1>8. /\ d.nodes = c.nodes /\ d.lists = b.lists /\ d.edges = c.edges /\ Sizes(d)
      /\ Len(d.nodes) = M /\ n \in Nat \ {0}
  BY <1>0, <1>1, <1>2, <1>6, HasSizes DEF SameButStack, Sizes, M
<1>9. Held(d, d.stack[n]) = Range(Tails(b)) /\ IsPlaced(d, d.stack[n])
  BY <1>1, <1>6, <1>8 DEF Held, Listed, Block, IsPlaced, Forks, Tails, t
<1>10. Held(d, call) = {M} /\ Pending(d, n + 1) = {M} /\ IsPlaced(d, call)
  <2>1. k # "block" /\ k # "do"
    BY DEF Forks
  <2>2. Range(<<>>) = {}
    BY DEF Range
  <2>3. M \in NodeIds(d) /\ d.nodes[M] = node
    BY <1>2, <1>3, <1>8 DEF NodeIds
  <2>4. QED
    BY <1>3, <1>4, <1>6, <1>8, <2>1, <2>2, <2>3 DEF Held, Pending, IsPlaced, LoopNodes
<1>11. Follows(b, d, n)
  <2>1. Behind(b, d, n)
    BY <1>1, <1>6, <1>8 DEF Behind, Block, Forks, Sizes
  <2>2. Grown(b, d, HeldFrom(b, n))
    BY <1>0, <1>2, <1>8 DEF Grown, M
  <2>3. ASSUME NEW i \in n .. Len(d.stack) PROVE IsRenewed(b, d, n, i)
    <3>1. CASE i = n
      BY <1>1, <1>6, <1>8, <1>9, <3>1 DEF IsRenewed, Block, Forks
    <3>2. CASE i = n + 1
      <4>1. d.stack[i] = call /\ d.stack[i - 1].k = "block" /\ i > 1 /\ call.k # "do"
        BY <1>4, <1>6, <1>8, <3>2 DEF Block, Forks
      <4>2. IsStacked(d.stack, i)
        BY <1>6, <3>2, <4>1 DEF IsStacked
      <4>3. M \in NewNodes(b, d)
        BY <1>0, <1>2, <1>8 DEF NewNodes
      <4>4. N < M
        BY <1>0, <1>2
      <4>5. QED
        BY <1>4, <1>6, <1>8, <1>10, <3>2, <4>1, <4>2, <4>3, <4>4 DEF IsRenewed
    <3>3. QED
      BY <1>6, <1>8, <3>1, <3>2
  <2>4. QED
    BY <1>8, <2>1, <2>2, <2>3 DEF Follows
<1>12. Chained(b, 1, F) /\ Extends(N, M, Conds(b), Range(b.edges), F)
  <2>1. Chained(b, 1, F)
    BY <1>2, <1>8 DEF Chained
  <2>2. \A f \in F : \/ f \in Range(b.edges)
                     \/ f \in EdgesFrom(Tails(b), N + 1, "seq")
                     \/ f \in InARow(N, 1)
    BY <1>2, <1>8
  <2> HIDE DEF F
  <2>3. Extends(N, N + 1, Conds(b), Range(b.edges), F)
    BY <1>0, <2>1, <2>2, ChainExtends
  <2>4. QED
    BY <1>2, <2>1, <2>3
<1>13. Leads(F, Live(d), M)
  <2>1. n + 1 \in DOMAIN d.stack
    BY <1>6, <1>8 DEF Sizes
  <2>2. M \in Live(d)
    BY <1>10, <2>1 DEF Live
  <2>3. QED
    BY <2>2 DEF Leads
<1>14. /\ \A m \in NewNodes(b, d) : Leads(F, Live(d), m)
       /\ \A m \in Range(Tails(b)) : Leads(F, Live(d), m)
  <2>1. Leads(F, Live(d), N + 1) /\ NewNodes(b, d) = N + 1 .. N + 1
    BY <1>2, <1>8, <1>13 DEF NewNodes
  <2> HIDE DEF F
  <2>2. QED
    BY <1>12, <2>1, ChainLeads
<1>15. \A i \in n .. Len(b.stack) : \A m \in Pending(b, i) : Leads(F, Live(d), m)
  BY <1>1, <1>8, <1>14
<1>16. Inv(d)
  <2>1. Extends(Len(b.nodes), Len(d.nodes), Conds(b), Range(b.edges), Range(d.edges))
    BY <1>8, <1>12
  <2> HIDE DEF n
  <2>2. QED
    BY <1>6, <1>11, <1>14, <1>15, <2>1, Steps
<1>17. QED
  BY <1>7, <1>16

LEMMA ConditionIsNode ==
  ASSUME NEW label \in NodeLabels, NEW stmt, stmt.cond \in Conditions, stmt.scan \in SUBSET Sites
  PROVE  /\ ConditionNode(label, stmt) \in GraphNodes
         /\ ConditionNode(label, stmt).label = label
<1> DEFINE p == Plain("condition", label)
<1>1. p \in GraphNodes /\ p.label = label
  BY PlainIsNode DEF Kinds
<1> HIDE DEF p
<1>2. QED
  BY <1>1 DEF ConditionNode, p, GraphNodes

LEMMA BranchIs ==
  ASSUME NEW label \in BranchLabels, NEW stmts \in Bodies
  PROVE  Branch(label, stmts) \in [label : BranchLabels, stmts : Bodies]
BY DEF Branch

LEMMA ForksKeepInv ==
  ASSUME NEW b, Inv(b), AtStatement(b)
  PROVE  /\ Stmt(b).k = "if" => Inv(EnterIf(b))
         /\ Stmt(b).k = "guard" => Inv(EnterGuard(b))
         /\ Stmt(b).k = "switch" => Inv(EnterSwitch(b))
         /\ Stmt(b).k = "loop" => Inv(EnterLoop(b))
<1> DEFINE stmt == Stmt(b)
<1>1. IsStatement(stmt)
  BY StmtIs DEF Inv
<1> HIDE DEF stmt
<1> DEFINE T == [label : BranchLabels, stmts : Bodies]
<1>2. \A label \in BranchLabels, stmts \in Bodies : Branch(label, stmts) \in T
  BY BranchIs
<1> HIDE DEF T
<1>3. ASSUME stmt.k \in {"if", "guard", "switch", "loop"}, NEW label \in NodeLabels
      PROVE  ConditionNode(label, stmt) \in GraphNodes /\ ConditionNode(label, stmt).label = label
  BY <1>1, <1>3, ConditionIsNode DEF IsStatement
<1>4. {"if", "guard", "switch"} \subseteq NodeLabels /\ LoopLabels \subseteq NodeLabels
  BY DEF NodeLabels, LoopLabels, StatementLabels
<1>5. BranchesOf = Seq(T)
  BY DEF BranchesOf, T
<1>6. ASSUME stmt.k = "if" PROVE Inv(EnterIf(b))
  <2> DEFINE node == ConditionNode("if", stmt)
             yes == Branch("true", stmt.then)
             no == Branch("false", stmt.else)
  <2>1. node \in GraphNodes
    BY <1>3, <1>4, <1>6
  <2>2. yes \in T /\ no \in T
    BY <1>1, <1>2, <1>6 DEF IsStatement, BranchLabels
  <2>3. EnterIf(b) = IF stmt.else = <<>> THEN EnterFork(b, "if", node, <<yes>>)
                     ELSE EnterFork(b, "if-else", node, Append(<<yes>>, no))
    BY DEF EnterIf, stmt
  <2> HIDE DEF node, yes, no
  <2>4. <<yes>> \in BranchesOf /\ Append(<<yes>>, no) \in BranchesOf
    BY <1>5, <2>2
  <2>5. "if" \in Forks /\ "if-else" \in Forks
    BY DEF Forks
  <2>6. Inv(EnterFork(b, "if", node, <<yes>>))
    BY <2>1, <2>4, <2>5, EnterForkKeepsInv
  <2>7. Inv(EnterFork(b, "if-else", node, Append(<<yes>>, no)))
    BY <2>1, <2>4, <2>5, EnterForkKeepsInv
  <2>8. QED
    BY <2>3, <2>6, <2>7
<1>7. ASSUME stmt.k = "guard" PROVE Inv(EnterGuard(b))
  <2> DEFINE node == ConditionNode("guard", stmt)
             no == Branch("false", stmt.else)
  <2>1. node \in GraphNodes
    BY <1>3, <1>4, <1>7
  <2>2. no \in T
    BY <1>1, <1>2, <1>7 DEF IsStatement, BranchLabels
  <2>3. EnterGuard(b) = EnterFork(b, "guard", node, <<no>>)
    BY DEF EnterGuard, stmt
  <2> HIDE DEF node, no
  <2>4. <<no>> \in BranchesOf /\ "guard" \in Forks
    BY <1>5, <2>2 DEF Forks
  <2>5. QED
    BY <2>1, <2>3, <2>4, EnterForkKeepsInv
<1>8. ASSUME stmt.k = "switch" PROVE Inv(EnterSwitch(b))
  <2> DEFINE node == ConditionNode("switch", stmt)
             cases == [i \in DOMAIN stmt.cases |-> Branch("case", stmt.cases[i])]
  <2>1. node \in GraphNodes
    BY <1>3, <1>4, <1>8
  <2>2. stmt.cases \in Seq(Bodies)
    BY <1>1, <1>8 DEF IsStatement
  <2>3. EnterSwitch(b) = EnterFork(b, "switch", node, cases)
    BY DEF EnterSwitch, stmt
  <2> HIDE DEF node
  <2>4. \A i \in DOMAIN stmt.cases : Branch("case", stmt.cases[i]) \in T
    BY <1>2, <2>2 DEF BranchLabels
  <2>5. cases \in BranchesOf /\ "switch" \in Forks
    <3>1. DOMAIN stmt.cases = 1 .. Len(stmt.cases) /\ Len(stmt.cases) \in Nat
      BY <2>2
    <3>2. cases \in Seq(T)
      BY <2>4, <3>1
    <3>3. QED
      BY <1>5, <3>2 DEF Forks
  <2> HIDE DEF cases
  <2>6. QED
    BY <2>1, <2>3, <2>5, EnterForkKeepsInv
<1>9. ASSUME stmt.k = "loop" PROVE Inv(EnterLoop(b))
  <2> DEFINE cond == ConditionNode(stmt.label, stmt)
             node == [cond EXCEPT !.roots = stmt.scan]
             yes == Branch("true", stmt.body)
  <2>1. stmt.label \in LoopLabels /\ stmt.scan \in SUBSET Sites
    BY <1>1, <1>9 DEF IsStatement
  <2>2. cond \in GraphNodes /\ cond.label = stmt.label
    BY <1>3, <1>4, <1>9, <2>1
  <2>3. yes \in T
    BY <1>1, <1>2, <1>9 DEF IsStatement, BranchLabels
  <2>4. EnterLoop(b) = EnterFork(b, "loop", node, <<yes>>)
    BY DEF EnterLoop, LoopCondition, stmt
  <2> HIDE DEF cond, yes
  <2>5. node \in GraphNodes /\ node.label \in LoopLabels
    BY <2>1, <2>2 DEF GraphNodes
  <2> HIDE DEF node
  <2>6. <<yes>> \in BranchesOf /\ "loop" \in Forks
    BY <1>5, <2>3 DEF Forks
  <2>7. QED
    BY <2>4, <2>5, <2>6, EnterForkKeepsInv
<1>10. QED
  BY <1>6, <1>7, <1>8, <1>9 DEF stmt

----------------------------------------------------------------------------
(* Calls come and go, and the graph stays.                                 *)

LEMMA CallsStep ==
  ASSUME NEW b, Inv(b), NEW c \in BuildStates, c.nodes = b.nodes, c.edges = b.edges,
         NEW p, Follows(b, c, p),
         \A i \in p .. Len(b.stack) : \A m \in Pending(b, i) : m \in Live(c)
  PROVE  Inv(c)
<1>0. Sizes(b) /\ Len(b.nodes) \in Nat
  BY HasSizes DEF Inv, TypeInv, Sizes
<1>1. NewNodes(b, c) = {} /\ Len(b.nodes) + 1 .. Len(c.nodes) = {}
  BY <1>0 DEF NewNodes
<1>2. Extends(Len(b.nodes), Len(c.nodes), Conds(b), Range(b.edges), Range(c.edges))
  BY <1>1 DEF Extends, Twins
<1>3. \A i \in p .. Len(b.stack) : \A m \in Pending(b, i) :
        Leads(Range(c.edges), Live(c), m)
  BY DEF Leads
<1>4. QED
  BY <1>1, <1>2, <1>3, Steps

\* emit_statements is called.
LEMMA BlockIsCall ==
  ASSUME NEW stmts \in Bodies, NEW t \in Nat
  PROVE  /\ Block(stmts, t) \in Calls /\ Block(stmts, t) \in BlockCalls
         /\ Block(stmts, t).k = "block"
         /\ Block(stmts, t).tails = t /\ Block(stmts, t).stmts = stmts
BY DEF Block, Calls, BlockCalls

LEMMA DoIsCall ==
  ASSUME NEW t \in Nat, NEW catches \in Seq(Bodies)
  PROVE  /\ DoCatch(t, catches) \in Calls /\ DoCatch(t, catches).k = "do"
         /\ DoCatch(t, catches).preds = t /\ DoCatch(t, catches).tails = NoList
         /\ DoCatch(t, catches).catches = catches
<1>1. [k |-> "do", preds |-> t, tails |-> 0, catches |-> catches] \in Calls
  BY DEF Calls
<1>2. QED
  BY <1>1 DEF DoCatch, NoList

\* The blocks of a defer, and of a do, go on from where their statement stands.
LEMMA DeferKeepsInv ==
  ASSUME NEW b, Inv(b), AtStatement(b), Stmt(b).k = "defer"
  PROVE  Inv(EnterDefer(b))
<1> DEFINE n == Len(b.stack)
           t == Active(b).tails
           call == Block(Stmt(b).body, t)
           calls == <<call>>
           d == Proceed(b)
           c == Enter(d, calls)
           rest == Tail(Active(b).stmts)
<1>0. TypeInv(b) /\ HeldInv(b) /\ In(b, {"block"})
  BY DEF Inv, AtStatement
<1>1. /\ Sizes(b) /\ n \in Nat \ {0} /\ n \in DOMAIN b.stack /\ b.stack[n].k = "block"
      /\ t \in DOMAIN b.lists /\ t \in Nat \ {0}
      /\ HeldFrom(b, n) = Range(Tails(b)) /\ Pending(b, n) = Range(Tails(b))
  BY <1>0, BlockIs DEF Sizes
<1>2. Stmt(b).body \in Bodies /\ rest \in Bodies
  BY <1>0, StmtIs DEF IsStatement
<1>3. /\ d \in BuildStates /\ SameButStack(b, d) /\ Len(d.stack) = n
      /\ d.stack[n] = Block(rest, t)
      /\ \A i \in 1 .. n - 1 : d.stack[i] = b.stack[i]
  BY <1>0, ProceedIs
<1>4. /\ call \in Calls /\ call.k = "block" /\ call.tails = t
      /\ Block(rest, t).k = "block" /\ Block(rest, t).tails = t
  BY <1>1, <1>2, BlockIsCall
<1> HIDE DEF d, call, rest
<1>5. calls \in Seq(Calls) /\ Len(calls) = 1 /\ calls[1] = call
  BY <1>4
<1> HIDE DEF calls
<1>6. /\ c \in BuildStates /\ c.nodes = b.nodes /\ c.edges = b.edges /\ c.lists = b.lists
      /\ Len(c.stack) = n + 1 /\ c.stack[n] = Block(rest, t) /\ c.stack[n + 1] = call
      /\ \A i \in 1 .. n - 1 : c.stack[i] = b.stack[i]
  <2>1. /\ c \in BuildStates /\ SameButStack(d, c)
        /\ Len(c.stack) = Len(d.stack) + Len(calls)
        /\ \A i \in 1 .. Len(d.stack) : c.stack[i] = d.stack[i]
        /\ \A i \in 1 .. Len(calls) : c.stack[Len(d.stack) + i] = calls[i]
    BY <1>3, <1>5, EnterIs
  <2>2. QED
    BY <1>1, <1>3, <1>5, <2>1 DEF SameButStack
<1>7. EnterDefer(b) = c
  BY DEF EnterDefer, c, d, calls, call
<1> HIDE DEF c
<1>8. Sizes(c) /\ Tails(b) = b.lists[t]
  BY <1>6, HasSizes DEF Tails
<1>9. ASSUME NEW i \in n .. n + 1
      PROVE  /\ c.stack[i].k = "block" /\ Held(c, c.stack[i]) = Range(Tails(b))
             /\ IsPlaced(c, c.stack[i])
  <2>1. c.stack[i].k = "block" /\ c.stack[i].tails = t
    BY <1>1, <1>4, <1>6
  <2>2. QED
    BY <1>1, <1>6, <1>8, <2>1 DEF Held, Listed, IsPlaced, NoList, Forks
<1>10. Follows(b, c, n)
  <2>1. Behind(b, c, n)
    BY <1>1, <1>6, <1>8, <1>9 DEF Behind, Forks, Sizes
  <2>2. Grown(b, c, HeldFrom(b, n))
    BY <1>1, <1>6 DEF Grown, Sizes
  <2>3. ASSUME NEW i \in n .. Len(c.stack) PROVE IsRenewed(b, c, n, i)
    BY <1>1, <1>6, <1>9 DEF IsRenewed, IsStacked, Forks
  <2>4. QED
    BY <1>6, <2>1, <2>2, <2>3 DEF Follows
<1>11. Range(Tails(b)) \subseteq Live(c)
  <2>1. n + 1 \in DOMAIN c.stack
    BY <1>1, <1>6, <1>8 DEF Sizes
  <2>2. Pending(c, n + 1) = Range(Tails(b))
    BY <1>1, <1>4, <1>6, <1>8 DEF Pending, Listed, NoList
  <2>3. QED
    BY <2>1, <2>2 DEF Live
<1>12. \A i \in n .. Len(b.stack) : \A m \in Pending(b, i) : m \in Live(c)
  BY <1>1, <1>11
<1>13. QED
  <2> HIDE DEF n
  <2>1. QED
    BY <1>6, <1>7, <1>10, <1>12, CallsStep

LEMMA DoKeepsInv ==
  ASSUME NEW b, Inv(b), AtStatement(b), Stmt(b).k = "do"
  PROVE  Inv(EnterDo(b))
<1> DEFINE n == Len(b.stack)
           t == Active(b).tails
           call == Block(Stmt(b).body, t)
           do == DoCatch(t, Stmt(b).catches)
           calls == <<do, call>>
           d == Proceed(b)
           c == Enter(d, calls)
           rest == Tail(Active(b).stmts)
<1>0. TypeInv(b) /\ HeldInv(b) /\ In(b, {"block"})
  BY DEF Inv, AtStatement
<1>1. /\ Sizes(b) /\ n \in Nat \ {0} /\ n \in DOMAIN b.stack /\ b.stack[n].k = "block"
      /\ t \in DOMAIN b.lists /\ t \in Nat \ {0}
      /\ HeldFrom(b, n) = Range(Tails(b)) /\ Pending(b, n) = Range(Tails(b))
  BY <1>0, BlockIs DEF Sizes
<1>2. Stmt(b).body \in Bodies /\ rest \in Bodies /\ Stmt(b).catches \in Seq(Bodies)
  BY <1>0, StmtIs DEF IsStatement
<1>3. /\ d \in BuildStates /\ SameButStack(b, d) /\ Len(d.stack) = n
      /\ d.stack[n] = Block(rest, t)
      /\ \A i \in 1 .. n - 1 : d.stack[i] = b.stack[i]
  BY <1>0, ProceedIs
<1>4. /\ call \in Calls /\ call.k = "block" /\ call.tails = t
      /\ Block(rest, t).k = "block" /\ Block(rest, t).tails = t
      /\ do \in Calls /\ do.k = "do" /\ do.preds = t /\ do.tails = NoList
  BY <1>1, <1>2, BlockIsCall, DoIsCall
<1> HIDE DEF d, call, rest, do
<1>5. calls \in Seq(Calls) /\ Len(calls) = 2 /\ calls[1] = do /\ calls[2] = call
  BY <1>4
<1> HIDE DEF calls
<1>6. /\ c \in BuildStates /\ c.nodes = b.nodes /\ c.edges = b.edges /\ c.lists = b.lists
      /\ Len(c.stack) = n + 2 /\ c.stack[n] = Block(rest, t)
      /\ c.stack[n + 1] = do /\ c.stack[n + 2] = call
      /\ \A i \in 1 .. n - 1 : c.stack[i] = b.stack[i]
  <2>1. /\ c \in BuildStates /\ SameButStack(d, c)
        /\ Len(c.stack) = Len(d.stack) + Len(calls)
        /\ \A i \in 1 .. Len(d.stack) : c.stack[i] = d.stack[i]
        /\ \A i \in 1 .. Len(calls) : c.stack[Len(d.stack) + i] = calls[i]
    BY <1>3, <1>5, EnterIs
  <2>2. QED
    BY <1>1, <1>3, <1>5, <2>1 DEF SameButStack
<1>7. EnterDo(b) = c
  BY DEF EnterDo, c, d, calls, call, do
<1> HIDE DEF c
<1>8. Sizes(c) /\ Tails(b) = b.lists[t]
  BY <1>6, HasSizes DEF Tails
<1>9. ASSUME NEW i \in {n, n + 2}
      PROVE  /\ c.stack[i].k = "block" /\ Held(c, c.stack[i]) = Range(Tails(b))
             /\ IsPlaced(c, c.stack[i])
  <2>1. c.stack[i].k = "block" /\ c.stack[i].tails = t
    BY <1>1, <1>4, <1>6
  <2>2. QED
    BY <1>1, <1>6, <1>8, <2>1 DEF Held, Listed, IsPlaced, NoList, Forks
<1>10. Held(c, do) = Range(Tails(b)) /\ IsPlaced(c, do)
  BY <1>1, <1>4, <1>6, <1>8 DEF Held, Listed, IsPlaced, NoList, Forks
<1>11. Follows(b, c, n)
  <2>1. Behind(b, c, n)
    BY <1>1, <1>6, <1>8, <1>9 DEF Behind, Forks, Sizes
  <2>2. Grown(b, c, HeldFrom(b, n))
    BY <1>1, <1>6 DEF Grown, Sizes
  <2>3. ASSUME NEW i \in n .. Len(c.stack) PROVE IsRenewed(b, c, n, i)
    <3>1. CASE i = n + 1
      <4>1. c.stack[i] = do /\ c.stack[i - 1].k = "block" /\ i > 1 /\ i < Len(c.stack)
            /\ c.stack[i + 1].k = "block" /\ i # n
        BY <1>1, <1>6, <1>9, <1>4, <3>1
      <4>2. QED
        BY <1>1, <1>4, <1>10, <4>1 DEF IsRenewed, IsStacked, Forks
    <3>2. CASE i \in {n, n + 2}
      BY <1>1, <1>9, <3>2 DEF IsRenewed, IsStacked, Forks
    <3>3. QED
      BY <1>1, <1>6, <3>1, <3>2
  <2>4. QED
    BY <1>6, <2>1, <2>2, <2>3 DEF Follows
<1>12. Range(Tails(b)) \subseteq Live(c)
  <2>1. n + 2 \in DOMAIN c.stack
    BY <1>1, <1>6, <1>8 DEF Sizes
  <2>2. Pending(c, n + 2) = Range(Tails(b))
    BY <1>1, <1>4, <1>6, <1>8 DEF Pending, Listed, NoList
  <2>3. QED
    BY <2>1, <2>2 DEF Live
<1>13. \A i \in n .. Len(b.stack) : \A m \in Pending(b, i) : m \in Live(c)
  BY <1>1, <1>12
<1>14. QED
  <2> HIDE DEF n
  <2>1. QED
    BY <1>6, <1>7, <1>11, <1>13, CallsStep

\* emit_statement, whatever the statement.
LEMMA StatementKeepsInv ==
  ASSUME NEW b, Inv(b), AtStatement(b)
  PROVE  Inv(EmitStatement(b))
<1>1. Stmt(b).k \in Shapes
  BY StmtIs DEF Inv, IsStatement
<1>2. QED
  BY <1>1, StatementsKeepInv, ForksKeepInv, DeferKeepsInv, DoKeepsInv
     DEF EmitStatement, Shapes

\* The innermost call is _emit_do_catch, and its body is done.
DoCalls == [k : {"do"}, preds : Nat, tails : Nat, catches : Seq(Bodies)]

LEMMA DoIs ==
  ASSUME NEW b, TypeInv(b), HeldInv(b), In(b, {"do"})
  PROVE  LET n == Len(b.stack)
         IN  /\ Sizes(b) /\ b \in BuildStates /\ b.stack # <<>> /\ n \in Nat /\ n >= 2
             /\ n \in DOMAIN b.stack /\ n - 1 \in DOMAIN b.stack
             /\ Active(b) = b.stack[n] /\ Active(b).k = "do" /\ Active(b) \in DoCalls
             /\ b.stack[n - 1].k = "block"
             /\ Active(b).preds \in DOMAIN b.lists /\ Active(b).preds # NoList
             /\ Active(b).tails \in DOMAIN b.lists /\ Active(b).tails # NoList
             /\ Held(b, b.stack[n]) =
                  Range(b.lists[Active(b).preds]) \cup Range(b.lists[Active(b).tails])
             /\ Pending(b, n) = Range(b.lists[Active(b).tails])
<1> DEFINE n == Len(b.stack)
           call == Active(b)
<1>1. Sizes(b) /\ b \in BuildStates
  BY HasSizes DEF TypeInv
<1>2. n \in DOMAIN b.stack /\ call = b.stack[n] /\ call.k = "do" /\ b.stack # <<>>
  <2>1. b.stack \in Seq(Calls)
    BY <1>1 DEF BuildStates
  <2>2. QED
    BY <2>1 DEF In, Built, Active
<1>3. call \in DoCalls
  BY <1>1, <1>2 DEF Sizes, Calls, Forks, BlockCalls, DoCalls
<1>4. IsPlaced(b, b.stack[n]) /\ IsStacked(b.stack, n)
  BY <1>2 DEF TypeInv
<1> HIDE DEF call
<1>5. n \in Nat /\ n >= 2 /\ n - 1 \in DOMAIN b.stack /\ b.stack[n - 1].k = "block"
  BY <1>1, <1>2, <1>4 DEF IsStacked, Sizes
<1>6. /\ call.preds \in DOMAIN b.lists /\ call.preds # NoList
      /\ call.tails \in DOMAIN b.lists /\ call.tails # NoList
  BY <1>1, <1>2, <1>4 DEF IsPlaced, IsStacked, NoList, Sizes
<1>7. /\ Held(b, b.stack[n]) = Range(b.lists[call.preds]) \cup Range(b.lists[call.tails])
      /\ Pending(b, n) = Range(b.lists[call.tails])
  BY <1>2, <1>6 DEF Held, Pending, Listed
<1>8. QED
  BY <1>1, <1>2, <1>3, <1>5, <1>6, <1>7 DEF call

LEMMA DoChanges ==
  ASSUME NEW call \in DoCalls
  PROVE  /\ call \in Calls
         /\ \A catches \in Seq(Bodies) :
              LET d == [call EXCEPT !.catches = catches]
              IN  /\ d \in Calls /\ d.k = "do" /\ d.preds = call.preds
                  /\ d.tails = call.tails /\ d.catches = catches
         /\ \A t \in Nat :
              LET d == [call EXCEPT !.tails = t]
              IN  /\ d \in Calls /\ d.k = "do" /\ d.preds = call.preds
                  /\ d.tails = t /\ d.catches = call.catches
BY DEF DoCalls, Calls

LEMMA CatchKeepsInv ==
  ASSUME NEW b, Inv(b), AtCatch(b)
  PROVE  Inv(EnterCatch(b))
<1> DEFINE n == Len(b.stack)
           do == Active(b)
           rest == [do EXCEPT !.catches = Tail(@)]
           call == Block(Head(do.catches), do.preds)
           calls == <<call>>
           d == Resume(b, rest)
           c == Enter(d, calls)
           T == Range(b.lists[do.tails])
           P == Range(b.lists[do.preds])
<1>0. TypeInv(b) /\ HeldInv(b) /\ In(b, {"do"}) /\ do.catches # <<>>
  BY DEF Inv, AtCatch
<1>1. /\ Sizes(b) /\ b \in BuildStates /\ b.stack # <<>> /\ n \in Nat /\ n >= 2
      /\ n \in DOMAIN b.stack /\ b.stack[n] = do /\ do.k = "do" /\ do \in DoCalls
      /\ do.preds \in DOMAIN b.lists /\ do.preds # NoList
      /\ do.tails \in DOMAIN b.lists /\ do.tails # NoList
      /\ Held(b, b.stack[n]) = P \cup T /\ Pending(b, n) = T
  BY <1>0, DoIs
<1>2. HeldFrom(b, n) = P \cup T
  <2>1. n .. Len(b.stack) = {n}
    BY <1>1
  <2>2. QED
    BY <1>1, <2>1 DEF HeldFrom
<1> HIDE DEF do
<1>3. Head(do.catches) \in Bodies /\ Tail(do.catches) \in Seq(Bodies)
  <2>1. do.catches \in Seq(Bodies)
    BY <1>1 DEF DoCalls
  <2> HIDE DEF Bodies
  <2>2. QED
    BY <1>0, <2>1
<1>4. /\ rest \in Calls /\ rest.k = "do" /\ rest.preds = do.preds /\ rest.tails = do.tails
      /\ call \in Calls /\ call.k = "block" /\ call.tails = do.preds
  <2>1. do.preds \in Nat
    BY <1>1 DEF DoCalls
  <2> DEFINE first == Head(do.catches)
             more == Tail(do.catches)
  <2>2. first \in Bodies /\ more \in Seq(Bodies)
    BY <1>3
  <2> HIDE DEF first, more
  <2>3. /\ Block(first, do.preds) \in Calls /\ Block(first, do.preds).k = "block"
        /\ Block(first, do.preds).tails = do.preds
    BY <2>1, <2>2, BlockIsCall
  <2> DEFINE e == [do EXCEPT !.catches = more]
  <2>4. e \in Calls /\ e.k = "do" /\ e.preds = do.preds /\ e.tails = do.tails
    BY <1>1, <2>2, DoChanges
  <2> HIDE DEF e
  <2>5. QED
    BY <2>3, <2>4 DEF e, first, more
<1> HIDE DEF rest, call
<1>5. calls \in Seq(Calls) /\ Len(calls) = 1 /\ calls[1] = call
  BY <1>4
<1>6. /\ d \in BuildStates /\ SameButStack(b, d) /\ Len(d.stack) = n
      /\ d.stack[n] = rest
      /\ \A i \in 1 .. n - 1 : d.stack[i] = b.stack[i]
  BY <1>1, <1>4, ResumeIs
<1> HIDE DEF calls, d
<1>7. /\ c \in BuildStates /\ c.nodes = b.nodes /\ c.edges = b.edges /\ c.lists = b.lists
      /\ Len(c.stack) = n + 1 /\ c.stack[n] = rest /\ c.stack[n + 1] = call
      /\ \A i \in 1 .. n - 1 : c.stack[i] = b.stack[i]
  <2>1. /\ c \in BuildStates /\ SameButStack(d, c)
        /\ Len(c.stack) = Len(d.stack) + Len(calls)
        /\ \A i \in 1 .. Len(d.stack) : c.stack[i] = d.stack[i]
        /\ \A i \in 1 .. Len(calls) : c.stack[Len(d.stack) + i] = calls[i]
    BY <1>5, <1>6, EnterIs
  <2>2. QED
    BY <1>1, <1>5, <1>6, <2>1 DEF SameButStack
<1>8. EnterCatch(b) = c
  BY DEF EnterCatch, c, d, calls, call, rest, do
<1> HIDE DEF c
<1>9. Sizes(c)
  BY <1>7, HasSizes
<1>10. /\ Held(c, rest) = P \cup T /\ IsPlaced(c, rest)
       /\ Held(c, call) = P /\ IsPlaced(c, call)
  BY <1>1, <1>4, <1>7 DEF Held, Listed, IsPlaced, NoList, Forks
<1>11. Follows(b, c, n)
  <2>1. Behind(b, c, n)
    BY <1>1, <1>4, <1>7, <1>9 DEF Behind, Forks, Sizes
  <2>2. Grown(b, c, HeldFrom(b, n))
    BY <1>1, <1>7 DEF Grown, Sizes
  <2>3. IsRenewed(b, c, n, n)
    BY <1>1, <1>2, <1>4, <1>7, <1>10 DEF IsRenewed, Forks
  <2>4. IsRenewed(b, c, n, n + 1)
    BY <1>1, <1>2, <1>4, <1>7, <1>10 DEF IsRenewed, IsStacked, Forks
  <2>5. n .. Len(c.stack) = {n, n + 1}
    BY <1>1, <1>7
  <2>6. QED
    BY <1>7, <2>1, <2>2, <2>3, <2>4, <2>5 DEF Follows
<1>12. \A i \in n .. Len(b.stack) : \A m \in Pending(b, i) : m \in Live(c)
  <2>1. n \in DOMAIN c.stack
    BY <1>1, <1>7, <1>9 DEF Sizes
  <2>2. Pending(c, n) = T
    BY <1>1, <1>4, <1>7 DEF Pending, Listed
  <2>3. n .. Len(b.stack) = {n}
    BY <1>1
  <2>4. QED
    BY <1>1, <2>1, <2>2, <2>3 DEF Live
<1>13. QED
  <2> HIDE DEF n
  <2>1. QED
    BY <1>7, <1>8, <1>11, <1>12, CallsStep

\* The innermost call connects the branches of a condition.
ForkCalls == [k : Forks, cond : Nat, branches : BranchesOf, before : Nat, joined : Seq(Nat)]

LEMMA ForkIs ==
  ASSUME NEW b, TypeInv(b), HeldInv(b), In(b, Forks)
  PROVE  LET n == Len(b.stack)
         IN  /\ Sizes(b) /\ b \in BuildStates /\ b.stack # <<>> /\ n \in Nat /\ n >= 2
             /\ n \in DOMAIN b.stack /\ n - 1 \in DOMAIN b.stack
             /\ Active(b) = b.stack[n] /\ Active(b).k \in Forks /\ Active(b) \in ForkCalls
             /\ b.stack[n - 1].k = "block"
             /\ Active(b).cond \in 3 .. Len(b.nodes)
             /\ Active(b).k = "loop" => Active(b).cond \in LoopNodes(b)
             /\ Held(b, b.stack[n]) = {Active(b).cond} \cup Range(Active(b).joined)
             /\ \A m \in Range(Active(b).joined) : m \in Active(b).cond .. Len(b.nodes)
             /\ Pending(b, n) = IF Active(b).joined = <<>> THEN {Active(b).cond}
                                ELSE Range(Active(b).joined)
             /\ Active(b).cond \in Conds(b)
             /\ \A c \in Conds(b) : c <= Active(b).cond
<1> DEFINE n == Len(b.stack)
           call == Active(b)
<1>1. Sizes(b) /\ b \in BuildStates
  BY HasSizes DEF TypeInv
<1>2. n \in DOMAIN b.stack /\ call = b.stack[n] /\ call.k \in Forks /\ b.stack # <<>>
  <2>1. b.stack \in Seq(Calls)
    BY <1>1 DEF BuildStates
  <2>2. QED
    BY <2>1 DEF In, Built, Active
<1>3. call \in ForkCalls
  BY <1>1, <1>2 DEF Sizes, Calls, Forks, BlockCalls, ForkCalls, BranchesOf, BranchLabels
<1>4. IsPlaced(b, b.stack[n]) /\ IsStacked(b.stack, n)
  BY <1>2 DEF TypeInv
<1> HIDE DEF call
<1>5. n \in Nat /\ n >= 2 /\ n - 1 \in DOMAIN b.stack /\ b.stack[n - 1].k = "block"
  BY <1>1, <1>2, <1>4 DEF IsStacked, Sizes, Forks
<1>6. /\ call.cond \in 3 .. Len(b.nodes)
      /\ call.k = "loop" => call.cond \in LoopNodes(b)
  BY <1>2, <1>4 DEF IsPlaced
<1>7. Held(b, b.stack[n]) = {call.cond} \cup Range(call.joined)
  BY <1>2 DEF Held, Forks
<1>8. n \in ForksOf(b) /\ call.cond \in Conds(b)
  BY <1>2 DEF ForksOf, Conds
<1>9. \A m \in Range(call.joined) : m \in call.cond .. Len(b.nodes)
  <2>1. n \in n .. Len(b.stack)
    BY <1>5
  <2>2. QED
    BY <1>2, <1>7, <1>8, <2>1 DEF HeldInv
<1>10. ASSUME NEW i \in ForksOf(b) PROVE b.stack[i].cond <= call.cond
  <2>1. n \in i .. Len(b.stack)
    BY <1>1 DEF ForksOf, Sizes
  <2>2. call.cond \in b.stack[i].cond .. Len(b.nodes)
    BY <1>7, <2>1 DEF HeldInv
  <2>3. IsPlaced(b, b.stack[i]) /\ b.stack[i].k \in Forks
    BY DEF ForksOf, TypeInv
  <2>4. QED
    BY <1>1, <2>2, <2>3 DEF IsPlaced, Sizes
<1>11. Pending(b, n) = IF call.joined = <<>> THEN {call.cond} ELSE Range(call.joined)
  <2>1. Range(<<>>) = {}
    BY DEF Range
  <2>2. QED
    BY <1>2, <2>1 DEF Pending, Forks
<1>12. QED
  BY <1>1, <1>2, <1>3, <1>5, <1>6, <1>7, <1>8, <1>9, <1>10, <1>11 DEF call, Conds

LEMMA ForkChanges ==
  ASSUME NEW call \in ForkCalls
  PROVE  /\ call \in Calls
         /\ \A before \in Nat :
              LET d == [call EXCEPT !.before = before]
              IN  /\ d \in Calls /\ d.k = call.k /\ d.cond = call.cond
                  /\ d.joined = call.joined /\ d.branches = call.branches
BY DEF ForkCalls, Calls, BranchesOf, BranchLabels

LEMMA ForkShrinks ==
  ASSUME NEW call \in ForkCalls, NEW branches \in BranchesOf, NEW joined \in Seq(Nat)
  PROVE  LET d == [call EXCEPT !.branches = branches, !.joined = joined]
         IN  d \in Calls /\ d.k = call.k /\ d.cond = call.cond /\ d.joined = joined
BY DEF ForkCalls, Calls, BranchesOf, BranchLabels

LEMMA AppendIs ==
  ASSUME NEW S, NEW s \in Seq(S), NEW x \in S
  PROVE  Append(s, x) \in Seq(S) /\ Range(Append(s, x)) = Range(s) \cup {x}
<1> DEFINE one == <<x>>
<1>1. one \in Seq(S) /\ Range(one) = {x}
  BY DEF Range
<1>2. Append(s, x) = s \o one
  OBVIOUS
<1> HIDE DEF one
<1>3. Range(s \o one) = Range(s) \cup Range(one)
  BY <1>1, RangeOfJoin
<1>4. QED
  BY <1>1, <1>2, <1>3

\* _connect_branch is called.
LEMMA BranchKeepsInv ==
  ASSUME NEW b, Inv(b), AtBranch(b)
  PROVE  Inv(ConnectBranch(b))
<1> DEFINE n == Len(b.stack)
           fork == Active(b)
           cond == fork.cond
           branch == Head(fork.branches)
           others == Tail(fork.branches)
<1>0. TypeInv(b) /\ HeldInv(b) /\ In(b, Forks) /\ fork.branches # <<>>
  BY DEF Inv, AtBranch
<1>1. /\ Sizes(b) /\ b \in BuildStates /\ b.stack # <<>> /\ n \in Nat /\ n >= 2
      /\ n \in DOMAIN b.stack
      /\ b.stack[n] = fork /\ fork.k \in Forks /\ fork \in ForkCalls
      /\ cond \in 3 .. Len(b.nodes)
      /\ fork.k = "loop" => cond \in LoopNodes(b)
      /\ Held(b, b.stack[n]) = {cond} \cup Range(fork.joined)
      /\ Pending(b, n) = IF fork.joined = <<>> THEN {cond} ELSE Range(fork.joined)
  BY <1>0, ForkIs
<1>2. n .. Len(b.stack) = {n} /\ HeldFrom(b, n) = {cond} \cup Range(fork.joined)
  <2>1. n .. Len(b.stack) = {n}
    BY <1>1
  <2>2. QED
    BY <1>1, <2>1 DEF HeldFrom
<1>3. fork.k # "block" /\ fork.k # "do" /\ fork.joined \in Seq(Nat) /\ cond \in Nat
  BY <1>1 DEF Forks, ForkCalls
<1>4. branch.stmts \in Bodies /\ others \in BranchesOf
  <2>1. fork.branches \in BranchesOf
    BY <1>1 DEF ForkCalls
  <2> DEFINE T == [label : BranchLabels, stmts : Bodies]
  <2> HIDE DEF fork, T
  <2>2. fork.branches \in Seq(T)
    BY <2>1 DEF BranchesOf, T
  <2>3. Head(fork.branches) \in T /\ Tail(fork.branches) \in Seq(T)
    BY <1>0, <2>2
  <2>4. QED
    BY <2>3 DEF BranchesOf, T
<1> HIDE DEF fork
<1>5. CASE branch.stmts = <<>>
  <2> DEFINE joined == IF fork.k = "switch" THEN Append(fork.joined, cond) ELSE fork.joined
             next == [fork EXCEPT !.branches = others, !.joined = joined]
             c == Resume(b, next)
  <2>1. /\ joined \in Seq(Nat)
        /\ Range(joined) \subseteq Range(fork.joined) \cup {cond}
        /\ Range(fork.joined) \subseteq Range(joined)
        /\ joined # <<>> /\ fork.joined = <<>> => cond \in Range(joined)
    <3> DEFINE s == fork.joined
    <3>1. s \in Seq(Nat)
      BY <1>3
    <3> HIDE DEF s
    <3>2. Append(s, cond) \in Seq(Nat) /\ Range(Append(s, cond)) = Range(s) \cup {cond}
      BY <1>3, <3>1, AppendIs
    <3>3. QED
      BY <3>1, <3>2 DEF s
  <2> HIDE DEF joined, others
  <2>2. next \in Calls /\ next.k = fork.k /\ next.cond = cond /\ next.joined = joined
    <3>1. fork \in ForkCalls /\ others \in BranchesOf /\ joined \in Seq(Nat)
      BY <1>1, <1>4, <2>1
    <3> HIDE DEF cond
    <3>2. next \in Calls /\ next.k = fork.k /\ next.cond = fork.cond /\ next.joined = joined
      BY <3>1, ForkShrinks
    <3>3. QED
      BY <3>2 DEF cond
  <2>3. ConnectBranch(b) = c
    BY <1>5 DEF ConnectBranch, c, next, joined, fork, others
  <2> HIDE DEF next
  <2>4. /\ c \in BuildStates /\ c.nodes = b.nodes /\ c.edges = b.edges /\ c.lists = b.lists
        /\ Len(c.stack) = n /\ c.stack[n] = next
        /\ \A i \in 1 .. n - 1 : c.stack[i] = b.stack[i]
    BY <1>1, <2>2, ResumeIs DEF SameButStack
  <2> HIDE DEF c
  <2>5. Sizes(c)
    BY <2>4, HasSizes
  <2>6. /\ Held(c, next) = {cond} \cup Range(joined) /\ IsPlaced(c, next)
        /\ Pending(c, n) = Range(joined) \cup IF joined = <<>> THEN {cond} ELSE {}
    BY <1>1, <1>3, <2>2, <2>4 DEF Held, IsPlaced, Pending, LoopNodes, NodeIds
  <2>7. Follows(b, c, n)
    <3>1. Behind(b, c, n)
      BY <1>1, <2>2, <2>4, <2>5 DEF Behind, Sizes
    <3>2. Grown(b, c, HeldFrom(b, n))
      BY <1>1, <2>4 DEF Grown, Sizes
    <3>3. IsRenewed(b, c, n, n)
      BY <1>1, <1>2, <1>3, <2>1, <2>2, <2>4, <2>6 DEF IsRenewed
    <3>4. QED
      BY <1>2, <2>4, <3>1, <3>2, <3>3 DEF Follows
  <2>8. \A i \in n .. Len(b.stack) : \A m \in Pending(b, i) : m \in Live(c)
    <3>1. n \in DOMAIN c.stack
      BY <1>1, <2>4, <2>5 DEF Sizes
    <3>2. Pending(b, n) \subseteq Pending(c, n)
      BY <1>1, <2>1, <2>6
    <3>3. QED
      BY <1>2, <3>1, <3>2 DEF Live
  <2> HIDE DEF n
  <2>9. QED
    BY <2>3, <2>4, <2>7, <2>8, CallsStep
<1>6. CASE branch.stmts # <<>>
  <2> DEFINE before == Len(b.edges)
             next == [fork EXCEPT !.before = before]
             t == Len(b.lists) + 1
             call == Block(branch.stmts, t)
             calls == <<call>>
             starts == <<cond>>
             d == Resume(b, next)
             e == Enter(d, calls)
             c == MakeList(e, starts)
  <2>1. before \in Nat /\ t \in Nat \ {0}
    BY <1>1 DEF Sizes
  <2> HIDE DEF before, t
  <2>2. /\ next \in Calls /\ next.k = fork.k /\ next.cond = cond
        /\ next.joined = fork.joined /\ next.branches = fork.branches
    BY <1>1, <2>1, ForkChanges
  <2>3. call \in Calls /\ call.k = "block" /\ call.tails = t
    BY <1>4, <2>1, BlockIsCall
  <2>4. ConnectBranch(b) = c
    BY <1>6 DEF ConnectBranch, c, e, d, calls, call, starts, next, fork, before, t
  <2>5. starts \in Seq(Nat) /\ Range(starts) = {cond}
    BY <1>3 DEF Range
  <2> HIDE DEF next, call, starts
  <2>6. calls \in Seq(Calls) /\ Len(calls) = 1 /\ calls[1] = call
    BY <2>3
  <2> HIDE DEF calls
  <2>7. /\ d \in BuildStates /\ SameButStack(b, d) /\ Len(d.stack) = n /\ d.stack[n] = next
        /\ \A i \in 1 .. n - 1 : d.stack[i] = b.stack[i]
    BY <1>1, <2>2, ResumeIs
  <2> HIDE DEF d
  <2>8. /\ e \in BuildStates /\ SameButStack(b, e)
        /\ Len(e.stack) = n + 1 /\ e.stack[n] = next /\ e.stack[n + 1] = call
        /\ \A i \in 1 .. n - 1 : e.stack[i] = b.stack[i]
    <3>1. /\ e \in BuildStates /\ SameButStack(d, e)
          /\ Len(e.stack) = Len(d.stack) + Len(calls)
          /\ \A i \in 1 .. Len(d.stack) : e.stack[i] = d.stack[i]
          /\ \A i \in 1 .. Len(calls) : e.stack[Len(d.stack) + i] = calls[i]
      BY <2>6, <2>7, EnterIs
    <3>2. QED
      BY <1>1, <2>6, <2>7, <3>1 DEF SameButStack
  <2> HIDE DEF e
  <2>9. /\ c \in BuildStates /\ c.nodes = b.nodes /\ c.edges = b.edges
        /\ Len(c.lists) = t /\ c.lists[t] = starts
        /\ \A u \in DOMAIN b.lists : c.lists[u] = b.lists[u]
        /\ Len(c.stack) = n + 1 /\ c.stack[n] = next /\ c.stack[n + 1] = call
        /\ \A i \in 1 .. n - 1 : c.stack[i] = b.stack[i]
    <3>1. /\ c \in BuildStates
          /\ c.nodes = e.nodes /\ c.edges = e.edges /\ c.stack = e.stack
          /\ Len(c.lists) = Len(e.lists) + 1 /\ c.lists[Len(e.lists) + 1] = starts
          /\ \A u \in DOMAIN e.lists : c.lists[u] = e.lists[u]
      BY <2>5, <2>8, MakeListIs
    <3> HIDE DEF c
    <3>2. QED
      BY <2>8, <3>1 DEF SameButStack, t
  <2> HIDE DEF c
  <2>10. Sizes(c) /\ t \in DOMAIN c.lists
    BY <2>1, <2>9, HasSizes DEF Sizes
  <2>11. /\ Held(c, next) = {cond} \cup Range(fork.joined) /\ IsPlaced(c, next)
         /\ Held(c, call) = {cond} /\ IsPlaced(c, call)
         /\ Pending(c, n) = Range(fork.joined) /\ Pending(c, n + 1) = {cond}
    <3>1. next.k # "block" /\ next.k # "do" /\ call.k \notin Forks
      BY <1>3, <2>2, <2>3 DEF Forks
    <3>2. n # Len(c.stack) /\ t # NoList
      BY <1>1, <2>1, <2>9 DEF NoList
    <3>3. QED
      BY <1>1, <2>2, <2>3, <2>5, <2>9, <2>10, <3>1, <3>2
         DEF Held, IsPlaced, Pending, Listed, LoopNodes, NodeIds
  <2>12. Follows(b, c, n)
    <3>1. Behind(b, c, n)
      BY <1>1, <2>2, <2>9, <2>10 DEF Behind, Sizes
    <3>2. Grown(b, c, HeldFrom(b, n))
      BY <1>1, <2>9, <2>10 DEF Grown, Sizes, t
    <3>3. IsRenewed(b, c, n, n)
      BY <1>0, <1>1, <1>2, <1>3, <2>2, <2>9, <2>11 DEF IsRenewed
    <3>4. IsRenewed(b, c, n, n + 1)
      BY <1>1, <1>2, <1>3, <2>3, <2>9, <2>11 DEF IsRenewed, IsStacked, Forks
    <3>5. n .. Len(c.stack) = {n, n + 1}
      BY <1>1, <2>9
    <3>6. ASSUME NEW u \in DOMAIN c.lists \ DOMAIN b.lists
          PROVE  Range(c.lists[u]) \subseteq HeldFrom(b, n)
      <4>1. u = t
        BY <1>1, <2>9, <2>10 DEF Sizes, t
      <4>2. QED
        BY <1>2, <2>5, <2>9, <4>1
    <3>7. QED
      BY <3>1, <3>2, <3>3, <3>4, <3>5, <3>6 DEF Follows
  <2>13. \A i \in n .. Len(b.stack) : \A m \in Pending(b, i) : m \in Live(c)
    <3>1. n \in DOMAIN c.stack /\ n + 1 \in DOMAIN c.stack
      BY <1>1, <2>9, <2>10 DEF Sizes
    <3>2. Pending(b, n) \subseteq Pending(c, n) \cup Pending(c, n + 1)
      BY <1>1, <2>11
    <3>3. QED
      BY <1>2, <3>1, <3>2 DEF Live
  <2> HIDE DEF n
  <2>14. QED
    BY <2>4, <2>9, <2>12, <2>13, CallsStep
<1>7. QED
  BY <1>5, <1>6

----------------------------------------------------------------------------
(* A condition has no branches left.                                       *)

\* The block that called goes on with a new list.
Returned(b, e, p) ==
  /\ Len(b.nodes) <= Len(e.nodes)
  /\ \A n \in NodeIds(b) : e.nodes[n] = b.nodes[n]
  /\ e.lists = b.lists
  /\ Len(e.stack) = p /\ \A i \in 1 .. p : e.stack[i] = b.stack[i]

LEMMA ReturnedIs ==
  ASSUME NEW b, TypeInv(b), NEW p \in DOMAIN b.stack, b.stack[p].k = "block",
         NEW e \in BuildStates, Returned(b, e, p), NEW nodes \in Seq(Nat),
         Range(nodes) \subseteq HeldFrom(b, p) \cup NewNodes(b, e)
  PROVE  LET d == AttachTo(e, nodes)
         IN  /\ d \in BuildStates /\ d.nodes = e.nodes /\ d.edges = e.edges
             /\ Follows(b, d, p) /\ Range(nodes) \subseteq Live(d)
<1> DEFINE d == AttachTo(e, nodes)
<1>1. /\ Sizes(b) /\ Sizes(e) /\ p \in Nat \ {0}
  BY HasSizes DEF TypeInv, Sizes
<1>2. e.stack # <<>> /\ Active(e) = b.stack[p] /\ Len(e.stack) = p
  <2>1. Len(e.stack) = p /\ e.stack[p] = b.stack[p]
    BY <1>1 DEF Returned
  <2>2. QED
    BY <1>1, <2>1 DEF Active
<1>3. /\ d \in BuildStates /\ d.nodes = e.nodes /\ d.edges = e.edges
      /\ Len(d.lists) = Len(e.lists) + 1 /\ d.lists[Len(e.lists) + 1] = nodes
      /\ \A u \in DOMAIN e.lists : d.lists[u] = e.lists[u]
      /\ Len(d.stack) = p
      /\ d.stack[p] = Block(Active(e).stmts, Len(e.lists) + 1)
      /\ \A i \in 1 .. p - 1 : d.stack[i] = e.stack[i]
  BY <1>2, AttachToIs
<1> HIDE DEF d
<1>4. Lists(b, d, nodes) /\ GoesOn(b, d, p, Active(e).stmts)
  BY <1>1, <1>3 DEF Returned, Lists, GoesOn
<1>5. Range(nodes) \subseteq HeldFrom(b, p) \cup NewNodes(b, d)
  BY <1>3 DEF NewNodes
<1>6. Follows(b, d, p) /\ Range(nodes) \subseteq Live(d)
  BY <1>3, <1>4, <1>5, Attached
<1>7. QED
  BY <1>3, <1>6 DEF d

\* What the methods that end a condition start from.
LEMMA ForkLeaves ==
  ASSUME NEW b, Inv(b), In(b, Forks)
  PROVE  LET n == Len(b.stack)
             e == Leave(b)
         IN  /\ e \in BuildStates /\ e.nodes = b.nodes /\ e.edges = b.edges
             /\ Returned(b, e, n - 1) /\ b.stack[n - 1].k = "block"
             /\ n - 1 \in DOMAIN b.stack /\ n - 1 .. n = {n - 1, n} /\ n \in DOMAIN b.stack
             /\ {Active(b).cond} \cup Range(Active(b).joined) \subseteq HeldFrom(b, n - 1)
             /\ {Active(b).cond} \cup Range(Active(b).joined) \subseteq NodeIds(b) \ {ExitId}
             /\ Active(b).joined \in Seq(Nat) /\ Active(b).cond \in Nat
             /\ Pending(b, n - 1) = {}
             /\ Pending(b, n) = IF Active(b).joined = <<>> THEN {Active(b).cond}
                                ELSE Range(Active(b).joined)
             /\ Len(b.nodes) \in Nat /\ Len(b.nodes) >= 2
<1> DEFINE n == Len(b.stack)
           e == Leave(b)
           cond == Active(b).cond
           joined == Active(b).joined
<1>0. TypeInv(b) /\ HeldInv(b)
  BY DEF Inv
<1>1. /\ Sizes(b) /\ b \in BuildStates /\ b.stack # <<>> /\ n \in Nat /\ n >= 2
      /\ n \in DOMAIN b.stack /\ n - 1 \in DOMAIN b.stack
      /\ b.stack[n - 1].k = "block" /\ Active(b) \in ForkCalls
      /\ cond \in 3 .. Len(b.nodes)
      /\ Held(b, b.stack[n]) = {cond} \cup Range(joined)
      /\ \A m \in Range(joined) : m \in cond .. Len(b.nodes)
      /\ Pending(b, n) = IF joined = <<>> THEN {cond} ELSE Range(joined)
  BY <1>0, ForkIs
<1>2. joined \in Seq(Nat) /\ cond \in Nat
  BY <1>1 DEF ForkCalls
<1> HIDE DEF cond, joined
<1>3. /\ e \in BuildStates /\ SameButStack(b, e) /\ Len(e.stack) = n - 1
      /\ \A i \in 1 .. n - 1 : e.stack[i] = b.stack[i]
  BY <1>1, LeaveIs
<1> HIDE DEF e
<1>4. Returned(b, e, n - 1)
  BY <1>1, <1>3 DEF Returned, SameButStack, Sizes
<1>5. n - 1 .. n = {n - 1, n}
  BY <1>1
<1>6. {cond} \cup Range(joined) \subseteq HeldFrom(b, n - 1)
  BY <1>1, <1>5 DEF HeldFrom
<1>7. {cond} \cup Range(joined) \subseteq NodeIds(b) \ {ExitId}
  BY <1>1 DEF NodeIds, ExitId, Sizes
<1>8. Pending(b, n - 1) = {}
  BY <1>1 DEF Pending
<1>9. Len(b.nodes) \in Nat /\ Len(b.nodes) >= 2
  BY <1>0, <1>1 DEF Sizes, TypeInv, ExitId
<1>10. QED
  BY <1>1, <1>2, <1>3, <1>4, <1>5, <1>6, <1>7, <1>8, <1>9
     DEF SameButStack, e, cond, joined

LEMMA OneIs ==
  ASSUME NEW n \in Nat
  PROVE  <<n>> \in Seq(Nat) /\ Range(<<n>>) = {n}
BY DEF Range

LEMMA EndIfElseKeepsInv ==
  ASSUME NEW b, Inv(b), In(b, Forks)
  PROVE  Inv(EndIfElse(b))
<1> DEFINE n == Len(b.stack)
           p == n - 1
           e == Leave(b)
           cond == Active(b).cond
           joined == Active(b).joined
           nodes == IF joined = <<>> THEN <<cond>> ELSE joined
           d == AttachTo(e, nodes)
<1>1. /\ e \in BuildStates /\ e.nodes = b.nodes /\ e.edges = b.edges
      /\ Returned(b, e, p) /\ b.stack[p].k = "block"
      /\ p \in DOMAIN b.stack /\ p .. n = {p, n}
      /\ {cond} \cup Range(joined) \subseteq HeldFrom(b, p)
      /\ joined \in Seq(Nat) /\ cond \in Nat
      /\ Pending(b, p) = {}
      /\ Pending(b, n) = IF joined = <<>> THEN {cond} ELSE Range(joined)
  BY ForkLeaves
<1> HIDE DEF e, cond, joined, p
<1>2. /\ nodes \in Seq(Nat) /\ Range(nodes) \subseteq HeldFrom(b, p)
      /\ Pending(b, n) = Range(nodes)
  BY <1>1, OneIs
<1> HIDE DEF nodes
<1>3. TypeInv(b)
  BY DEF Inv
<1>4. /\ d \in BuildStates /\ d.nodes = e.nodes /\ d.edges = e.edges
      /\ Follows(b, d, p) /\ Range(nodes) \subseteq Live(d)
  BY <1>1, <1>2, <1>3, ReturnedIs
<1>5. EndIfElse(b) = d
  BY DEF EndIfElse, d, e, nodes, cond, joined
<1> HIDE DEF d
<1>6. \A i \in p .. Len(b.stack) : \A m \in Pending(b, i) : m \in Live(d)
  BY <1>1, <1>2, <1>4
<1>7. QED
  BY <1>1, <1>4, <1>5, <1>6, CallsStep

LEMMA EndGuardKeepsInv ==
  ASSUME NEW b, Inv(b), In(b, Forks)
  PROVE  Inv(EndGuard(b))
<1> DEFINE n == Len(b.stack)
           p == n - 1
           N == Len(b.nodes)
           c == Leave(b)
           cond == Active(b).cond
           joined == Active(b).joined
           nodes == <<cond>>
           e == Link(c, joined, ExitId, "seq")
           d == AttachTo(e, nodes)
           F == Range(d.edges)
<1>1. /\ c \in BuildStates /\ c.nodes = b.nodes /\ c.edges = b.edges
      /\ Returned(b, c, p) /\ b.stack[p].k = "block"
      /\ p \in DOMAIN b.stack /\ p .. n = {p, n}
      /\ {cond} \cup Range(joined) \subseteq HeldFrom(b, p)
      /\ {cond} \cup Range(joined) \subseteq NodeIds(b) \ {ExitId}
      /\ joined \in Seq(Nat) /\ cond \in Nat
      /\ Pending(b, p) = {}
      /\ Pending(b, n) = IF joined = <<>> THEN {cond} ELSE Range(joined)
      /\ N \in Nat /\ N >= 2
  BY ForkLeaves
<1> HIDE DEF c, cond, joined, p
<1>2. nodes \in Seq(Nat) /\ Range(nodes) = {cond}
  BY <1>1, OneIs
<1> HIDE DEF nodes
<1>3. TypeInv(b) /\ ExitId \in Nat /\ "seq" \in EdgeLabels
  BY DEF Inv, ExitId, EdgeLabels
<1>4. /\ e \in BuildStates /\ SameButEdges(c, e)
      /\ Range(e.edges) = Range(b.edges) \cup EdgesFrom(joined, ExitId, "seq")
  BY <1>1, <1>3, LinkIs
<1> HIDE DEF e
<1>5. Returned(b, e, p) /\ e.nodes = b.nodes
  BY <1>1, <1>4 DEF Returned, SameButEdges
<1>6. /\ d \in BuildStates /\ d.nodes = e.nodes /\ d.edges = e.edges
      /\ Follows(b, d, p) /\ Range(nodes) \subseteq Live(d)
  BY <1>1, <1>2, <1>3, <1>4, <1>5, ReturnedIs
<1>7. EndGuard(b) = d
  BY DEF EndGuard, d, e, c, nodes, cond, joined
<1> HIDE DEF d
<1>8. NewNodes(b, d) = {} /\ N + 1 .. N = {} /\ Len(d.nodes) = N
  BY <1>1, <1>5, <1>6 DEF NewNodes
<1>9. Extends(N, N, Conds(b), Range(b.edges), F)
  <2>1. ASSUME NEW f \in F PROVE (\E x \in Range(b.edges) : Twins(x, f)) \/ Onwards(N, N, Conds(b), f)
    <3>1. CASE f \in Range(b.edges)
      BY <3>1 DEF Twins
    <3>2. CASE f \in EdgesFrom(joined, ExitId, "seq")
      <4>1. f.src \in Range(joined) /\ f.dst = ExitId /\ f.label = "seq"
        BY <3>2 DEF EdgesFrom
      <4>2. QED
        BY <1>1, <4>1 DEF Onwards, NodeIds
    <3>3. QED
      BY <1>4, <1>6, <3>1, <3>2
  <2>2. \A x \in Range(b.edges) : \E f \in F : Twins(x, f)
    BY <1>4, <1>6 DEF Twins
  <2>3. QED
    BY <1>8, <2>1, <2>2 DEF Extends
<1>10. ASSUME NEW m \in Pending(b, n) PROVE Leads(F, Live(d), m)
  <2>1. CASE joined = <<>>
    BY <1>1, <1>2, <1>6, <2>1 DEF Leads
  <2>2. CASE joined # <<>>
    <3> DEFINE x == [src |-> m, dst |-> ExitId, label |-> "seq"]
    <3>1. x \in F
      BY <1>1, <1>4, <1>6, <2>2 DEF EdgesFrom
    <3>2. x.src = m /\ x.dst = ExitId
      OBVIOUS
    <3>3. Leads(F, Live(d), ExitId)
      BY DEF Leads
    <3> HIDE DEF x, F
    <3>4. QED
      BY <3>1, <3>2, <3>3, LeadsAlong
  <2>3. QED
    BY <2>1, <2>2
<1>11. \A i \in p .. Len(b.stack) : \A m \in Pending(b, i) : Leads(F, Live(d), m)
  BY <1>1, <1>10
<1>12. QED
  <2>1. Extends(Len(b.nodes), Len(d.nodes), Conds(b), Range(b.edges), Range(d.edges))
    BY <1>8, <1>9
  <2>2. QED
    BY <1>6, <1>7, <1>8, <1>11, <2>1, Steps

LEMMA JoinAfterIs ==
  ASSUME NEW c \in BuildStates, NEW cond \in Nat, NEW joined \in Seq(Nat)
  PROVE  LET e == JoinAfter(c, cond, joined)
             M == Len(c.nodes) + 1
         IN  /\ e \in BuildStates /\ e.lists = c.lists /\ e.stack = c.stack
             /\ Len(e.nodes) = M
             /\ \A n \in NodeIds(c) : e.nodes[n] = c.nodes[n]
             /\ Range(e.edges) = Range(c.edges) \cup EdgesFrom(<<cond>>, M, "false")
                                 \cup EdgesFrom(joined, M, "seq")
<1> DEFINE M == Len(c.nodes) + 1
           node == Plain("statement", "if-join")
           nodes == Append(c.nodes, node)
           f == [c EXCEPT !.nodes = nodes]
           from == <<cond>>
           g == Link(f, from, M, "false")
           e == Link(g, joined, M, "seq")
<1>1. Sizes(c) /\ M \in Nat /\ "false" \in EdgeLabels /\ "seq" \in EdgeLabels
  BY HasSizes DEF Sizes, EdgeLabels
<1>2. c.nodes \in Seq(GraphNodes) /\ node \in GraphNodes
  BY PlainIsNode DEF BuildStates, Kinds, NodeLabels
<1> HIDE DEF node
<1>3. /\ nodes \in Seq(GraphNodes) /\ Len(nodes) = M
      /\ \A n \in NodeIds(c) : nodes[n] = c.nodes[n]
  BY <1>2 DEF NodeIds
<1>4. JoinAfter(c, cond, joined) = e
  BY DEF JoinAfter, e, g, f, from, M, nodes, node
<1> HIDE DEF nodes
<1>5. /\ f \in BuildStates /\ f.nodes = nodes
      /\ f.edges = c.edges /\ f.lists = c.lists /\ f.stack = c.stack
  BY <1>3 DEF BuildStates
<1> HIDE DEF f, M
<1>6. from \in Seq(Nat)
  BY OneIs
<1> HIDE DEF from
<1>7. /\ g \in BuildStates /\ SameButEdges(f, g)
      /\ Range(g.edges) = Range(f.edges) \cup EdgesFrom(from, M, "false")
  BY <1>1, <1>5, <1>6, LinkIs
<1> HIDE DEF g
<1>8. /\ e \in BuildStates /\ SameButEdges(g, e)
      /\ Range(e.edges) = Range(g.edges) \cup EdgesFrom(joined, M, "seq")
  <2>1. joined \in Seq(Nat) /\ "seq" \in EdgeLabels /\ M \in Nat
    BY <1>1
  <2>2. g \in BuildStates
    BY <1>7
  <2>3. QED
    BY <2>1, <2>2, LinkIs
<1> HIDE DEF e
<1>9. QED
  BY <1>3, <1>4, <1>5, <1>7, <1>8 DEF SameButEdges, M, from

LEMMA EndIfKeepsInv ==
  ASSUME NEW b, Inv(b), In(b, Forks)
  PROVE  Inv(EndIf(b))
<1> DEFINE n == Len(b.stack)
           p == n - 1
           N == Len(b.nodes)
           c == Leave(b)
           cond == Active(b).cond
           joined == Active(b).joined
           e == JoinAfter(c, cond, joined)
           M == Len(e.nodes)
           nodes == <<M>>
           d == AttachTo(e, nodes)
           F == Range(d.edges)
<1>1. /\ c \in BuildStates /\ c.nodes = b.nodes /\ c.edges = b.edges
      /\ Returned(b, c, p) /\ b.stack[p].k = "block"
      /\ p \in DOMAIN b.stack /\ p .. n = {p, n}
      /\ {cond} \cup Range(joined) \subseteq NodeIds(b) \ {ExitId}
      /\ joined \in Seq(Nat) /\ cond \in Nat
      /\ Pending(b, p) = {}
      /\ Pending(b, n) = IF joined = <<>> THEN {cond} ELSE Range(joined)
      /\ N \in Nat /\ N >= 2
  BY ForkLeaves
<1>2. /\ \A m \in Range(joined) : m \in cond .. N
      /\ \A x \in Conds(b) : x <= cond
      /\ Conds(b) \in SUBSET (3 .. N)
  BY ForkIs, CondsAreNodes DEF Inv
<1> HIDE DEF c, cond, joined, p
<1>3. /\ e \in BuildStates /\ e.lists = c.lists /\ e.stack = c.stack
      /\ M = N + 1
      /\ \A m \in NodeIds(c) : e.nodes[m] = c.nodes[m]
      /\ Range(e.edges) = Range(c.edges) \cup EdgesFrom(<<cond>>, N + 1, "false")
                          \cup EdgesFrom(joined, N + 1, "seq")
  <2>1. /\ e \in BuildStates /\ e.lists = c.lists /\ e.stack = c.stack
        /\ M = Len(c.nodes) + 1
        /\ \A m \in NodeIds(c) : e.nodes[m] = c.nodes[m]
        /\ Range(e.edges) = Range(c.edges) \cup EdgesFrom(<<cond>>, Len(c.nodes) + 1, "false")
                            \cup EdgesFrom(joined, Len(c.nodes) + 1, "seq")
    BY <1>1, JoinAfterIs
  <2> HIDE DEF e
  <2>2. QED
    BY <1>1, <2>1
<1> HIDE DEF e
<1>4. M \in Nat /\ NewNodes(b, e) = {M} /\ N + 1 .. M = {M}
  BY <1>1, <1>3 DEF NewNodes
<1> HIDE DEF M
<1>5. nodes \in Seq(Nat) /\ Range(nodes) = {M}
  BY <1>4, OneIs
<1> HIDE DEF nodes
<1>6. Returned(b, e, p) /\ TypeInv(b)
  BY <1>1, <1>3 DEF Returned, NodeIds, M, Inv
<1>7. /\ d \in BuildStates /\ d.nodes = e.nodes /\ d.edges = e.edges
      /\ Follows(b, d, p) /\ Range(nodes) \subseteq Live(d)
  BY <1>1, <1>3, <1>4, <1>5, <1>6, ReturnedIs
<1>8. EndIf(b) = d
  BY DEF EndIf, d, e, c, nodes, cond, joined, M
<1> HIDE DEF d
<1>9. Len(d.nodes) = M /\ NewNodes(b, d) = {M}
  BY <1>4, <1>7 DEF NewNodes, M
<1>10. ASSUME NEW m \in {cond} \cup Range(joined)
       PROVE  \E x \in F : x.src = m /\ x.dst = M
  <2>1. CASE m \in Range(joined)
    <3> DEFINE x == [src |-> m, dst |-> N + 1, label |-> "seq"]
    <3>1. x \in F
      BY <1>3, <1>7, <2>1 DEF EdgesFrom
    <3>2. QED
      BY <1>3, <3>1
  <2>2. CASE m = cond
    <3> DEFINE x == [src |-> m, dst |-> N + 1, label |-> "false"]
    <3>1. x \in F
      <4>1. Range(<<cond>>) = {cond}
        BY <1>1, OneIs
      <4>2. QED
        BY <1>3, <1>7, <2>2, <4>1 DEF EdgesFrom
    <3>2. QED
      BY <1>3, <3>1
  <2>3. QED
    BY <2>1, <2>2
<1>11. Extends(N, M, Conds(b), Range(b.edges), F)
  <2>1. ASSUME NEW f \in F PROVE (\E x \in Range(b.edges) : Twins(x, f)) \/ Onwards(N, M, Conds(b), f)
    <3>1. CASE f \in Range(b.edges)
      BY <3>1 DEF Twins
    <3>2. CASE f \notin Range(b.edges)
      <4>1. f.src \in {cond} \cup Range(joined) /\ f.dst = N + 1 /\ f.label # "back"
        <5>1. Range(<<cond>>) = {cond}
          BY <1>1, OneIs
        <5>2. QED
          BY <1>1, <1>3, <1>7, <3>2, <5>1 DEF EdgesFrom
      <4>2. f.src \in NodeIds(b) \ {ExitId}
        BY <1>1, <4>1
      <4>3. \A x \in Conds(b) : f.src >= x
        BY <1>1, <1>2, <4>1
      <4>4. QED
        BY <1>1, <1>3, <4>1, <4>2, <4>3 DEF Onwards, NodeIds
    <3>3. QED
      BY <3>1, <3>2
  <2>2. \A x \in Range(b.edges) : \E f \in F : Twins(x, f)
    BY <1>1, <1>3, <1>7 DEF Twins
  <2>3. ASSUME NEW m \in N + 1 .. M PROVE \E f \in F : f.dst = m /\ f.src < m
    <3>1. PICK x \in F : x.src = cond /\ x.dst = M
      BY <1>10
    <3>2. m = M /\ cond < M
      BY <1>1, <1>3, <1>4 DEF NodeIds
    <3>3. QED
      BY <3>1, <3>2
  <2>4. QED
    BY <2>1, <2>2, <2>3 DEF Extends
<1>12. Leads(F, Live(d), M)
  BY <1>5, <1>7 DEF Leads
<1>13. ASSUME NEW m \in {cond} \cup Range(joined) PROVE Leads(F, Live(d), m)
  <2>1. PICK x \in F : x.src = m /\ x.dst = M
    BY <1>10
  <2> HIDE DEF F
  <2>2. QED
    BY <1>12, <2>1, LeadsAlong
<1>14. \A i \in p .. Len(b.stack) : \A m \in Pending(b, i) : Leads(F, Live(d), m)
  BY <1>1, <1>13
<1>15. QED
  <2>1. Extends(Len(b.nodes), Len(d.nodes), Conds(b), Range(b.edges), Range(d.edges))
    BY <1>9, <1>11
  <2>2. QED
    BY <1>7, <1>8, <1>9, <1>12, <1>14, <2>1, Steps

LEMMA EndLoopKeepsInv ==
  ASSUME NEW b, Inv(b), In(b, Forks), Active(b).k = "loop"
  PROVE  Inv(EndLoop(b))
<1> DEFINE n == Len(b.stack)
           p == n - 1
           N == Len(b.nodes)
           c == Leave(b)
           cond == Active(b).cond
           joined == Active(b).joined
           nodes == <<cond>>
           e == Link(c, joined, cond, "back")
           d == AttachTo(e, nodes)
           E == Range(b.edges)
           F == Range(d.edges)
<1>1. /\ c \in BuildStates /\ c.nodes = b.nodes /\ c.edges = b.edges
      /\ Returned(b, c, p) /\ b.stack[p].k = "block"
      /\ p \in DOMAIN b.stack /\ p .. n = {p, n}
      /\ {cond} \cup Range(joined) \subseteq HeldFrom(b, p)
      /\ {cond} \cup Range(joined) \subseteq NodeIds(b) \ {ExitId}
      /\ joined \in Seq(Nat) /\ cond \in Nat
      /\ Pending(b, p) = {}
      /\ Pending(b, n) = IF joined = <<>> THEN {cond} ELSE Range(joined)
      /\ N \in Nat /\ N >= 2
  BY ForkLeaves
<1>2. /\ \A m \in Range(joined) : m \in cond .. N
      /\ \A x \in Conds(b) : x <= cond
      /\ cond \in Conds(b) /\ cond \in LoopNodes(b)
      /\ Conds(b) \in SUBSET (3 .. N)
  BY ForkIs, CondsAreNodes DEF Inv
<1> HIDE DEF c, cond, joined, p
<1>3. nodes \in Seq(Nat) /\ Range(nodes) = {cond}
  BY <1>1, OneIs
<1> HIDE DEF nodes
<1>4. TypeInv(b) /\ "back" \in EdgeLabels
  BY DEF Inv, EdgeLabels
<1>5. /\ e \in BuildStates /\ SameButEdges(c, e)
      /\ Range(e.edges) = E \cup EdgesFrom(joined, cond, "back")
  BY <1>1, <1>4, LinkIs
<1> HIDE DEF e
<1>6. Returned(b, e, p) /\ e.nodes = b.nodes
  BY <1>1, <1>5 DEF Returned, SameButEdges
<1>7. /\ d \in BuildStates /\ d.nodes = e.nodes /\ d.edges = e.edges
      /\ Follows(b, d, p) /\ Range(nodes) \subseteq Live(d)
  BY <1>1, <1>3, <1>4, <1>5, <1>6, ReturnedIs
<1>8. EndLoop(b) = d
  BY DEF EndLoop, d, e, c, nodes, cond, joined
<1> HIDE DEF d
<1>9. /\ E \subseteq F
      /\ \A f \in F \ E : f.src \in Range(joined) /\ f.dst = cond /\ f.label = "back"
  BY <1>5, <1>7 DEF EdgesFrom
<1>10. \A f \in E : f.src \in NodeIds(b) \ {ExitId} /\ f.dst \in NodeIds(b)
  BY <1>4 DEF TypeInv
<1>11. d.nodes = b.nodes /\ NodeIds(d) = NodeIds(b) /\ LoopNodes(d) = LoopNodes(b)
  BY <1>6, <1>7 DEF NodeIds, LoopNodes
<1>12. \A f \in F : f.src \in NodeIds(d) \ {ExitId} /\ f.dst \in NodeIds(d)
  BY <1>1, <1>9, <1>10, <1>11
<1>13. TypeInv(d) /\ HeldInv(d) /\ Conds(d) \subseteq Conds(b)
  <2>1. ~(Len(b.nodes) < Len(d.nodes))
    BY <1>1, <1>11
  <2>2. QED
    BY <1>7, <1>12, <2>1, TypeSteps
<1>14. GraphInv(Len(d.nodes), LoopNodes(d), F, Conds(d))
  <2>1. GraphInv(N, LoopNodes(b), E, Conds(b))
    BY DEF Inv
  <2>2. \A f \in E : f.src \in 1 .. N /\ f.dst \in 1 .. N
    BY <1>10 DEF NodeIds
  <2>3. \A f \in F \ E : f.src \in cond .. N /\ f.dst = cond /\ f.label = "back"
    BY <1>2, <1>9
  <2>4. Conds(d) \in SUBSET Conds(b) /\ \A x \in Conds(d) : x <= cond
    BY <1>2, <1>13
  <2> HIDE DEF N, E, F
  <2>5. GraphInv(N, LoopNodes(b), F, Conds(d))
    BY <1>1, <1>2, <1>9, <2>1, <2>2, <2>3, <2>4, LoopCloses
  <2>6. QED
    BY <1>11, <2>5 DEF N
<1>15. Leads(F, Live(d), cond)
  BY <1>3, <1>7 DEF Leads
<1>16. ASSUME NEW m \in {cond} \cup Range(joined) PROVE Leads(F, Live(d), m)
  <2>1. CASE m \in Range(joined)
    <3> DEFINE x == [src |-> m, dst |-> cond, label |-> "back"]
    <3>1. x \in F
      BY <1>5, <1>7, <2>1 DEF EdgesFrom
    <3>2. x.src = m /\ x.dst = cond
      OBVIOUS
    <3> HIDE DEF x, F
    <3>3. QED
      BY <1>15, <3>1, <3>2, LeadsAlong
  <2>2. QED
    BY <1>15, <2>1
<1>17. NoTrap(d)
  <2>1. \A i \in p .. Len(b.stack) : \A m \in Pending(b, i) : Leads(F, Live(d), m)
    BY <1>1, <1>16
  <2>2. \A m \in Live(b) : Leads(F, Live(d), m)
    BY <1>4, <1>7, <2>1, LiveLeads DEF Follows
  <2>3. \A x \in E : \E f \in F : Twins(x, f)
    BY <1>9 DEF Twins
  <2>4. \A m \in NodeIds(b) : Leads(E, Live(b), m)
    BY DEF Inv, NoTrap
  <2> HIDE DEF E, F
  <2>5. \A m \in NodeIds(b) : Leads(F, Live(d), m)
    BY <2>2, <2>3, <2>4, LeadsOn
  <2>6. QED
    BY <1>11, <2>5 DEF NoTrap, F
<1>18. QED
  BY <1>8, <1>13, <1>14, <1>17 DEF Inv

LEMMA ForkEndKeepsInv ==
  ASSUME NEW b, Inv(b), AtForkEnd(b)
  PROVE  Inv(EndFork(b))
BY EndIfKeepsInv, EndGuardKeepsInv, EndLoopKeepsInv, EndIfElseKeepsInv DEF AtForkEnd, EndFork

----------------------------------------------------------------------------
(* emit_statements and _emit_do_catch return.                              *)

\* A block or a do at p gets the tails t of the call that returns.
LEMMA GiveBackIs ==
  ASSUME NEW c \in BuildStates, c.stack # <<>>, Active(c).k \in {"block", "do"},
         NEW t \in Nat
  PROVE  LET d == GiveBack(c, t)
             p == Len(c.stack)
         IN  /\ d \in BuildStates /\ SameButStack(c, d) /\ Len(d.stack) = p
             /\ d.stack[p].k = c.stack[p].k /\ d.stack[p].tails = t
             /\ c.stack[p].k = "do" => d.stack[p].preds = c.stack[p].preds
             /\ \A i \in 1 .. p - 1 : d.stack[i] = c.stack[i]
<1> DEFINE p == Len(c.stack)
           call == Active(c)
           next == [call EXCEPT !.tails = t]
           d == GiveBack(c, t)
<1>1. call = c.stack[p] /\ call \in Calls
  <2>1. c.stack \in Seq(Calls)
    BY DEF BuildStates
  <2>2. p \in DOMAIN c.stack
    BY <2>1
  <2>3. QED
    BY <2>1, <2>2 DEF Active
<1>2. call \in BlockCalls \/ call \in DoCalls
  BY <1>1 DEF Calls, BlockCalls, DoCalls, Forks
<1> HIDE DEF call
<1>3. /\ next \in Calls /\ next.k = call.k /\ next.tails = t
      /\ call.k = "do" => next.preds = call.preds
  <2>1. CASE call \in BlockCalls
    BY <2>1 DEF BlockCalls, Calls
  <2>2. CASE call \in DoCalls
    BY <2>2 DEF DoCalls, Calls
  <2>3. QED
    BY <1>2, <2>1, <2>2
<1>4. d = Resume(c, next)
  BY DEF GiveBack, d, next, call
<1> HIDE DEF next, d, p
<1>5. /\ d \in BuildStates /\ SameButStack(c, d) /\ Len(d.stack) = p /\ d.stack[p] = next
      /\ \A i \in 1 .. p - 1 : d.stack[i] = c.stack[i]
  BY <1>3, <1>4, ResumeIs DEF p
<1>6. QED
  BY <1>1, <1>3, <1>5 DEF d, p

\* The call at p, the caller of the one that returned, has got its tails.
LEMMA TailsKeepInv ==
  ASSUME NEW b, Inv(b), NEW p \in Nat \ {0}, Len(b.stack) = p + 1,
         b.stack[p].k \in {"block", "do"}, Pending(b, p) = {},
         NEW t \in DOMAIN b.lists, Pending(b, p + 1) = Range(b.lists[t]),
         Range(b.lists[t]) \subseteq Held(b, b.stack[p + 1])
  PROVE  Inv(GiveBack(Leave(b), t))
<1> DEFINE c == Leave(b)
           d == GiveBack(c, t)
<1>0. TypeInv(b) /\ HeldInv(b) /\ b \in BuildStates /\ Sizes(b) /\ b.stack # <<>>
  BY HasSizes DEF Inv, TypeInv
<1>1. /\ c \in BuildStates /\ SameButStack(b, c) /\ Len(c.stack) = p
      /\ \A i \in 1 .. p : c.stack[i] = b.stack[i]
  BY <1>0, LeaveIs
<1>2. c.stack # <<>> /\ Active(c) = b.stack[p]
  BY <1>1 DEF Active
<1> HIDE DEF c
<1>3. t \in Nat /\ t # NoList
  BY <1>0 DEF Sizes, NoList
<1>4. /\ d \in BuildStates /\ SameButStack(c, d) /\ Len(d.stack) = p
      /\ d.stack[p].k = b.stack[p].k /\ d.stack[p].tails = t
      /\ b.stack[p].k = "do" => d.stack[p].preds = b.stack[p].preds
      /\ \A i \in 1 .. p - 1 : d.stack[i] = b.stack[i]
  <2>1. /\ d \in BuildStates /\ SameButStack(c, d) /\ Len(d.stack) = Len(c.stack)
        /\ d.stack[Len(c.stack)].k = c.stack[Len(c.stack)].k
        /\ d.stack[Len(c.stack)].tails = t
        /\ c.stack[Len(c.stack)].k = "do" =>
             d.stack[Len(c.stack)].preds = c.stack[Len(c.stack)].preds
        /\ \A i \in 1 .. Len(c.stack) - 1 : d.stack[i] = c.stack[i]
    BY <1>1, <1>2, <1>3, GiveBackIs
  <2> HIDE DEF d
  <2>2. QED
    BY <1>1, <2>1
<1> HIDE DEF d
<1>5. Sizes(d) /\ SameButStack(b, d) /\ p \in DOMAIN b.stack /\ p \in DOMAIN d.stack
  BY <1>0, <1>1, <1>4, HasSizes DEF SameButStack, Sizes
<1>6. Range(b.lists[t]) \subseteq HeldFrom(b, p) /\ Held(b, b.stack[p]) \subseteq HeldFrom(b, p)
  <2>1. p + 1 \in p .. Len(b.stack) /\ p \in p .. Len(b.stack)
    OBVIOUS
  <2>2. QED
    BY <2>1 DEF HeldFrom
<1>7. IsPlaced(b, b.stack[p])
  BY <1>0, <1>5 DEF TypeInv
<1>8. IsPlaced(d, d.stack[p]) /\ Held(d, d.stack[p]) \subseteq HeldFrom(b, p)
  <2>1. CASE b.stack[p].k = "block"
    BY <1>3, <1>4, <1>5, <1>6, <2>1 DEF IsPlaced, Held, Listed, Forks, SameButStack
  <2>2. CASE b.stack[p].k = "do"
    BY <1>3, <1>4, <1>5, <1>6, <1>7, <2>2 DEF IsPlaced, Held, Listed, Forks, SameButStack
  <2>3. QED
    BY <2>1, <2>2
<1>9. Follows(b, d, p)
  <2>1. Behind(b, d, p)
    BY <1>4, <1>5 DEF Behind, Forks
  <2>2. Grown(b, d, HeldFrom(b, p))
    BY <1>0, <1>5 DEF Grown, SameButStack, Sizes
  <2>3. ASSUME NEW i \in p .. Len(d.stack) PROVE IsRenewed(b, d, p, i)
    <3>1. i = p
      BY <1>4
    <3>2. QED
      BY <1>3, <1>4, <1>8, <3>1 DEF IsRenewed, Forks
  <2>4. QED
    BY <1>5, <2>1, <2>2, <2>3 DEF Follows, SameButStack
<1>10. ASSUME NEW i \in p .. Len(b.stack), NEW m \in Pending(b, i) PROVE m \in Live(d)
  <2>1. i = p + 1
    OBVIOUS
  <2>2. Pending(d, p) = Range(b.lists[t])
    BY <1>3, <1>4, <1>5 DEF Pending, Listed, SameButStack
  <2>3. QED
    BY <1>5, <2>1, <2>2 DEF Live
<1>11. QED
  <2>1. d.nodes = b.nodes /\ d.edges = b.edges
    BY <1>5 DEF SameButStack
  <2>2. Inv(d)
    BY <1>4, <1>9, <1>10, <2>1, CallsStep
  <2>3. QED
    BY <2>2 DEF d, c

LEMMA DoEndKeepsInv ==
  ASSUME NEW b, Inv(b), AtDoEnd(b)
  PROVE  Inv(EndDo(b))
<1> DEFINE n == Len(b.stack)
           p == n - 1
           t == Active(b).tails
<1>1. /\ Sizes(b) /\ n \in Nat /\ n >= 2 /\ b.stack[p].k = "block"
      /\ t \in DOMAIN b.lists
      /\ Range(b.lists[t]) \subseteq Held(b, b.stack[n])
      /\ Pending(b, n) = Range(b.lists[t])
  BY DoIs DEF Inv, AtDoEnd
<1>2. p \in Nat \ {0} /\ n = p + 1 /\ Len(b.stack) = p + 1
  <2> HIDE DEF n
  <2>1. p \in Nat \ {0} /\ n = p + 1
    BY <1>1
  <2>2. QED
    BY <2>1 DEF n
<1>3. Pending(b, p) = {}
  BY <1>1, <1>2 DEF Pending
<1>4. EndDo(b) = GiveBack(Leave(b), t)
  BY DEF EndDo
<1> HIDE DEF t, p
<1>5. QED
  BY <1>1, <1>2, <1>3, <1>4, TailsKeepInv

\* emit_statements returns to no one: its tails lead to the exit.
LEMMA LastKeepsInv ==
  ASSUME NEW b, Inv(b), AtReturn(b), Leave(b).stack = <<>>
  PROVE  Inv(EndBlock(b))
<1> DEFINE c == Leave(b)
           N == Len(b.nodes)
           tails == Tails(b)
           d == Link(c, tails, ExitId, "seq")
           E == Range(b.edges)
           F == Range(d.edges)
<1>0. TypeInv(b) /\ HeldInv(b) /\ In(b, {"block"})
  BY DEF Inv, AtReturn
<1>1. /\ Sizes(b) /\ b \in BuildStates /\ b.stack # <<>>
      /\ tails \in Seq(Nat) /\ Range(tails) \subseteq NodeIds(b) \ {ExitId}
      /\ Pending(b, Len(b.stack)) = Range(tails)
      /\ Len(b.stack) \in DOMAIN b.stack
  BY <1>0, BlockIs
<1>2. /\ c \in BuildStates /\ SameButStack(b, c) /\ c.stack = <<>>
      /\ Len(c.stack) = Len(b.stack) - 1
  BY <1>1, LeaveIs
<1>3. DOMAIN b.stack = {1} /\ Len(b.stack) = 1
  <2>1. Len(c.stack) = 0
    BY <1>2
  <2> HIDE DEF c
  <2>2. Len(b.stack) = 1
    BY <1>1, <1>2, <2>1 DEF Sizes
  <2>3. QED
    BY <1>1, <2>2 DEF Sizes
<1>4. EndBlock(b) = d
  BY <1>2 DEF EndBlock, d, c, Tails
<1> HIDE DEF c, tails
<1>5. ExitId \in Nat /\ "seq" \in EdgeLabels /\ N \in Nat /\ N >= 2
  BY <1>0, <1>1 DEF ExitId, EdgeLabels, Sizes, TypeInv
<1>6. /\ d \in BuildStates /\ SameButEdges(c, d)
      /\ F = Range(c.edges) \cup EdgesFrom(tails, ExitId, "seq")
  <2>1. c \in BuildStates /\ tails \in Seq(Nat) /\ ExitId \in Nat /\ "seq" \in EdgeLabels
    BY <1>1, <1>2, <1>5
  <2>2. QED
    BY <2>1, LinkIs
<1> HIDE DEF d
<1>7. /\ d.nodes = b.nodes /\ d.lists = b.lists /\ d.stack = <<>> /\ DOMAIN d.stack = {}
      /\ NodeIds(d) = NodeIds(b)
  <2>1. DOMAIN <<>> = {}
    OBVIOUS
  <2>2. d.nodes = b.nodes /\ d.lists = b.lists /\ d.stack = <<>>
    BY <1>2, <1>6 DEF SameButEdges, SameButStack
  <2>3. QED
    BY <2>1, <2>2 DEF NodeIds
<1>8. E \subseteq F
      /\ \A f \in F \ E : f.src \in Range(tails) /\ f.dst = ExitId /\ f.label = "seq"
  BY <1>2, <1>6 DEF SameButStack, EdgesFrom
<1>9. \A f \in E : f.src \in NodeIds(b) \ {ExitId} /\ f.dst \in NodeIds(b)
  BY <1>0 DEF TypeInv
<1>10. TypeInv(d)
  <2>1. \A f \in F : f.src \in NodeIds(d) \ {ExitId} /\ f.dst \in NodeIds(d)
    BY <1>1, <1>5, <1>7, <1>8, <1>9 DEF NodeIds, ExitId
  <2>2. QED
    BY <1>0, <1>6, <1>7, <2>1 DEF TypeInv
<1>11. HeldInv(d) /\ Conds(d) = {} /\ Live(d) = {}
  BY <1>7 DEF HeldInv, ForksOf, Conds, Live
<1>12. GraphInv(N, LoopNodes(d), F, Conds(d))
  <2>1. Conds(b) \in SUBSET (3 .. N) /\ GraphInv(N, LoopNodes(b), E, Conds(b))
    BY <1>0, CondsAreNodes DEF Inv
  <2>2. \A f \in E : f.src \in 1 .. N /\ f.dst \in 1 .. N
    BY <1>9 DEF NodeIds
  <2>3. Extends(N, N, Conds(b), E, F)
    <3>1. ASSUME NEW f \in F PROVE (\E e \in E : Twins(e, f)) \/ Onwards(N, N, Conds(b), f)
      BY <1>1, <1>8 DEF Twins, Onwards, NodeIds
    <3>2. \A e \in E : \E f \in F : Twins(e, f)
      BY <1>8 DEF Twins
    <3>3. N + 1 .. N = {}
      BY <1>5
    <3>4. QED
      BY <3>1, <3>2, <3>3 DEF Extends
  <2>4. LoopNodes(b) \subseteq LoopNodes(d)
    BY <1>7 DEF LoopNodes
  <2> HIDE DEF N, E, F
  <2>5. Conds(d) \in SUBSET (Conds(b) \cup {N}) /\ Conds(d) \subseteq Conds(b)
    BY <1>11
  <2>6. QED
    BY <1>5, <2>1, <2>2, <2>3, <2>4, <2>5, GraphGrows
<1>13. NoTrap(d)
  <2>1. ASSUME NEW m \in Live(b) PROVE Leads(F, Live(d), m)
    <3>1. m \in Range(tails)
      BY <1>1, <1>3, <2>1 DEF Live
    <3> DEFINE x == [src |-> m, dst |-> ExitId, label |-> "seq"]
    <3>2. x \in F
      BY <1>6, <3>1 DEF EdgesFrom
    <3>3. x.src = m /\ x.dst = ExitId
      OBVIOUS
    <3>4. Leads(F, Live(d), ExitId)
      BY DEF Leads
    <3> HIDE DEF x, F
    <3>5. QED
      BY <3>2, <3>3, <3>4, LeadsAlong
  <2>2. \A e \in E : \E f \in F : Twins(e, f)
    BY <1>8 DEF Twins
  <2>3. \A m \in NodeIds(b) : Leads(E, Live(b), m)
    BY DEF Inv, NoTrap
  <2> HIDE DEF E, F
  <2>4. \A m \in NodeIds(b) : Leads(F, Live(d), m)
    BY <2>1, <2>2, <2>3, LeadsOn
  <2>5. QED
    BY <1>7, <2>4 DEF NoTrap, F
<1>14. QED
  BY <1>4, <1>7, <1>10, <1>11, <1>12, <1>13 DEF Inv

\* The tails of a catch block extend the list the body gave back.
LEMMA CatchDoneKeepsInv ==
  ASSUME NEW b, Inv(b), NEW p \in Nat \ {0}, Len(b.stack) = p + 1,
         b.stack[p].k = "do", b.stack[p].tails # NoList,
         NEW t \in DOMAIN b.lists, Pending(b, p + 1) = Range(b.lists[t]),
         Range(b.lists[t]) \subseteq Held(b, b.stack[p + 1])
  PROVE  Inv(CatchDone(Leave(b), t))
<1> DEFINE c == Leave(b)
           d == CatchDone(c, t)
           do == b.stack[p]
           u == do.tails
           both == b.lists[u] \o b.lists[t]
<1>0. TypeInv(b) /\ HeldInv(b) /\ b \in BuildStates /\ Sizes(b) /\ b.stack # <<>>
  BY HasSizes DEF Inv, TypeInv
<1>1. /\ c \in BuildStates /\ SameButStack(b, c) /\ Len(c.stack) = p
      /\ \A i \in 1 .. p : c.stack[i] = b.stack[i]
  BY <1>0, LeaveIs
<1>2. Active(c) = do
  BY <1>1 DEF Active
<1> HIDE DEF c
<1>3. p \in DOMAIN b.stack /\ IsPlaced(b, do)
  BY <1>0 DEF Sizes, TypeInv
<1> HIDE DEF do
<1>4. u \in DOMAIN b.lists /\ do.preds \in DOMAIN b.lists /\ do.k = "do"
  BY <1>3 DEF IsPlaced, do
<1> HIDE DEF u
<1>5. /\ b.lists \in Seq(Seq(Nat)) /\ b.lists[u] \in Seq(Nat) /\ b.lists[t] \in Seq(Nat)
  BY <1>0, <1>4 DEF BuildStates
<1>6. both \in Seq(Nat) /\ Range(both) = Range(b.lists[u]) \cup Range(b.lists[t])
  <2> DEFINE x == b.lists[u]
             y == b.lists[t]
  <2>1. x \in Seq(Nat) /\ y \in Seq(Nat)
    BY <1>5
  <2> HIDE DEF x, y
  <2>2. x \o y \in Seq(Nat) /\ Range(x \o y) = Range(x) \cup Range(y)
    BY <2>1, RangeOfJoin
  <2>3. QED
    BY <2>2 DEF x, y
<1>7. d = [c EXCEPT !.lists = [b.lists EXCEPT ![u] = both]]
  BY <1>1, <1>2 DEF CatchDone, SameButStack, u
<1> HIDE DEF both, d
<1> DEFINE lists == [b.lists EXCEPT ![u] = both]
<1>8. lists \in Seq(Seq(Nat))
  BY <1>4, <1>5, <1>6
<1>9. /\ DOMAIN lists = DOMAIN b.lists /\ lists[u] = both
      /\ \A w \in DOMAIN b.lists : w # u => lists[w] = b.lists[w]
  BY <1>4, <1>5
<1> HIDE DEF lists
<1>10. /\ d \in BuildStates /\ d.lists = lists
       /\ d.nodes = b.nodes /\ d.edges = b.edges /\ d.stack = c.stack
  BY <1>1, <1>7, <1>8 DEF BuildStates, SameButStack, lists
<1>11. Sizes(d) /\ Len(d.stack) = p /\ p \in DOMAIN d.stack /\ d.stack[p] = do
       /\ \A i \in 1 .. p - 1 : d.stack[i] = b.stack[i]
  BY <1>1, <1>10, HasSizes DEF Sizes, do
<1>12. /\ Range(b.lists[t]) \subseteq HeldFrom(b, p)
       /\ Held(b, do) \subseteq HeldFrom(b, p)
  <2>1. p + 1 \in p .. Len(b.stack) /\ p \in p .. Len(b.stack)
    OBVIOUS
  <2>2. QED
    BY <2>1 DEF HeldFrom, do
<1>13. Grown(b, d, HeldFrom(b, p))
  <2>1. \A w \in DOMAIN b.lists :
          /\ w \in DOMAIN d.lists
          /\ Range(b.lists[w]) \subseteq Range(d.lists[w])
          /\ Range(d.lists[w]) \subseteq Range(b.lists[w]) \cup HeldFrom(b, p)
    BY <1>6, <1>9, <1>10, <1>12
  <2>2. Len(b.nodes) <= Len(d.nodes) /\ \A n \in NodeIds(b) : d.nodes[n] = b.nodes[n]
    BY <1>0, <1>10 DEF Sizes
  <2>3. QED
    BY <2>1, <2>2 DEF Grown
<1>14. Follows(b, d, p)
  <2>1. Behind(b, d, p)
    BY <1>3, <1>11 DEF Behind, do
  <2>2. IsPlaced(d, do) /\ Held(d, do) \subseteq HeldFrom(b, p)
    <3>1. do \in Calls
      BY <1>0, <1>3 DEF Sizes, do
    <3>2. IsPlaced(d, do) /\ Held(d, do) \subseteq Held(b, do) \cup HeldFrom(b, p)
      BY <1>3, <1>13, <3>1, CallStays
    <3>3. QED
      BY <1>12, <3>2
  <2>3. ASSUME NEW i \in p .. Len(d.stack) PROVE IsRenewed(b, d, p, i)
    <3>1. i = p
      BY <1>11
    <3>2. QED
      BY <1>4, <1>11, <2>2, <3>1 DEF IsRenewed, Forks, do
  <2>4. QED
    BY <1>9, <1>10, <1>13, <2>1, <2>3 DEF Follows
<1>15. ASSUME NEW i \in p .. Len(b.stack), NEW m \in Pending(b, i) PROVE m \in Live(d)
  <2>1. Pending(d, p) = Range(both)
    BY <1>4, <1>9, <1>10, <1>11 DEF Pending, Listed, u, do
  <2>2. Pending(b, p) = Range(b.lists[u])
    BY <1>4 DEF Pending, Listed, u, do
  <2>3. i = p \/ i = p + 1
    OBVIOUS
  <2>4. m \in Pending(d, p)
    BY <1>6, <2>1, <2>2, <2>3
  <2>5. QED
    BY <1>11, <2>4 DEF Live
<1>16. QED
  <2>1. Inv(d)
    BY <1>10, <1>14, <1>15, CallsStep
  <2>2. QED
    BY <2>1 DEF d, c

\* The tails of a branch join those of the branches before it.
LEMMA BranchDoneKeepsInv ==
  ASSUME NEW b, Inv(b), NEW p \in Nat \ {0}, Len(b.stack) = p + 1, b.stack[p].k \in Forks,
         NEW tails \in Seq(Nat), Pending(b, p + 1) = Range(tails),
         Range(tails) \subseteq Held(b, b.stack[p + 1])
  PROVE  Inv(BranchDone(Leave(b), tails))
<1> DEFINE c == Leave(b)
           fork == b.stack[p]
           others == Tail(fork.branches)
           joined == fork.joined \o tails
           next == [fork EXCEPT !.branches = others, !.joined = joined]
           label == Head(fork.branches).label
           before == fork.before
           cond == fork.cond
           e == Resume(c, next)
           d == Relabel(e, before, cond, label)
<1>0. TypeInv(b) /\ HeldInv(b) /\ b \in BuildStates /\ Sizes(b) /\ b.stack # <<>>
  BY HasSizes DEF Inv, TypeInv
<1>1. /\ c \in BuildStates /\ SameButStack(b, c) /\ Len(c.stack) = p
      /\ \A i \in 1 .. p : c.stack[i] = b.stack[i]
  BY <1>0, LeaveIs
<1>2. Active(c) = fork /\ c.stack # <<>>
  BY <1>1 DEF Active
<1>3. p \in DOMAIN b.stack /\ IsPlaced(b, fork) /\ IsStacked(b.stack, p)
  BY <1>0 DEF Sizes, TypeInv
<1>4. BranchDone(c, tails) = d
  BY <1>2 DEF BranchDone
<1>5. fork \in ForkCalls
  <2>1. fork \in Calls
    BY <1>0, <1>3 DEF Sizes
  <2>2. QED
    BY <2>1 DEF Calls, ForkCalls, BlockCalls, Forks, BranchesOf, BranchLabels
<1>6. fork.branches # <<>>
  BY <1>3 DEF IsStacked
<1> HIDE DEF c, fork
<1>7. others \in BranchesOf /\ label \in BranchLabels
  <2>1. fork.branches \in BranchesOf
    BY <1>5 DEF ForkCalls
  <2> DEFINE T == [label : BranchLabels, stmts : Bodies]
  <2> HIDE DEF T
  <2>2. fork.branches \in Seq(T)
    BY <2>1 DEF BranchesOf, T
  <2>3. Head(fork.branches) \in T /\ Tail(fork.branches) \in Seq(T)
    BY <1>6, <2>2
  <2>4. QED
    BY <2>3 DEF BranchesOf, T
<1>8. /\ cond \in Nat /\ before \in Nat /\ fork.joined \in Seq(Nat)
      /\ fork.k \in Forks /\ fork.k # "block" /\ fork.k # "do"
  BY <1>5 DEF ForkCalls, Forks
<1>9. joined \in Seq(Nat) /\ Range(joined) = Range(fork.joined) \cup Range(tails)
  <2> DEFINE s == fork.joined
  <2>1. s \in Seq(Nat)
    BY <1>8
  <2> HIDE DEF s
  <2>2. s \o tails \in Seq(Nat) /\ Range(s \o tails) = Range(s) \cup Range(tails)
    BY <2>1, RangeOfJoin
  <2>3. QED
    BY <2>2 DEF s
<1> HIDE DEF others, joined, label, before, cond
<1>10. next \in Calls /\ next.k = fork.k /\ next.cond = cond /\ next.joined = joined
  <2>1. fork \in ForkCalls /\ others \in BranchesOf /\ joined \in Seq(Nat)
    BY <1>5, <1>7, <1>9
  <2>2. next \in Calls /\ next.k = fork.k /\ next.cond = fork.cond /\ next.joined = joined
    BY <2>1, ForkShrinks
  <2>3. QED
    BY <2>2 DEF cond
<1> HIDE DEF next, e
<1>11. /\ e \in BuildStates /\ SameButStack(b, e) /\ Len(e.stack) = p /\ e.stack[p] = next
       /\ \A i \in 1 .. p - 1 : e.stack[i] = b.stack[i]
  <2>1. /\ e \in BuildStates /\ SameButStack(c, e) /\ Len(e.stack) = Len(c.stack)
        /\ e.stack[Len(c.stack)] = next
        /\ \A i \in 1 .. Len(c.stack) - 1 : e.stack[i] = c.stack[i]
    BY <1>1, <1>2, <1>10, ResumeIs DEF e
  <2>2. QED
    BY <1>1, <2>1 DEF SameButStack
<1>12. /\ d \in BuildStates /\ SameButEdges(e, d)
       /\ \A f \in Range(d.edges) : \E x \in Range(e.edges) : Twins(x, f)
       /\ \A x \in Range(e.edges) : \E f \in Range(d.edges) : Twins(x, f)
  BY <1>7, <1>8, <1>11, RelabelIs
<1> HIDE DEF d
<1>13. /\ Sizes(d) /\ d.nodes = b.nodes /\ d.lists = b.lists
       /\ Len(d.stack) = p /\ p \in DOMAIN d.stack /\ d.stack[p] = next
       /\ \A i \in 1 .. p - 1 : d.stack[i] = b.stack[i]
  BY <1>11, <1>12, HasSizes DEF SameButEdges, SameButStack, Sizes
<1>14. NewNodes(b, d) = {} /\ Len(b.nodes) + 1 .. Len(d.nodes) = {}
  BY <1>0, <1>13 DEF NewNodes, Sizes
<1>15. Extends(Len(b.nodes), Len(d.nodes), Conds(b), Range(b.edges), Range(d.edges))
  BY <1>11, <1>12, <1>14 DEF Extends, SameButStack
<1>16. Range(tails) \cup Held(b, fork) \subseteq HeldFrom(b, p)
  <2>1. p + 1 \in p .. Len(b.stack) /\ p \in p .. Len(b.stack)
    OBVIOUS
  <2>2. QED
    BY <2>1 DEF HeldFrom, fork
<1>17. Follows(b, d, p)
  <2>1. Behind(b, d, p)
    BY <1>3, <1>10, <1>13 DEF Behind, fork, cond
  <2>2. Grown(b, d, HeldFrom(b, p))
    <3>1. Len(b.nodes) <= Len(d.nodes) /\ \A m \in NodeIds(b) : d.nodes[m] = b.nodes[m]
      BY <1>0, <1>13 DEF Sizes
    <3>2. QED
      BY <1>13, <3>1 DEF Grown
  <2>3. IsPlaced(d, next)
    BY <1>3, <1>8, <1>10, <1>13 DEF IsPlaced, LoopNodes, NodeIds, cond
  <2>4. Held(d, next) \subseteq HeldFrom(b, p)
    BY <1>8, <1>9, <1>10, <1>16 DEF Held, cond
  <2>5. ASSUME NEW i \in p .. Len(d.stack) PROVE IsRenewed(b, d, p, i)
    <3>1. i = p
      BY <1>13
    <3>2. QED
      BY <1>8, <1>10, <1>13, <2>3, <2>4, <3>1 DEF IsRenewed
  <2>6. QED
    BY <1>13, <2>1, <2>2, <2>5 DEF Follows
<1>18. ASSUME NEW i \in p .. Len(b.stack), NEW m \in Pending(b, i)
       PROVE  Leads(Range(d.edges), Live(d), m)
  <2>1. Range(joined) \subseteq Pending(d, p)
    BY <1>8, <1>10, <1>13 DEF Pending
  <2>2. Pending(b, p) = Range(fork.joined)
    <3>1. fork = b.stack[p] /\ p # Len(b.stack)
      BY DEF fork
    <3>2. QED
      BY <1>8, <3>1 DEF Pending
  <2>3. i = p \/ i = p + 1
    OBVIOUS
  <2>4. m \in Pending(d, p)
    BY <1>9, <2>1, <2>2, <2>3
  <2>5. QED
    BY <1>13, <2>4 DEF Live, Leads
<1>19. QED
  <2>1. Inv(d)
    BY <1>12, <1>14, <1>15, <1>17, <1>18, Steps
  <2>2. QED
    BY <1>4, <2>1 DEF c

LEMMA BlockEndKeepsInv ==
  ASSUME NEW b, Inv(b), AtReturn(b)
  PROVE  Inv(EndBlock(b))
<1> DEFINE n == Len(b.stack)
           p == n - 1
           t == Active(b).tails
           c == Leave(b)
<1>0. TypeInv(b) /\ HeldInv(b) /\ In(b, {"block"})
  BY DEF Inv, AtReturn
<1>1. /\ Sizes(b) /\ b \in BuildStates /\ b.stack # <<>> /\ n \in DOMAIN b.stack
      /\ t \in DOMAIN b.lists /\ b.lists[t] \in Seq(Nat)
      /\ Pending(b, n) = Range(b.lists[t])
      /\ Held(b, b.stack[n]) = Range(b.lists[t])
  BY <1>0, BlockIs DEF Tails
<1>2. /\ c \in BuildStates /\ Len(c.stack) = p
      /\ \A i \in 1 .. p : c.stack[i] = b.stack[i]
  BY <1>1, LeaveIs
<1>3. CASE c.stack = <<>>
  BY <1>3, LastKeepsInv
<1> HIDE DEF c
<1>4. CASE c.stack # <<>>
  <2>1. p \in Nat \ {0} /\ n = p + 1 /\ Len(b.stack) = p + 1
    <3>1. Len(c.stack) \in Nat \ {0}
      <4>1. c.stack \in Seq(Calls)
        BY <1>2 DEF BuildStates
      <4> HIDE DEF c
      <4>2. QED
        BY <1>4, <4>1
    <3> HIDE DEF n, c
    <3>2. p \in Nat \ {0} /\ n = p + 1
      BY <1>1, <1>2, <3>1 DEF Sizes, n
    <3>3. QED
      BY <3>2 DEF n
  <2> HIDE DEF t, p
  <2>2. Active(c) = b.stack[p]
    BY <1>2, <2>1 DEF Active
  <2>3. b.stack[p] \in Calls
    BY <1>1, <2>1 DEF Sizes
  <2>4. CASE b.stack[p].k = "block"
    <3>1. Pending(b, p) = {}
      BY <2>1, <2>4 DEF Pending
    <3>2. EndBlock(b) = GiveBack(c, t)
      BY <1>4, <2>2, <2>4 DEF EndBlock, t, c
    <3>3. QED
      BY <1>1, <2>1, <2>4, <3>1, <3>2, TailsKeepInv DEF c
  <2>5. CASE b.stack[p].k = "do" /\ b.stack[p].tails = NoList
    <3>1. Pending(b, p) = {}
      BY <2>1, <2>5 DEF Pending, Listed
    <3>2. EndBlock(b) = GiveBack(c, t)
      BY <1>4, <2>2, <2>5 DEF EndBlock, t, c
    <3>3. QED
      BY <1>1, <2>1, <2>5, <3>1, <3>2, TailsKeepInv DEF c
  <2>6. CASE b.stack[p].k = "do" /\ b.stack[p].tails # NoList
    <3>1. EndBlock(b) = CatchDone(c, t)
      BY <1>4, <2>2, <2>6 DEF EndBlock, t, c
    <3>2. QED
      BY <1>1, <2>1, <2>6, <3>1, CatchDoneKeepsInv DEF c
  <2>7. CASE b.stack[p].k \notin {"block", "do"}
    <3>1. EndBlock(b) = BranchDone(c, b.lists[t])
      BY <1>4, <2>2, <2>7 DEF EndBlock, t, c
    <3>2. b.stack[p].k \in Forks
      BY <2>3, <2>7 DEF Calls, BlockCalls
    <3>3. QED
      BY <1>1, <2>1, <3>1, <3>2, BranchDoneKeepsInv DEF c
  <2>8. QED
    BY <2>4, <2>5, <2>6, <2>7
<1>5. QED
  BY <1>3, <1>4

----------------------------------------------------------------------------
(* The invariant holds.                                                    *)

LEMMA StartIs ==
  ASSUME NEW body \in Bodies
  PROVE  LET b == Start(body)
             call == Block(body, 1)
         IN  /\ b \in BuildStates /\ Sizes(b)
             /\ Len(b.nodes) = 2 /\ b.nodes[ExitId].kind = "exit"
             /\ b.edges = <<>> /\ DOMAIN b.lists = {1} /\ Range(b.lists[1]) = {EntryId}
             /\ Len(b.stack) = 1 /\ DOMAIN b.stack = {1} /\ b.stack[1] = call
             /\ call.k = "block" /\ call.tails = 1
<1> DEFINE b == Start(body)
           entry == Plain("entry", "entry")
           exit == Plain("exit", "exit")
           call == Block(body, 1)
<1>1. entry \in GraphNodes /\ exit \in GraphNodes /\ exit.kind = "exit"
  BY PlainIsNode DEF Kinds, NodeLabels
<1>2. call \in Calls /\ call.k = "block" /\ call.tails = 1
  BY BlockIsCall
<1>3. b = [nodes |-> <<entry, exit>>, edges |-> <<>>, lists |-> <<<<EntryId>>>>,
           stack |-> <<call>>]
  BY DEF Start
<1> HIDE DEF entry, exit, call, b
<1> DEFINE nodes == <<entry, exit>>
           edges == <<>>
           first == <<EntryId>>
           lists == <<first>>
           stack == <<call>>
<1>4. nodes \in Seq(GraphNodes) /\ Len(nodes) = 2 /\ nodes[2] = exit
  BY <1>1
<1>5. edges \in Seq([src : Nat, dst : Nat, label : EdgeLabels])
  OBVIOUS
<1>6. first \in Seq(Nat) /\ Range(first) = {EntryId}
  BY OneIs DEF EntryId
<1> HIDE DEF first
<1>7. lists \in Seq(Seq(Nat)) /\ DOMAIN lists = {1} /\ lists[1] = first
  BY <1>6
<1>8. stack \in Seq(Calls) /\ Len(stack) = 1 /\ DOMAIN stack = {1} /\ stack[1] = call
  BY <1>2
<1>9. b = [nodes |-> nodes, edges |-> edges, lists |-> lists, stack |-> stack]
  BY <1>3 DEF first
<1> HIDE DEF nodes, edges, lists, stack
<1>10. /\ b \in BuildStates /\ b.nodes = nodes /\ b.edges = edges /\ b.lists = lists
       /\ b.stack = stack
  BY <1>4, <1>5, <1>7, <1>8, <1>9 DEF BuildStates
<1>11. Sizes(b)
  BY <1>10, HasSizes
<1>12. QED
  BY <1>1, <1>2, <1>4, <1>6, <1>7, <1>8, <1>10, <1>11 DEF b, call, edges, ExitId

LEMMA StartHasInv ==
  ASSUME NEW body \in Bodies
  PROVE  Inv(Start(body))
<1> DEFINE b == Start(body)
           call == Block(body, 1)
           none == <<>>
<1>1. /\ b \in BuildStates /\ Sizes(b)
      /\ Len(b.nodes) = 2 /\ b.nodes[ExitId].kind = "exit"
      /\ b.edges = none /\ DOMAIN b.lists = {1} /\ Range(b.lists[1]) = {EntryId}
      /\ Len(b.stack) = 1 /\ DOMAIN b.stack = {1} /\ b.stack[1] = call
      /\ call.k = "block" /\ call.tails = 1
  BY StartIs
<1>2. Range(none) = {}
  BY DEF Range
<1> HIDE DEF b, call, none
<1>3. NodeIds(b) = {1, 2} /\ Range(b.edges) = {}
  BY <1>1, <1>2 DEF NodeIds
<1>4. ForksOf(b) = {} /\ Conds(b) = {}
  <2>1. ForksOf(b) = {}
    BY <1>1 DEF ForksOf, Forks
  <2>2. QED
    BY <2>1 DEF Conds
<1>5. TypeInv(b)
  <2>1. \A i \in DOMAIN b.stack : IsPlaced(b, b.stack[i]) /\ IsStacked(b.stack, i)
    BY <1>1 DEF IsPlaced, IsStacked, Forks
  <2>2. \A t \in DOMAIN b.lists : Range(b.lists[t]) \subseteq NodeIds(b) \ {ExitId}
    BY <1>1, <1>3 DEF EntryId, ExitId
  <2>3. QED
    BY <1>1, <1>3, <2>1, <2>2 DEF TypeInv, ExitId
<1>6. GraphInv(Len(b.nodes), LoopNodes(b), Range(b.edges), Conds(b))
  BY <1>1, <1>3, <1>4 DEF GraphInv
<1>7. HeldInv(b)
  BY <1>4 DEF HeldInv
<1>8. NoTrap(b)
  <2>1. EntryId \in Live(b)
    BY <1>1 DEF Live, Pending, Listed, NoList
  <2>2. QED
    BY <1>3, <2>1 DEF NoTrap, Leads, EntryId, ExitId
<1>9. QED
  BY <1>5, <1>6, <1>7, <1>8 DEF Inv, b

\* What a step of a method is.
LEMMA StepKeepsInv ==
  ASSUME symbol \in Symbols, Inv(state), [Next]_vars
  PROVE  symbol' \in Symbols /\ Inv(state')
<1>1. CASE NextStatement
  BY <1>1, StatementKeepsInv DEF NextStatement, Move
<1>2. CASE NextBranch
  BY <1>2, BranchKeepsInv DEF NextBranch, Move
<1>3. CASE ForkEnds
  BY <1>3, ForkEndKeepsInv DEF ForkEnds, Move
<1>4. CASE NextCatch
  BY <1>4, CatchKeepsInv DEF NextCatch, Move
<1>5. CASE DoEnds
  BY <1>5, DoEndKeepsInv DEF DoEnds, Move
<1>6. CASE BlockEnds
  BY <1>6, BlockEndKeepsInv DEF BlockEnds, Move
<1>7. CASE UNCHANGED vars
  BY <1>7 DEF vars
<1>8. QED
  BY <1>1, <1>2, <1>3, <1>4, <1>5, <1>6, <1>7 DEF Next

\* Between two calls of its methods, the graph under construction is well formed: every
\* node was added behind one that was there; the loops that are closed cannot be entered
\* behind their conditions, and nothing that is still to come changes that; nothing is
\* drawn from before the condition whose branches are at work; and every node has a way to
\* the exit, or to one the active calls will draw an edge from.
THEOREM BuilderInvariant == Spec => [](symbol \in Symbols /\ Inv(state))
<1>1. Init => symbol \in Symbols /\ Inv(state)
  BY StartHasInv, BuilderAssumption DEF Init
<1>2. symbol \in Symbols /\ Inv(state) /\ [Next]_vars =>
        (symbol \in Symbols /\ Inv(state))'
  BY StepKeepsInv
<1>3. QED
  BY <1>1, <1>2, PTL DEF Spec

\* Between two calls of its methods a _BuildState is of its type: the nodes, lists and
\* branches that its active calls hold are there, and only blocks call other methods.
THEOREM TypeCorrect == Spec => []TypeInv(state)
<1>1. Inv(state) => TypeInv(state)
  BY DEF Inv
<1>2. QED
  BY <1>1, BuilderInvariant, PTL

----------------------------------------------------------------------------
(* The graph is sound.                                                     *)

\* The ends of the edges of E that leave n.
Out(E, n) == {[dst |-> x.dst, label |-> x.label] : x \in {y \in E : y.src = n}}

LEMMA SeqIsList ==
  ASSUME NEW T, NEW s \in Seq(T)
  PROVE  IsList(s)
<1>1. Len(s) \in Nat /\ s = [i \in 1 .. Len(s) |-> s[i]]
  OBVIOUS
<1> DEFINE N == Len(s)
<1>2. N \in Nat /\ s = [i \in 1 .. N |-> s[i]]
  BY <1>1
<1> HIDE DEF N
<1>3. QED
  BY <1>2, ListIntro

LEMMA LeavingIs ==
  ASSUME NEW edges, IsList(edges), NEW n
  PROVE  /\ Leaving(edges, n) \in Seq(Out(Range(edges), n))
         /\ Range(Leaving(edges, n)) = Out(Range(edges), n)
<1> DEFINE I == {i \in DOMAIN edges : edges[i].src = n}
           own == Kept(edges, I)
           all == Leaving(edges, n)
           End(x) == [dst |-> x.dst, label |-> x.label]
<1>1. /\ IsList(own)
      /\ \A j \in DOMAIN own : \E i \in I : own[j] = edges[i]
      /\ \A i \in I : \E j \in DOMAIN own : own[j] = edges[i]
  <2>1. I \in SUBSET DOMAIN edges
    OBVIOUS
  <2> HIDE DEF I
  <2>2. QED
    BY <2>1, KeptKeeps
<1>2. all = [j \in DOMAIN own |-> End(own[j])]
  BY DEF Leaving
<1>3. Out(Range(edges), n) = {End(edges[i]) : i \in I}
  BY DEF Out, Range
<1>4. Len(own) \in Nat /\ DOMAIN own = 1 .. Len(own)
  BY <1>1 DEF IsList
<1> HIDE DEF own, all, End
<1>5. \A j \in DOMAIN all : j \in DOMAIN own /\ all[j] = End(own[j])
  BY <1>2
<1>6. \A j \in DOMAIN all : all[j] \in {End(edges[i]) : i \in I}
  BY <1>1, <1>5
<1>7. \A i \in I : \E j \in DOMAIN all : all[j] = End(edges[i])
  BY <1>1, <1>2
<1>8. Range(all) = {End(edges[i]) : i \in I}
  <2>1. Range(all) = {all[j] : j \in DOMAIN all}
    BY DEF Range
  <2>2. QED
    BY <1>6, <1>7, <2>1
<1>9. all \in Seq({End(edges[i]) : i \in I})
  <2> DEFINE T == {End(edges[i]) : i \in I}
  <2>1. all \in [1 .. Len(own) -> T]
    BY <1>2, <1>4, <1>6
  <2> HIDE DEF T
  <2>2. all \in Seq(T)
    BY <1>4, <2>1
  <2>3. QED
    BY <2>2 DEF T
<1>10. QED
  BY <1>3, <1>8, <1>9 DEF all

\* What the edges of the graph of b are.
LEMMA GraphIs ==
  ASSUME NEW f, NEW b, TypeInv(b)
  PROVE  LET g == GraphOf(f, b)
         IN  /\ DOMAIN g.nodes = NodeIds(b) /\ Len(g.nodes) \in Nat /\ Len(g.nodes) >= ExitId
             /\ g.nodes = b.nodes /\ g.entry = EntryId /\ g.params = f.params
             /\ g.out = [n \in DOMAIN g.nodes |-> g.out[n]]
             /\ \A n \in NodeIds(b) :
                  /\ g.out[n] \in Seq(Out(Range(b.edges), n))
                  /\ Range(g.out[n]) = Out(Range(b.edges), n)
             /\ \A e \in Range(b.edges) :
                  /\ e.src \in NodeIds(b) \ {ExitId} /\ e.dst \in NodeIds(b)
                  /\ e.label \in EdgeLabels
<1> DEFINE g == GraphOf(f, b)
           edges == b.edges
           T == [src : Nat, dst : Nat, label : EdgeLabels]
<1>1. /\ g.nodes = b.nodes /\ g.entry = EntryId /\ g.params = f.params
      /\ g.out = [n \in DOMAIN b.nodes |-> Leaving(edges, n)]
  BY DEF GraphOf
<1>2. b.nodes \in Seq(GraphNodes) /\ edges \in Seq(T) /\ Len(b.nodes) >= ExitId
  BY DEF TypeInv, BuildStates
<1> HIDE DEF g
<1>3. DOMAIN b.nodes = NodeIds(b) /\ Len(b.nodes) \in Nat
  BY <1>2 DEF NodeIds
<1>4. IsList(edges)
  BY <1>2, SeqIsList
<1>5. \A n \in NodeIds(b) : g.out[n] = Leaving(edges, n)
  BY <1>1, <1>3
<1>6. \A n \in NodeIds(b) :
        /\ g.out[n] \in Seq(Out(Range(edges), n))
        /\ Range(g.out[n]) = Out(Range(edges), n)
  BY <1>4, <1>5, LeavingIs
<1>7. ASSUME NEW e \in Range(edges)
      PROVE  /\ e.src \in NodeIds(b) \ {ExitId} /\ e.dst \in NodeIds(b)
             /\ e.label \in EdgeLabels
  <2>1. e.src \in NodeIds(b) \ {ExitId} /\ e.dst \in NodeIds(b)
    BY DEF TypeInv
  <2>2. PICK i \in DOMAIN edges : e = edges[i]
    BY DEF Range
  <2> HIDE DEF edges, T
  <2>3. edges[i] \in T
    BY <1>2, <2>2
  <2>4. QED
    BY <2>1, <2>2, <2>3 DEF T
<1>8. g.out = [n \in DOMAIN g.nodes |-> g.out[n]]
  BY <1>1
<1>9. QED
  BY <1>1, <1>2, <1>3, <1>6, <1>7, <1>8 DEF g

LEMMA BuiltIsGraph ==
  ASSUME NEW f \in Symbols, NEW b, Inv(b)
  PROVE  IsGraph(GraphOf(f, b))
<1> DEFINE g == GraphOf(f, b)
           E == Range(b.edges)
           T == [dst : DOMAIN g.nodes, label : EdgeLabels]
<1>1. TypeInv(b)
  BY DEF Inv
<1>2. /\ DOMAIN g.nodes = NodeIds(b) /\ Len(g.nodes) \in Nat /\ Len(g.nodes) >= ExitId
      /\ g.nodes = b.nodes /\ g.entry = EntryId /\ g.params = f.params
      /\ g.out = [n \in DOMAIN g.nodes |-> g.out[n]]
      /\ \A n \in NodeIds(b) : g.out[n] \in Seq(Out(E, n))
      /\ \A e \in E : e.src \in NodeIds(b) \ {ExitId} /\ e.dst \in NodeIds(b)
                      /\ e.label \in EdgeLabels
  BY <1>1, GraphIs
<1>3. g.nodes \in Seq(GraphNodes)
  BY <1>1, <1>2 DEF TypeInv, BuildStates
<1> HIDE DEF g, E
<1>4. ASSUME NEW n \in DOMAIN g.nodes PROVE g.out[n] \in Seq(T)
  <2>1. Out(E, n) \subseteq T
    BY <1>2 DEF Out
  <2>2. g.out[n] \in Seq(Out(E, n))
    BY <1>2
  <2> HIDE DEF T
  <2>3. QED
    BY <2>1, <2>2
<1> HIDE DEF T
<1>5. g.out \in [DOMAIN g.nodes -> Seq(T)]
  BY <1>2, <1>4
<1>6. g.entry \in DOMAIN g.nodes
  BY <1>2 DEF NodeIds, EntryId, ExitId
<1>7. \A p \in g.params : p.name \in Names /\ p.optional \in BOOLEAN
  <2>1. g.params \in SUBSET Parameters
    BY <1>2, BuilderAssumption
  <2>2. QED
    BY <2>1 DEF Parameters
<1>8. QED
  BY <1>3, <1>5, <1>6, <1>7 DEF IsGraph, g, T

LEMMA BuiltIsLaidOut ==
  ASSUME NEW f, NEW b, Inv(b)
  PROVE  IsLaidOut(GraphOf(f, b))
<1> DEFINE g == GraphOf(f, b)
           E == Range(b.edges)
           N == Len(b.nodes)
<1>1. TypeInv(b) /\ GraphInv(N, LoopNodes(b), E, Conds(b))
  BY DEF Inv
<1>2. /\ DOMAIN g.nodes = NodeIds(b) /\ Len(g.nodes) \in Nat
      /\ g.nodes = b.nodes /\ g.entry = EntryId
      /\ \A n \in NodeIds(b) : Range(g.out[n]) = Out(E, n)
      /\ \A e \in E : e.src \in NodeIds(b) /\ e.dst \in NodeIds(b)
  <2>1. TypeInv(b)
    BY <1>1
  <2>2. \A n \in NodeIds(b) : g.out[n] \in Seq(Out(E, n)) /\ Range(g.out[n]) = Out(E, n)
    BY <2>1, GraphIs
  <2>3. DOMAIN g.nodes = NodeIds(b) /\ Len(g.nodes) \in Nat
        /\ g.nodes = b.nodes /\ g.entry = EntryId
        /\ \A e \in E : e.src \in NodeIds(b) \ {ExitId} /\ e.dst \in NodeIds(b)
    BY <2>1, GraphIs
  <2> HIDE DEF g, E
  <2>4. QED
    BY <2>2, <2>3
<1>3. g.nodes[ExitId].kind = "exit"
  BY <1>1, <1>2 DEF TypeInv
<1> HIDE DEF g, E
<1>4. ASSUME NEW n \in DOMAIN g.nodes, NEW e \in Range(g.out[n]), e.label = "back"
      PROVE  /\ e.dst \in g.entry .. n
             /\ \A m \in DOMAIN g.nodes : \A d \in Range(g.out[m]) :
                  d.dst \in e.dst + 1 .. n => m >= e.dst
  <2>1. PICK x \in E : x.src = n /\ x.dst = e.dst /\ x.label = "back"
    BY <1>2, <1>4 DEF Out
  <2>2. /\ 3 <= x.dst /\ x.dst <= x.src
        /\ \E z \in x.src .. N : Closed(E, x.dst, z)
    BY <1>1, <2>1 DEF GraphInv
  <2>3. PICK z \in n .. N : Closed(E, e.dst, z)
    BY <2>1, <2>2
  <2>4. n \in Nat /\ e.dst \in Nat /\ N \in Nat /\ 3 <= e.dst /\ e.dst <= n
    BY <1>2, <2>1, <2>2 DEF NodeIds
  <2>5. ASSUME NEW m \in DOMAIN g.nodes, NEW d \in Range(g.out[m]), d.dst \in e.dst + 1 .. n
        PROVE  m >= e.dst
    <3>1. PICK y \in E : y.src = m /\ y.dst = d.dst
      BY <1>2 DEF Out
    <3>2. d.dst \in e.dst + 1 .. z
      BY <2>3, <2>4, <2>5
    <3>3. m \in e.dst .. z
      BY <2>3, <3>1, <3>2 DEF Closed
    <3>4. QED
      BY <3>3
  <2>6. QED
    BY <1>2, <2>4, <2>5 DEF EntryId
<1>5. ASSUME NEW n \in DOMAIN g.nodes, NEW e \in Range(g.out[n]), e.label # "back"
      PROVE  e.dst > n \/ g.nodes[e.dst].kind = "exit"
  <2>1. PICK x \in E : x.src = n /\ x.dst = e.dst /\ x.label # "back"
    BY <1>2, <1>5 DEF Out
  <2>2. x.dst > x.src \/ x.dst = ExitId
    BY <1>1, <2>1 DEF GraphInv
  <2>3. QED
    BY <1>3, <2>1, <2>2
<1>6. QED
  BY <1>4, <1>5 DEF IsLaidOut, g

\* What CFGBuilder hands to PathExplorer is a graph it can walk: the ids and edges are in
\* range, every edge but the back edges leads onwards or to the exit, and no edge leads
\* into a loop behind its condition.
THEOREM GraphSound == Spec => []GraphIsSound
<1>1. symbol \in Symbols /\ Inv(state) => GraphIsSound
  BY BuiltIsGraph, BuiltIsLaidOut DEF GraphIsSound, graph
<1>2. QED
  BY <1>1, BuilderInvariant, PTL

----------------------------------------------------------------------------
(* What walks get to.                                                      *)

\* What holds of 0 and passes on to the next number holds up to N.
LEMMA UpToNumber ==
  ASSUME NEW N \in Nat, NEW T, 0 \in T, \A k \in 0 .. N - 1 : k \in T => k + 1 \in T
  PROVE  0 .. N \subseteq T
<1> DEFINE out == (0 .. N) \ T
<1> SUFFICES ASSUME out # {} PROVE FALSE
  OBVIOUS
<1>1. IsFiniteSet(0 .. N) /\ 0 .. N \subseteq Int
  BY FS_Interval
<1>2. IsFiniteSet(out) /\ out \subseteq Int
  BY <1>1, FS_Subset
<1>3. PICK m \in out : \A x \in out : m <= x
  <2> HIDE DEF out
  <2>1. QED
    BY <1>2, LeastExists
<1>4. m \in 0 .. N /\ m # 0 /\ m - 1 \notin out
  BY <1>3
<1>5. QED
  BY <1>3, <1>4

\* One round more from T.
Round(g, T, W) == T \cup (Succs(g, T) \cap W)

\* f gives what the first n rounds get to.
Rounds(g, S, W, n, f) == f = [k \in 0 .. n |-> IF k = 0 THEN S ELSE Round(g, f[k - 1], W)]

LEMMA RoundsExist ==
  ASSUME NEW g, NEW S, NEW W, NEW N \in Nat
  PROVE  \E f : Rounds(g, S, W, N, f)
<1> DEFINE T == {n \in 0 .. N : \E f : Rounds(g, S, W, n, f)}
<1>1. 0 \in T
  <2> DEFINE f == [k \in 0 .. 0 |-> S]
  <2>1. Rounds(g, S, W, 0, f)
    BY DEF Rounds
  <2>2. QED
    BY <2>1
<1>2. ASSUME NEW n \in 0 .. N - 1, n \in T PROVE n + 1 \in T
  <2>1. PICK f : Rounds(g, S, W, n, f)
    BY <1>2
  <2> DEFINE V(h, k) == IF k = 0 THEN S ELSE Round(g, h[k - 1], W)
             h == [k \in 0 .. n + 1 |-> IF k = n + 1 THEN V(f, k) ELSE f[k]]
  <2>2. f = [k \in 0 .. n |-> V(f, k)]
    BY <2>1 DEF Rounds
  <2>3. ASSUME NEW k \in 0 .. n PROVE h[k] = f[k]
    OBVIOUS
  <2>4. ASSUME NEW k \in 0 .. n + 1 PROVE h[k] = V(h, k)
    <3>1. k = 0 \/ (k - 1 \in 0 .. n /\ h[k - 1] = f[k - 1])
      BY <2>3
    <3>2. V(h, k) = V(f, k)
      BY <3>1
    <3>3. k = n + 1 \/ (k \in 0 .. n /\ f[k] = V(f, k))
      <4>1. k = n + 1 \/ k \in 0 .. n
        OBVIOUS
      <4>2. QED
        BY <2>2, <4>1
    <3>4. QED
      BY <3>2, <3>3
  <2>5. h = [k \in 0 .. n + 1 |-> V(h, k)]
    <3>1. h = [k \in 0 .. n + 1 |-> h[k]]
      OBVIOUS
    <3> HIDE DEF h
    <3>2. QED
      BY <2>4, <3>1
  <2>6. Rounds(g, S, W, n + 1, h)
    BY <2>5 DEF Rounds
  <2>7. QED
    BY <2>6
<1> HIDE DEF T
<1>3. 0 .. N \subseteq T
  BY <1>1, <1>2, UpToNumber
<1>4. QED
  BY <1>3 DEF T

LEMMA ReachedIsLast ==
  ASSUME NEW g, NEW S, NEW W, Len(g.nodes) \in Nat
  PROVE  \E f : Rounds(g, S, W, Len(g.nodes), f) /\ Reached(g, S, W) = f[Len(g.nodes)]
<1> DEFINE N == Len(g.nodes)
           F == CHOOSE f : f = [k \in 0 .. N |-> IF k = 0 THEN S
                                                 ELSE Round(g, f[k - 1], W)]
<1>1. Reached(g, S, W) = F[N]
  BY DEF Reached, Round
<1>2. \E f : f = [k \in 0 .. N |-> IF k = 0 THEN S ELSE Round(g, f[k - 1], W)]
  <2>1. \E f : Rounds(g, S, W, N, f)
    BY RoundsExist
  <2>2. QED
    BY <2>1 DEF Rounds
<1>3. F = [k \in 0 .. N |-> IF k = 0 THEN S ELSE Round(g, F[k - 1], W)]
  BY <1>2
<1> HIDE DEF F
<1>4. Rounds(g, S, W, N, F)
  BY <1>3 DEF Rounds
<1>5. QED
  BY <1>1, <1>4

\* As many rounds as there are nodes get to everything: what each round but the last adds
\* is a node.
LEMMA ReachedIsClosed ==
  ASSUME NEW g, Len(g.nodes) \in Nat, NEW W \in SUBSET (1 .. Len(g.nodes)),
         NEW S \in SUBSET (1 .. Len(g.nodes)), S # {}
  PROVE  /\ S \subseteq Reached(g, S, W) /\ Reached(g, S, W) \subseteq 1 .. Len(g.nodes)
         /\ Succs(g, Reached(g, S, W)) \cap W \subseteq Reached(g, S, W)
<1> DEFINE N == Len(g.nodes)
           Full(X) == Succs(g, X) \cap W \subseteq X
<1>1. PICK f : Rounds(g, S, W, N, f) /\ Reached(g, S, W) = f[N]
  BY ReachedIsLast
<1>2. \A k \in 0 .. N : f[k] = IF k = 0 THEN S ELSE Round(g, f[k - 1], W)
  BY <1>1 DEF Rounds
<1> DEFINE T == {k \in 0 .. N : /\ S \subseteq f[k] /\ f[k] \subseteq 1 .. N
                                /\ Full(f[k]) \/ Cardinality(f[k]) > k}
<1>3. IsFiniteSet(1 .. N) /\ Cardinality(1 .. N) = N
  BY FS_Interval
<1>4. 0 \in T
  <2>1. f[0] = S
    BY <1>2
  <2>2. IsFiniteSet(S) /\ Cardinality(S) \in Nat /\ Cardinality(S) # 0
    BY <1>3, FS_Subset, FS_CardinalityType, FS_EmptySet
  <2>3. S \subseteq f[0] /\ f[0] \subseteq 1 .. N /\ Cardinality(f[0]) > 0
    BY <2>1, <2>2
  <2>4. 0 \in 0 .. N
    OBVIOUS
  <2> HIDE DEF N, Full
  <2>5. QED
    BY <2>3, <2>4
<1>5. ASSUME NEW k \in 0 .. N - 1, k \in T PROVE k + 1 \in T
  <2> DEFINE A == f[k]
             B == f[k + 1]
  <2>1. B = A \cup (Succs(g, A) \cap W)
    <3>1. k + 1 \in 0 .. N /\ k + 1 # 0 /\ (k + 1) - 1 = k
      OBVIOUS
    <3>2. f[k + 1] = Round(g, f[k], W)
      BY <1>2, <3>1
    <3>3. QED
      BY <3>2 DEF Round
  <2>2. S \subseteq A /\ A \subseteq 1 .. N /\ (Full(A) \/ Cardinality(A) > k)
    BY <1>5
  <2>3. S \subseteq B /\ B \subseteq 1 .. N /\ A \subseteq B
    BY <2>1, <2>2
  <2>4. Full(B) \/ Cardinality(B) > k + 1
    <3>1. CASE Full(A)
      <4>1. B = A
        BY <2>1, <3>1
      <4>2. QED
        BY <3>1, <4>1
    <3>2. CASE ~Full(A)
      <4>1. A # B
        BY <2>1, <3>2
      <4>2. IsFiniteSet(B)
        BY <1>3, <2>3, FS_Subset
      <4> HIDE DEF A, B
      <4>3. /\ IsFiniteSet(A) /\ Cardinality(A) <= Cardinality(B)
            /\ Cardinality(A) # Cardinality(B)
        BY <2>3, <4>1, <4>2, FS_Subset
      <4>4. Cardinality(A) \in Nat /\ Cardinality(B) \in Nat
        BY <4>2, <4>3, FS_CardinalityType
      <4>5. Cardinality(A) > k
        BY <2>2, <3>2
      <4>6. QED
        BY <4>3, <4>4, <4>5
    <3>3. QED
      BY <3>1, <3>2
  <2>5. k + 1 \in 0 .. N
    OBVIOUS
  <2>6. QED
    BY <2>3, <2>4, <2>5
<1> HIDE DEF T
<1>6. N \in T
  <2>1. 0 .. N \subseteq T
    BY <1>4, <1>5, UpToNumber
  <2>2. QED
    BY <2>1
<1>7. S \subseteq f[N] /\ f[N] \subseteq 1 .. N /\ (Full(f[N]) \/ Cardinality(f[N]) > N)
  BY <1>6 DEF T
<1>8. Cardinality(f[N]) <= N /\ Cardinality(f[N]) \in Nat
  BY <1>3, <1>7, FS_Subset, FS_CardinalityType
<1>9. Full(f[N])
  BY <1>7, <1>8
<1>10. QED
  BY <1>1, <1>7, <1>9

\* They get to nothing else: not out of a set that cannot be left.
LEMMA ReachedIsWithin ==
  ASSUME NEW g, Len(g.nodes) \in Nat, NEW W, NEW S, NEW P, S \subseteq P,
         Succs(g, P) \cap W \subseteq P
  PROVE  Reached(g, S, W) \subseteq P
<1> DEFINE N == Len(g.nodes)
<1>1. PICK f : Rounds(g, S, W, N, f) /\ Reached(g, S, W) = f[N]
  BY ReachedIsLast
<1>2. \A k \in 0 .. N : f[k] = IF k = 0 THEN S ELSE Round(g, f[k - 1], W)
  BY <1>1 DEF Rounds
<1> DEFINE T == {k \in 0 .. N : f[k] \subseteq P}
<1>3. 0 \in T
  BY <1>2
<1>4. ASSUME NEW k \in 0 .. N - 1, k \in T PROVE k + 1 \in T
  <2>1. k + 1 \in 0 .. N /\ k + 1 # 0 /\ (k + 1) - 1 = k
    OBVIOUS
  <2>2. f[k + 1] = f[k] \cup (Succs(g, f[k]) \cap W)
    BY <1>2, <2>1 DEF Round
  <2>3. Succs(g, f[k]) \subseteq Succs(g, P)
    BY <1>4 DEF Succs
  <2>4. QED
    BY <1>4, <2>1, <2>2, <2>3
<1> HIDE DEF T
<1>5. 0 .. N \subseteq T
  BY <1>3, <1>4, UpToNumber
<1>6. QED
  BY <1>1, <1>5 DEF T

\* Along the edges of b.
LEMMA SuccsAre ==
  ASSUME NEW f, NEW b, TypeInv(b), NEW X \in SUBSET NodeIds(b)
  PROVE  Succs(GraphOf(f, b), X) = {e.dst : e \in {y \in Range(b.edges) : y.src \in X}}
<1> DEFINE g == GraphOf(f, b)
           E == Range(b.edges)
<1>1. \A n \in NodeIds(b) : g.out[n] \in Seq(Out(E, n)) /\ Range(g.out[n]) = Out(E, n)
  BY GraphIs
<1> HIDE DEF g, E
<1>2. \A n \in X : {e.dst : e \in Range(g.out[n])} = {e.dst : e \in {y \in E : y.src = n}}
  <2> SUFFICES ASSUME NEW n \in X
               PROVE  {e.dst : e \in Range(g.out[n])} = {e.dst : e \in {y \in E : y.src = n}}
    OBVIOUS
  <2>1. Range(g.out[n]) = Out(E, n)
    <3>1. n \in NodeIds(b)
      OBVIOUS
    <3>2. QED
      BY <1>1, <3>1
  <2>2. {e.dst : e \in Out(E, n)} = {e.dst : e \in {y \in E : y.src = n}}
    <3>1. \A e \in Out(E, n) : \E y \in E : y.src = n /\ y.dst = e.dst
      BY DEF Out
    <3>2. ASSUME NEW y \in E, y.src = n PROVE \E e \in Out(E, n) : e.dst = y.dst
      <4> DEFINE e == [dst |-> y.dst, label |-> y.label]
      <4>1. e \in Out(E, n) /\ e.dst = y.dst
        BY <3>2 DEF Out
      <4>2. QED
        BY <4>1
    <3>3. QED
      BY <3>1, <3>2
  <2>3. QED
    BY <2>1, <2>2
<1>3. Succs(g, X) = UNION {{e.dst : e \in {y \in E : y.src = n}} : n \in X}
  BY <1>2 DEF Succs
<1>4. QED
  BY <1>3 DEF g, E

LEMMA ReachableIs ==
  ASSUME NEW f, NEW b, TypeInv(b), NEW n \in NodeIds(b)
  PROVE  LET X == Reachable(GraphOf(f, b), n)
         IN  n \in X /\ X \subseteq NodeIds(b) /\ Closing(Range(b.edges), X)
<1> DEFINE g == GraphOf(f, b)
           S == {n}
           W == DOMAIN g.nodes
           X == Reached(g, S, W)
<1>1. /\ DOMAIN g.nodes = NodeIds(b) /\ Len(g.nodes) \in Nat /\ g.nodes = b.nodes
      /\ \A e \in Range(b.edges) : e.src \in NodeIds(b) \ {ExitId} /\ e.dst \in NodeIds(b)
  BY GraphIs
<1>2. NodeIds(b) = 1 .. Len(g.nodes)
  BY <1>1 DEF NodeIds
<1>3. X = Reachable(g, n)
  BY DEF Reachable
<1> HIDE DEF g
<1>4. S # {} /\ S \in SUBSET (1 .. Len(g.nodes)) /\ W \in SUBSET (1 .. Len(g.nodes))
  BY <1>1, <1>2
<1> HIDE DEF S, W
<1>5. S \subseteq X /\ X \subseteq 1 .. Len(g.nodes) /\ Succs(g, X) \cap W \subseteq X
  BY <1>1, <1>4, ReachedIsClosed
<1> HIDE DEF X
<1>6. Succs(g, X) = {e.dst : e \in {y \in Range(b.edges) : y.src \in X}}
  <2>1. X \in SUBSET NodeIds(b)
    BY <1>2, <1>5
  <2>2. QED
    BY <2>1, SuccsAre DEF g
<1>7. Closing(Range(b.edges), X)
  BY <1>1, <1>5, <1>6 DEF Closing, W
<1>8. QED
  BY <1>2, <1>3, <1>5, <1>7 DEF S, g

\* A node that the entry leads to was added behind one it leads to.
LEMMA EntryLeadsToAll ==
  ASSUME NEW f, NEW b, Inv(b), NEW n \in NodeIds(b) \ {ExitId}
  PROVE  n \in Reachable(GraphOf(f, b), EntryId)
<1> DEFINE X == Reachable(GraphOf(f, b), EntryId)
           E == Range(b.edges)
           N == Len(b.nodes)
           out == (NodeIds(b) \ {ExitId}) \ X
<1>1. TypeInv(b) /\ GraphInv(N, LoopNodes(b), E, Conds(b))
  BY DEF Inv
<1>2. /\ NodeIds(b) = 1 .. N /\ N \in Nat /\ N >= ExitId
      /\ \A e \in E : e.src \in NodeIds(b) \ {ExitId} /\ e.dst \in NodeIds(b)
  BY <1>1 DEF TypeInv, NodeIds, BuildStates
<1>3. EntryId \in X /\ Closing(E, X)
  <2>1. EntryId \in NodeIds(b)
    BY <1>2 DEF EntryId, ExitId
  <2>2. QED
    BY <1>1, <2>1, ReachableIs
<1> HIDE DEF X, E
<1> SUFFICES ASSUME out # {} PROVE FALSE
  BY DEF X
<1>4. IsFiniteSet(out) /\ out \subseteq Int
  <2>1. IsFiniteSet(1 .. N) /\ 1 .. N \subseteq Int
    BY <1>2, FS_Interval
  <2>2. QED
    BY <1>2, <2>1, FS_Subset
<1>5. PICK m \in out : \A x \in out : m <= x
  <2> HIDE DEF out
  <2>1. QED
    BY <1>4, LeastExists
<1>6. m \in 3 .. N
  BY <1>2, <1>3 DEF EntryId, ExitId
<1>7. PICK e \in E : e.dst = m /\ e.src < m
  BY <1>1, <1>6 DEF GraphInv
<1>8. e.src \in NodeIds(b) \ {ExitId} /\ e.src \notin out
  BY <1>2, <1>5, <1>7
<1>9. QED
  BY <1>3, <1>7, <1>8 DEF Closing

\* Once no call is active, all lead to the exit.
LEMMA AllLeadToExit ==
  ASSUME NEW f, NEW b, Inv(b), Built(b), NEW n \in NodeIds(b)
  PROVE  ExitId \in Reachable(GraphOf(f, b), n)
<1> DEFINE X == Reachable(GraphOf(f, b), n)
<1>1. TypeInv(b) /\ Leads(Range(b.edges), Live(b), n)
  BY DEF Inv, NoTrap
<1>2. n \in X /\ Closing(Range(b.edges), X)
  BY <1>1, ReachableIs
<1> HIDE DEF X
<1>3. Live(b) = {}
  BY DEF Built, Live
<1>4. ExitId \in X
  BY <1>1, <1>2, <1>3 DEF Leads
<1>5. QED
  BY <1>4 DEF X

\* Whatever the function, walks from the entry get to every node of its graph but the
\* exit, and from every node some walk gets to the exit.
THEOREM NoNodeIsLost == Spec => []EveryNodeOnAWay
<1>1. symbol \in Symbols /\ Inv(state) => EveryNodeOnAWay
  <2> SUFFICES ASSUME Inv(state), Done, NEW n \in DOMAIN graph.nodes \ {ExitId}
               PROVE  /\ n \in Reachable(graph, graph.entry)
                      /\ ExitId \in Reachable(graph, n)
    BY DEF EveryNodeOnAWay
  <2>1. TypeInv(state)
    BY DEF Inv
  <2>2. DOMAIN graph.nodes = NodeIds(state) /\ graph.entry = EntryId
    BY <2>1, GraphIs DEF graph
  <2>3. n \in NodeIds(state) \ {ExitId}
    BY <2>2
  <2>4. QED
    BY <2>2, <2>3, EntryLeadsToAll, AllLeadToExit DEF graph, Done
<1>2. QED
  BY <1>1, BuilderInvariant, PTL

\* A walk that keeps clear of a loop's condition stays out of the loop.
LEMMA LoopsAreEnteredAtTheirCondition ==
  ASSUME NEW f, NEW b, Inv(b), NEW x \in Range(b.edges), x.label = "back"
  PROVE  /\ x.dst \in LoopNodes(b)
         /\ x.src \notin Reached(GraphOf(f, b), {EntryId}, NodeIds(b) \ {x.dst})
<1> DEFINE g == GraphOf(f, b)
           E == Range(b.edges)
           N == Len(b.nodes)
           S == {EntryId}
           W == NodeIds(b) \ {x.dst}
<1>1. TypeInv(b) /\ GraphInv(N, LoopNodes(b), E, Conds(b))
  BY DEF Inv
<1>2. /\ NodeIds(b) = 1 .. N /\ N \in Nat /\ N >= ExitId
      /\ \A e \in E : e.src \in NodeIds(b) \ {ExitId} /\ e.dst \in NodeIds(b)
  BY <1>1 DEF TypeInv, NodeIds, BuildStates
<1>3. Len(g.nodes) \in Nat
  BY <1>1, GraphIs
<1>4. /\ x.dst \in LoopNodes(b) /\ 3 <= x.dst /\ x.dst <= x.src
      /\ \E z \in x.src .. N : Closed(E, x.dst, z)
  BY <1>1 DEF GraphInv
<1>5. PICK z \in x.src .. N : Closed(E, x.dst, z)
  BY <1>4
<1> DEFINE P == NodeIds(b) \ (x.dst .. z)
<1>6. S \subseteq P
  BY <1>2, <1>4 DEF EntryId, ExitId
<1>7. Succs(g, P) = {e.dst : e \in {y \in E : y.src \in P}}
  <2>1. P \in SUBSET NodeIds(b)
    OBVIOUS
  <2> HIDE DEF P
  <2>2. QED
    BY <1>1, <2>1, SuccsAre
<1>8. ASSUME NEW e \in E, e.src \in P, e.dst \in W PROVE e.dst \in P
  <2>1. e.src \notin x.dst .. z /\ e.dst \in NodeIds(b) /\ e.dst # x.dst
    BY <1>8
  <2>2. e.dst \notin x.dst + 1 .. z
    BY <1>5, <2>1 DEF Closed
  <2>3. e.dst \notin x.dst .. z
    BY <1>2, <1>4, <2>1, <2>2
  <2>4. QED
    BY <2>1, <2>3
<1>9. Succs(g, P) \cap W \subseteq P
  BY <1>7, <1>8
<1>10. Reached(g, S, W) \subseteq P
  <2> HIDE DEF g, S, W, P
  <2>1. QED
    BY <1>3, <1>6, <1>9, ReachedIsWithin
<1>11. x.src \notin P
  BY <1>2, <1>4, <1>5
<1>12. QED
  BY <1>4, <1>10, <1>11

\* Whatever the function, a back edge leads to the condition of a loop, and no walk from
\* the entry gets to where it starts but through that condition: the explorer, which skips
\* back edges, has already tested the condition on every path that could take one.
THEOREM LoopsClose == Spec => []BackEdgesCloseLoops
<1>1. symbol \in Symbols /\ Inv(state) => BackEdgesCloseLoops
  <2> SUFFICES ASSUME Inv(state), Done, NEW n \in DOMAIN graph.nodes,
                      NEW e \in {x \in Range(graph.out[n]) : x.label = "back"}
               PROVE  /\ graph.nodes[e.dst].label \in LoopLabels
                      /\ n \notin Reached(graph, {graph.entry}, DOMAIN graph.nodes \ {e.dst})
    BY DEF BackEdgesCloseLoops
  <2>1. TypeInv(state)
    BY DEF Inv
  <2>2. /\ DOMAIN graph.nodes = NodeIds(state) /\ graph.entry = EntryId
        /\ graph.nodes = state.nodes
    BY <2>1, GraphIs DEF graph
  <2>3. \A m \in NodeIds(state) :
          /\ graph.out[m] \in Seq(Out(Range(state.edges), m))
          /\ Range(graph.out[m]) = Out(Range(state.edges), m)
    BY <2>1, GraphIs DEF graph
  <2>4. e \in Out(Range(state.edges), n) /\ e.label = "back"
    BY <2>2, <2>3
  <2>5. PICK x \in Range(state.edges) : x.src = n /\ x.dst = e.dst /\ x.label = "back"
    BY <2>4 DEF Out
  <2>6. /\ x.dst \in LoopNodes(state)
        /\ x.src \notin Reached(GraphOf(symbol, state), {EntryId}, NodeIds(state) \ {x.dst})
    BY <2>5, LoopsAreEnteredAtTheirCondition
  <2>7. QED
    BY <2>2, <2>5, <2>6 DEF graph, LoopNodes
<1>2. QED
  BY <1>1, BuilderInvariant, PTL
=============================================================================
