-------------------------- MODULE ControlFlowGraph --------------------------
(***************************************************************************)
(* ControlFlowGraph (cfg/models.py), what CFGBuilder hands to PathExplorer.*)
(* A graph node carries what _step reads of the statement or expression    *)
(* it stands for:                                                          *)
(*   roots   the sites found under the statement's root expressions        *)
(*   update  what the statement does to the state                          *)
(*   cond    the condition evaluated at a condition node                   *)
(*   scan    the sites under the expression of a call or condition node    *)
(* A site is an expression some rule looks at.                             *)
(***************************************************************************)
EXTENDS SymbolicState, Functions

Sites ==
  [k : {"unwrap"}, id : Nat, operand : Values]
  \cup [k : {"subscript"}, id : Nat, base : Names, index : Values]
  \cup [k : {"cast"}, id : Nat, operand : Names]
  \cup [k : {"try"}, id : Nat]
  \cup [k : {"sink"}, id : Nat, args : SUBSET Values]

StatementLabels ==
  {"variable_declaration", "assignment", "expression", "if_statement", "guard_statement",
   "switch_statement", "for_loop", "while_loop", "repeat_loop", "return_statement",
   "throw_statement", "break_statement", "continue_statement", "defer_statement",
   "do_catch_statement"}
NodeLabels ==
  {"entry", "exit", "call", "if", "guard", "switch", "if-join"} \cup StatementLabels
\* The label of a case has its index, which nothing reads.
EdgeLabels == {"seq", "true", "false", "case", "back"}

Kinds == {"entry", "exit", "statement", "condition", "call", "return", "throw"}

GraphNodes ==
  [kind : Kinds, label : NodeLabels, roots : SUBSET Sites, update : Updates,
   cond : Conditions, scan : SUBSET Sites]

\* A parameter of a function, and whether its type ends in `?`.
Parameters == [name : Names, optional : BOOLEAN]

\* Node ids are positions in g.nodes; g.out lists the edges leaving each node.
IsGraph(g) ==
  /\ g.nodes \in Seq(GraphNodes)
  /\ g.out \in [DOMAIN g.nodes -> Seq([dst : DOMAIN g.nodes, label : EdgeLabels])]
  /\ g.entry \in DOMAIN g.nodes
  /\ \A p \in g.params : p.name \in Names /\ p.optional \in BOOLEAN

\* The builder lays nodes out in the order of the statements.  A back edge returns from
\* the body of a loop to its condition, and no edge from before the condition leads past
\* it into the body; any other edge leads to a later node or to the exit.
IsLaidOut(g) ==
  \A n \in DOMAIN g.nodes : \A e \in Range(g.out[n]) :
    IF e.label = "back"
    THEN /\ e.dst \in g.entry .. n
         /\ \A m \in DOMAIN g.nodes : \A d \in Range(g.out[m]) :
              d.dst \in e.dst + 1 .. n => m >= e.dst
    ELSE e.dst > n \/ g.nodes[e.dst].kind = "exit"
=============================================================================
