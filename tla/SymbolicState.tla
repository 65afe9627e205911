--------------------------- MODULE SymbolicState ---------------------------
(***************************************************************************)
(* The symbolic state that one explored path carries (engine/state.py) and *)
(* the functions that read and extend it (engine/facts.py and the          *)
(* statement transfer of engine/explorer.py).                              *)
(*                                                                         *)
(* An expression is abstracted to what those functions distinguish: a      *)
(* record whose field k is the shape of the expression.                    *)
(*   none                 no expression, or an id the unit does not hold   *)
(*   lit(text)            a literal                                        *)
(*   id(name)             an identifier                                    *)
(*   unwrap(name)         name!                                            *)
(*   wrap(name)           await name, name?                                *)
(*   coalesce(reads)      a ?? b                                           *)
(*   array(size)          an array literal                                 *)
(*   compound(reads,tags) calls, member accesses, operators...: the names  *)
(*                        it mentions and the taint sources in its text    *)
(*   sanitized            an expression whose text matches a sanitizer     *)
(* and, as conditions only,                                                *)
(*   eq(left,right,negated)  ==, !=           let(name)   if let name = .. *)
(*   compare(index,array)    index < array.count (or <=, or mirrored)      *)
(*   contains(index,array)   array.indices.contains(index)                 *)
(*   is(name,type)           name is type                                  *)
(*   isEmpty(name)           name.isEmpty                                  *)
(*   not(of)                 ! applied to one of the shapes above          *)
(***************************************************************************)
EXTENDS Integers, Sequences

CONSTANTS
  Names,      \* identifiers of the analysed function
  Texts,      \* literal texts
  IntOf,      \* the integer a literal text denotes, -1 when it denotes none
  Tags,       \* taint source patterns
  Types       \* names of types in `is` checks

ASSUME SymbolicAssumption ==
  /\ {"true", "false", "nil"} \subseteq Texts
  /\ "absent" \notin Texts \cup Types
  /\ IntOf \in [Texts -> Nat \cup {-1}]

Absent == "absent"      \* a name the dictionary has no entry for
NoSize == -1            \* the same for the dictionary of array sizes
NilnessValues == {"nil", "non_nil", "unknown"}

States ==
  [nilness     : [Names -> NilnessValues \cup {Absent}],
   taint       : [Names -> SUBSET Tags],
   facts       : [Names -> Texts \cup {Absent}],
   bounds_ok   : SUBSET (Names \X Names),
   nonempty    : SUBSET Names,
   array_sizes : [Names -> Nat \cup {NoSize}],
   type_is     : [Names -> Types \cup {Absent}]]

EmptyState ==
  [nilness     |-> [n \in Names |-> Absent],
   taint       |-> [n \in Names |-> {}],
   facts       |-> [n \in Names |-> Absent],
   bounds_ok   |-> {},
   nonempty    |-> {},
   array_sizes |-> [n \in Names |-> NoSize],
   type_is     |-> [n \in Names |-> Absent]]

\* Mutation: the lookup without its default.
GetNoDefault(s, n) == s.nilness[n]

Get(s, n) == IF s.nilness[n] = Absent THEN "unknown" ELSE s.nilness[n]

WithNilness(s, n, v) == [s EXCEPT !.nilness[n] = v]
WithBounds(s, i, a)  == [s EXCEPT !.bounds_ok = @ \cup {<<i, a>>}]
WithNonempty(s, a)   == [s EXCEPT !.nonempty = @ \cup {a}]
WithType(s, n, t)    == [s EXCEPT !.type_is[n] = t]

----------------------------------------------------------------------------
(* The expressions: operands (Values), conditions, and what a statement    *)
(* does to the state: nothing (keep), a declaration of names whose         *)
(* annotation ends in `?` when optional, or an assignment to an identifier.*)

Values ==
  [k : {"none", "sanitized"}]
  \cup [k : {"lit"}, text : Texts]
  \cup [k : {"id", "unwrap", "wrap"}, name : Names]
  \cup [k : {"coalesce"}, reads : SUBSET Names]
  \cup [k : {"array"}, size : Nat]
  \cup [k : {"compound"}, reads : SUBSET Names, tags : SUBSET Tags]

Atoms ==
  Values
  \cup [k : {"eq"}, left : Values, right : Values, negated : BOOLEAN]
  \cup [k : {"let", "isEmpty"}, name : Names]
  \cup [k : {"is"}, name : Names, type : Types]
  \cup [k : {"compare", "contains"}, index : Names, array : Names]

Conditions == Atoms \cup [k : {"not"}, of : Atoms]

Updates ==
  [k : {"keep"}]
  \cup [k : {"decl"}, names : SUBSET Names, optional : BOOLEAN, val : Values]
  \cup [k : {"assign"}, name : Names, val : Values]

----------------------------------------------------------------------------
(* What an expression evaluates to.                                        *)

EvalNilness(e, s) ==
  CASE e.k = "lit" -> IF e.text = "nil" THEN "nil" ELSE "non_nil"
    [] e.k = "id"  -> Get(s, e.name)
    [] e.k \in {"unwrap", "coalesce"} -> "non_nil"
    [] OTHER -> "unknown"

EvalTaint(e, s) ==
  CASE e.k \in {"id", "unwrap", "wrap"} -> s.taint[e.name]
    [] e.k = "coalesce" -> UNION {s.taint[n] : n \in e.reads}
    [] e.k = "compound" -> e.tags \cup UNION {s.taint[n] : n \in e.reads}
    [] OTHER -> {}

EvalConst(e, s) ==
  CASE e.k = "lit" -> e.text
    [] e.k \in {"id", "unwrap", "wrap"} -> s.facts[e.name]
    [] OTHER -> Absent

ArrayLiteralSize(e) == IF e.k = "array" THEN e.size ELSE NoSize

----------------------------------------------------------------------------
(* Conditions: their verdict, and the facts a branch adds.                 *)

Verdicts == {"true", "false", "unknown"}

Negate(v) == CASE v = "true" -> "false" [] v = "false" -> "true" [] OTHER -> "unknown"

\* A condition without a leading `!`; wrapped identifiers have no verdict.
EvaluateAtom(e, s) ==
  CASE e.k = "lit" -> IF e.text \in {"true", "false"} THEN e.text ELSE "unknown"
    [] e.k = "id"  -> IF s.facts[e.name] \in {"true", "false"}
                      THEN s.facts[e.name] ELSE "unknown"
    [] e.k = "eq"  ->
         LET l == EvalConst(e.left, s)
             r == EvalConst(e.right, s)
         IN  IF Absent \in {l, r} THEN "unknown"
             ELSE IF (l = r) = e.negated THEN "false" ELSE "true"
    [] OTHER -> "unknown"

EvaluateCondition(e, s) ==
  IF e.k = "not" THEN Negate(EvaluateAtom(e.of, s)) ELSE EvaluateAtom(e, s)

ApplyConditionFacts(e, s, positive) ==
  CASE e.k = "let" /\ positive -> WithNilness(s, e.name, "non_nil")
    [] e.k = "is" /\ positive -> WithType(s, e.name, e.type)
    [] e.k \in {"compare", "contains"} /\ positive -> WithBounds(s, e.index, e.array)
    [] e.k = "isEmpty" /\ ~positive -> WithNonempty(s, e.name)
    [] e.k = "not" /\ positive ->
         IF e.of.k = "isEmpty" THEN WithNonempty(s, e.of.name) ELSE s
    [] OTHER -> s

\* guarded, constant_safe and known_oob of base[index], index an expression.
SubscriptSafety(base, index, s) ==
  LET const == EvalConst(index, s)
      at    == IF const = Absent THEN -1 ELSE IntOf[const]
      size  == s.array_sizes[base]
      sized == at >= 0 /\ size # NoSize
  IN  [guarded |-> /\ index.k \in {"id", "unwrap", "wrap"}
                   /\ <<index.name, base>> \in s.bounds_ok,
       constant_safe |-> \/ sized /\ at < size
                         \/ ~sized /\ at = 0 /\ base \in s.nonempty,
       known_oob |-> sized /\ at >= size]

----------------------------------------------------------------------------
(* Statements: what a declaration or an assignment does to the state.      *)

DeclaredNilness(optional, v) ==
  IF v = "unknown" /\ ~optional THEN "non_nil" ELSE v

\* Nilness and taint are overwritten; a constant or a size is overwritten
\* only by a new one, and no assignment ever removes a fact.
Bind(s, names, nil, val) ==
  LET tags  == EvalTaint(val, s)
      const == EvalConst(val, s)
      size  == ArrayLiteralSize(val)
  IN  [s EXCEPT
        !.nilness = [n \in Names |-> IF n \in names THEN nil ELSE @[n]],
        !.taint   = [n \in Names |-> IF n \in names THEN tags ELSE @[n]],
        !.facts   = [n \in Names |-> IF n \in names /\ const # Absent
                                     THEN const ELSE @[n]],
        !.array_sizes = [n \in Names |-> IF n \in names /\ size # NoSize
                                         THEN size ELSE @[n]]]

ApplyStatement(u, s) ==
  CASE u.k = "decl" ->
         Bind(s, u.names, DeclaredNilness(u.optional, EvalNilness(u.val, s)), u.val)
    [] u.k = "assign" -> Bind(s, {u.name}, EvalNilness(u.val, s), u.val)
    [] OTHER -> s

\* A parameter is a name and whether its annotation ends in `?`.
InitialState(params) ==
  [EmptyState EXCEPT !.nilness =
     [n \in Names |-> IF \E p \in params : p.name = n
                      THEN IF \E p \in params : p.name = n /\ p.optional
                           THEN "unknown" ELSE "non_nil"
                      ELSE Absent]]
=============================================================================
