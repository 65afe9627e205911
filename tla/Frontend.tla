------------------------------ MODULE Frontend ------------------------------
(***************************************************************************)
(* normalize_helper_output (swift_frontend/normalize.py) and what it calls *)
(* in frontend/: from the declarations the parser helper lists for each    *)
(* file to symbols with their bodies, the calls in them resolved by name   *)
(* over all files, the constructs the frontend cannot model attached to    *)
(* the symbol they are in, and the eligibility that follows from them.     *)
(*                                                                         *)
(* A location has a first line and column and a last line and column.  A   *)
(* name is a sequence of components: <<"S", "f">> is S.f.  A file of the   *)
(* payload has                                                             *)
(*   path        a number, in the order of the paths                       *)
(*   parse_ok                                                              *)
(*   types       [name, kind, loc]                                         *)
(*   functions   [name, kind, loc, body, parent, code]                     *)
(*   unsupported [category, loc]                                           *)
(* Of the statements of a function, code keeps the names it calls, whether *)
(* it throws, and what a walk sees of its sites (as in Findings).          *)
(***************************************************************************)
EXTENDS Integers, FiniteSets, SequencesExt, Listing

CONSTANTS
  Payloads,    \* what the helper may answer: sequences of files
  Bare(_),     \* a component of a call without what follows <, ( or a blank; or ""
  Width        \* bound: lines and columns are smaller

VARIABLES
  payload,
  built,       \* the files whose symbols were built, in the order of their paths
  index,       \* the callable symbols: pairs of a name and an id
  files,       \* the files finished
  stage        \* "building" or "resolving"

frontendVars == <<payload, built, index, files, stage>>

----------------------------------------------------------------------------
(* Locations.                                                              *)

NoBody == [line |-> -1, col |-> -1, end |-> -1, endcol |-> -1]

IsValid(loc) == loc.line >= 1 /\ loc.col >= 1 /\ loc.end >= loc.line

At(loc) == loc.line * Width + loc.col

\* Whether inner lies within outer, by their lines.
Encloses(outer, inner) == outer.line <= inner.line /\ outer.end >= inner.end

Height(loc) == loc.end - loc.line

\* Of the locations at the indices in among, the first with the fewest lines.
FirstNarrowest(locs, among) ==
  CHOOSE i \in among :
    \A j \in among :
      \/ Height(locs[i]) < Height(locs[j])
      \/ Height(locs[i]) = Height(locs[j]) /\ i <= j

----------------------------------------------------------------------------
(* Symbols.                                                                *)

TypeKinds == {"class", "struct", "enum", "actor", "protocol", "extension"}
Callable == {"function", "initializer", "property_getter", "property_setter"}

\* Mutation: accessors keep the helper's word for them.
SymbolKindRaw(raw) ==
  IF raw \in TypeKinds \cup {"initializer", "closure", "accessor"} THEN raw ELSE "function"

SymbolKind(raw) ==
  CASE raw \in TypeKinds \cup {"initializer", "closure"} -> raw
    [] raw \in {"get", "accessor"} -> "property_getter"
    [] raw = "set" -> "property_setter"
    [] OTHER -> "function"

NoParent == <<>>

\* The eligibility a symbol is built with, which is replaced before anyone reads it.
NotYet == [state |-> "parsed", unsupported |-> 0, warnings |-> 0]

SymbolId(path, kind, qname, loc) == <<path, kind, qname, At(loc)>>

Symbol(path, kind, name, qname, loc, body, code) ==
  [id |-> SymbolId(path, kind, qname, loc), path |-> path, kind |-> kind, name |-> name,
   qname |-> qname, loc |-> loc, body |-> body, code |-> code,
   eligibility |-> NotYet]

NoCode == [calls |-> <<>>, throws |-> FALSE, seen |-> <<>>]

TypeSymbol(path, t) ==
  Symbol(path, SymbolKind(t.kind), t.name, t.name, t.loc, NoBody, NoCode)

FunctionSymbol(path, f, prefix) ==
  Symbol(path, SymbolKind(f.kind), <<f.name>>, prefix \o <<f.name>>, f.loc, f.body, f.code)

\* The index of the type a function belongs to, or 0: the type the helper names, if
\* possible one that encloses the function; if it names none, the narrowest that does.
ParentOf(f, types) ==
  LET locs == [i \in DOMAIN types |-> types[i].loc]
      around == {i \in DOMAIN types : Encloses(types[i].loc, f.loc)}
      named == {i \in DOMAIN types : types[i].name = f.parent}
  IN  IF f.parent = NoParent
      THEN IF around = {} THEN 0 ELSE FirstNarrowest(locs, around)
      ELSE IF named = {} THEN 0
      ELSE Min(IF named \cap around # {} THEN named \cap around ELSE named)

ByPlace(s) ==
  InOrder(s, [i \in DOMAIN s |-> s[i].loc.line], [i \in DOMAIN s |-> s[i].loc.col])

\* Mutation: a nested function is known by its name alone.
SpotByName(f) == f.name

\* What is kept of a nested function to tell it from those at the top level.
Spot(f) == <<f.name, At(f.loc)>>

Entry(sym, children) == [loc |-> sym.loc, symbol |-> sym, children |-> children]

\* The types of a file with their functions, and the functions of no type.
FileSymbols(file) ==
  LET types == ByPlace(file.types)
      functions == ByPlace(file.functions)
      In(t) == {i \in DOMAIN functions : ParentOf(functions[i], types) = t}
      Inside(t) == Kept(functions, In(t))
      nested == {Spot(functions[i]) : i \in DOMAIN functions \ In(0)}
      outside == Kept(functions, {i \in DOMAIN functions : Spot(functions[i]) \notin nested})
  IN  ByPlace(
        [t \in DOMAIN types |->
           Entry(TypeSymbol(file.path, types[t]),
                 [i \in DOMAIN Inside(t) |-> FunctionSymbol(file.path, Inside(t)[i], types[t].name)])]
        \o [i \in DOMAIN outside |-> Entry(FunctionSymbol(file.path, outside[i], <<>>), <<>>)])

\* The symbols of a file, each before its children.
Flat(top) == Concatenated([i \in DOMAIN top |-> <<top[i].symbol>> \o top[i].children])

----------------------------------------------------------------------------
(* What the helper answers, read as frontend/models.py does.               *)

IsLoc(loc) ==
  /\ loc.line \in Int /\ loc.end \in Int
  /\ loc.col \in 0 .. Width - 1 /\ loc.endcol \in 0 .. Width - 1

\* A site is an expression or a branch: it has one place, and whether its callee may throw
\* or its sink is dangerous does not depend on the path to it.
IsCode(code) ==
  /\ code = [calls |-> code.calls, throws |-> code.throws, seen |-> code.seen]
  /\ IsList(code.calls)
  /\ \A rule \in DOMAIN code.seen :
       /\ IsList(code.seen[rule])
       /\ \A i \in DOMAIN code.seen[rule] :
            code.seen[rule][i].line \in Int /\ code.seen[rule][i].col \in Int
       /\ \A i, j \in DOMAIN code.seen[rule] :
            LET e == code.seen[rule][i]
                d == code.seen[rule][j]
            IN  e.site = d.site => /\ e.line = d.line /\ e.col = d.col
                                   /\ rule \in {"try", "taint"} => e.what = d.what

\* Two declarations start at two places; one may be listed twice.
IsFilePayload(file) ==
  /\ file.path \in Int
  /\ IsList(file.types) /\ IsList(file.functions) /\ IsList(file.unsupported)
  /\ \A t \in Range(file.types) :
       /\ IsLoc(t.loc) /\ IsList(t.name) /\ t.name # <<>>
       /\ t.kind \in TypeKinds
  /\ \A f \in Range(file.functions) :
       /\ IsLoc(f.loc) /\ (f.body = NoBody \/ IsLoc(f.body)) /\ IsCode(f.code)
       /\ f.kind \notin TypeKinds \cup {"closure"}
       /\ \A g \in Range(file.functions) : f.name = g.name /\ At(f.loc) = At(g.loc) => f = g
       /\ \A t \in Range(file.types) : At(f.loc) # At(t.loc)
  /\ \A r \in Range(file.unsupported) : IsLoc(r.loc)

\* A file is asked for once; what is called is no function's name cut short by Bare, unless
\* nothing is left of it, as of an operator that begins with <.
IsPayload(p) ==
  /\ IsList(p) /\ \A i \in DOMAIN p : IsFilePayload(p[i])
  /\ \A i, j \in DOMAIN p : p[i].path = p[j].path => i = j
  /\ \A i, j \in DOMAIN p : \A f \in Range(p[i].functions), g \in Range(p[j].functions) :
       \A c \in Range(f.code.calls) :
         c # <<>> /\ Last(c) = g.name => Bare(Last(c)) \in {"", g.name}

ASSUME FrontendAssumption == Width \in Nat /\ \A p \in Payloads : IsPayload(p)

----------------------------------------------------------------------------
(* Calls.                                                                  *)

\* A method is listed under its name and under its qualified name.
CallableNames(tops) ==
  UNION {{<<s.name, s.id>>, <<s.qname, s.id>>} :
           s \in {x \in UNION {Range(Flat(top)) : top \in tops} : x.kind \in Callable}}

Listed(text) == {entry[2] : entry \in {x \in index : x[1] = text}}

\* The symbols a call may mean: those of its whole text, or else of its last component.
Meant(text) ==
  IF text = <<>> \/ Bare(Last(text)) = "" THEN {}
  ELSE IF Listed(text) # {} THEN Listed(text)
  ELSE Listed(<<Bare(Last(text))>>)

Nobody == <<>>

Resolved(text) ==
  LET meant == Meant(text)
  IN  [text |-> text,
       status |-> IF meant = {} THEN "unresolved"
                  ELSE IF Cardinality(meant) = 1 THEN "resolved" ELSE "ambiguous",
       callee |-> IF Cardinality(meant) = 1 THEN CHOOSE id \in meant : TRUE ELSE Nobody]

\* The calls of a function without a body are lost with it.
ApplyResolution(s) ==
  [s EXCEPT !.code.calls = IF s.body = NoBody THEN <<>>
                           ELSE [i \in DOMAIN @ |-> Resolved(@[i])]]

----------------------------------------------------------------------------
(* Constructs the frontend cannot model.                                   *)

Impact(category) ==
  CASE category = "result_builder_or_macro_attr" -> "cfg-skipped"
    [] category = "custom_operator" -> "rule-limited"
    [] OTHER -> "confidence-degraded"

\* Where a symbol is when a construct looks for its owner.
Extent(s) == IF s.body = NoBody THEN s.loc ELSE s.body

\* Mutation: of the symbols around a construct the first owns it, a type before its
\* methods.
OwnerOutside(loc, flat) ==
  LET around == {i \in DOMAIN flat : Encloses(Extent(flat[i]), loc)}
  IN  IF around = {} THEN Nobody ELSE flat[Min(around)].id

\* The symbol a construct counts against: the narrowest around it, if any.
Owner(loc, flat) ==
  LET around == {i \in DOMAIN flat : Encloses(Extent(flat[i]), loc)}
  IN  IF around = {} THEN Nobody
      ELSE flat[FirstNarrowest([i \in DOMAIN flat |-> Extent(flat[i])], around)].id

Attached(unsupported, flat) ==
  [i \in DOMAIN unsupported |->
     [category |-> unsupported[i].category, impact |-> Impact(unsupported[i].category),
      owner |-> Owner(unsupported[i].loc, flat)]]

----------------------------------------------------------------------------
(* Eligibility.                                                            *)

Eligibility(state, count) == [state |-> state, unsupported |-> count, warnings |-> 0]

Blocks(r) == r.impact \in {"cfg-skipped", "analysis-skipped"}

\* Statements always count as understood here: that part of the code is not reached
\* with statements_ok = False.
ClassifySymbol(parse_ok, s, records) ==
  LET mine == {i \in DOMAIN records : records[i].owner = s.id}
      doubts == {i \in mine : Blocks(records[i]) \/ records[i].impact = "confidence-degraded"}
  IN  Eligibility(CASE ~parse_ok -> "skipped"
                    [] parse_ok /\ s.body = NoBody -> "normalized"
                    [] parse_ok /\ s.body # NoBody /\ ~IsValid(s.body) -> "skipped"
                    [] OTHER -> IF doubts = {} THEN "cfg-ready" ELSE "partially-analyzed",
                  Cardinality(mine))

WithEligibility(parse_ok, s, records) ==
  [s EXCEPT !.eligibility = ClassifySymbol(parse_ok, s, records)]

\* Mutation: types count as something to analyse.
AnalyzableTypes(top) == DOMAIN top

Analyzable(top) == {i \in DOMAIN top : top[i].symbol.kind \in Callable}

\* Only the top level tells whether all of a file can be analysed; its methods count
\* when they are partial, and as something to analyse.
ClassifyFile(parse_ok, top, records) ==
  LET state(i) == top[i].symbol.eligibility.state
      below == {s.eligibility.state : s \in Range(Flat(top))}
      all == Analyzable(top) # {} /\ \A i \in Analyzable(top) : state(i) = "cfg-ready"
      skipped == \A i \in DOMAIN top : state(i) = "skipped"
  IN  Eligibility(CASE ~parse_ok -> "skipped"
                    [] parse_ok /\ top = <<>> -> "normalized"
                    [] parse_ok /\ top # <<>> /\ skipped -> "skipped"
                    [] OTHER -> IF "partially-analyzed" \in below THEN "partially-analyzed"
                                ELSE IF all THEN "cfg-ready"
                                ELSE IF "cfg-ready" \in below THEN "partially-analyzed"
                                ELSE "normalized",
                  Len(records))

----------------------------------------------------------------------------
(* Steps.                                                                  *)

FrontendInit ==
  /\ payload \in Payloads
  /\ built = <<>>
  /\ index = {}
  /\ files = <<>>
  /\ stage = "building"

InPathOrder ==
  InOrder(payload, [i \in DOMAIN payload |-> payload[i].path], [i \in DOMAIN payload |-> 0])

BuildFile ==
  /\ stage = "building" /\ Len(built) < Len(payload)
  /\ LET file == InPathOrder[Len(built) + 1]
     IN  built' = Append(built, [path |-> file.path, parse_ok |-> file.parse_ok,
                                 top |-> FileSymbols(file), unsupported |-> file.unsupported])
  /\ UNCHANGED <<payload, index, files, stage>>

\* Mutation: only the symbols of the first file are indexed.
IndexNamesEarly ==
  /\ stage = "building" /\ Len(built) = Len(payload)
  /\ index' = IF built = <<>> THEN {} ELSE CallableNames({built[1].top})
  /\ stage' = "resolving"
  /\ UNCHANGED <<payload, built, files>>

IndexNames ==
  /\ stage = "building" /\ Len(built) = Len(payload)
  /\ index' = CallableNames({file.top : file \in Range(built)})
  /\ stage' = "resolving"
  /\ UNCHANGED <<payload, built, files>>

\* Resolution, attachment and eligibility of the next file.
Finished(file) ==
  LET records == Attached(file.unsupported, Flat(file.top))
      Done(s) == WithEligibility(file.parse_ok, ApplyResolution(s), records)
      top == [t \in DOMAIN file.top |->
                [file.top[t] EXCEPT !.symbol = Done(@),
                   !.children = [i \in DOMAIN @ |-> Done(@[i])]]]
  IN  [path |-> file.path, top |-> top, records |-> records,
       eligibility |-> ClassifyFile(file.parse_ok, top, records)]

FinalizeFile ==
  /\ stage = "resolving" /\ Len(files) < Len(built)
  /\ files' = Append(files, Finished(built[Len(files) + 1]))
  /\ UNCHANGED <<payload, built, index, stage>>

FrontendNext == BuildFile \/ IndexNames \/ FinalizeFile

Normalized == stage = "resolving" /\ Len(files) = Len(built)
=============================================================================
