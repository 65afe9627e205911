----------------------------- MODULE MCPipeline -----------------------------
(***************************************************************************)
(* Two families of payloads.  Walked: a function whose walk met two sites  *)
(* in any way the rules distinguish, with a construct or none in it, and a *)
(* second function in its file or in another.  Laid out: the ways types    *)
(* and functions may lie in a file, with a construct at any line, and a    *)
(* second file with the names the first may call.                          *)
(***************************************************************************)
EXTENDS Pipeline

\* From (line, col) to the given line; the last column is 9.
Loc(line, col, end) == [line |-> line, col |-> col, end |-> end, endcol |-> 9]

\* One line, from a column to another.
Piece(line, col, endcol) == [line |-> line, col |-> col, end |-> line, endcol |-> endcol]

File(path, types, functions, unsupported) ==
  [path |-> path, parse_ok |-> TRUE, types |-> types, functions |-> functions,
   unsupported |-> unsupported]

Type(kind, name, loc) == [kind |-> kind, name |-> name, loc |-> loc]
Func(name, parent, loc, body, code) ==
  [kind |-> "function", name |-> name, parent |-> parent, loc |-> loc, body |-> body, code |-> code]
Code(calls, throws, seen) == [calls |-> calls, throws |-> throws, seen |-> seen]
Construct(category, loc) == [category |-> category, loc |-> loc]

Event(site, line, col, what) == [site |-> site, line |-> line, col |-> col, what |-> what]

----------------------------------------------------------------------------
(* Walked.                                                                 *)

\* What a rule may see at a site, in one walk.
SeenBy(rule) ==
  CASE rule = "unwrap" -> {[nilness |-> v] : v \in {"nil", "unknown", "non_nil"}}
    [] rule = "cast"   -> {[safe |-> b] : b \in BOOLEAN}
    [] rule = "bounds" -> {[guarded |-> g, constant_safe |-> FALSE, known_oob |-> o] :
                             g \in BOOLEAN, o \in BOOLEAN}
                          \cup {[guarded |-> FALSE, constant_safe |-> TRUE, known_oob |-> FALSE]}
    [] OTHER           -> {}

\* What is the same on every path.
SeenAlways(rule) ==
  CASE rule = "taint" -> {[dangerous |-> b] : b \in BOOLEAN}
    [] rule = "dead" -> {[located |-> b] : b \in BOOLEAN}
    [] OTHER -> {}

\* Two sites, the first met again on the second path; they start at one place when one
\* expression holds the other (a!.b!).
Walks(rule) ==
  {<<Event("a", 4, 2, v), Event("b", 4, c, w), Event("a", 4, 2, x)>> :
     v \in SeenBy(rule), w \in SeenBy(rule), x \in SeenBy(rule), c \in {2, 4}}
  \cup {<<Event("a", 4, 2, v), Event("b", 4, c, w), Event("a", 4, 2, v)>> :
     v \in SeenAlways(rule), w \in SeenAlways(rule), c \in {2, 4}}
  \cup {<<Event("a", 4, 2, v), Event("b", 4, c, w), Event("a", 4, 2, v)>> :
     v \in {x \in 0 .. 3 : rule = "try"}, w \in 0 .. 3, c \in {2, 4}}

Cast == <<Event("c", 4, 2, [safe |-> TRUE]), Event("c", 4, 2, [safe |-> FALSE])>>

\* g throws, f does not, and there is no h.
Walker(rule, walk, body) ==
  Func("f", NoParent, [Loc(3, 1, 5) EXCEPT !.endcol = 7], body,
       Code(<< <<"g">>, <<"f">>, <<"h">> >>, FALSE, rule :> walk @@ "cast" :> Cast))

Second(line) ==
  Func("g", NoParent, Loc(line, 1, line + 1), Loc(line, 3, line + 1),
       Code(<<>>, TRUE,
            "unwrap" :> <<Event("d", line, 5, [nilness |-> "nil"])>>
            @@ "bounds" :> <<Event("e", line, 5, [guarded |-> FALSE, constant_safe |-> FALSE,
                                                  known_oob |-> TRUE])>>))

Body == [Loc(3, 3, 5) EXCEPT !.endcol = 7]
NoLocation == [Body EXCEPT !.line = 0]

\* Nothing in the body, a macro, or an operator declared after its last brace.
Doubts == {<<>>, <<Construct("macro", Piece(4, 6, 8))>>,
           <<Construct("custom_operator", Piece(5, 8, 9))>>}

Walked ==
  UNION {{<<File(1, <<>>, IF line = 1 THEN <<Second(1), Walker(r, w, Body)>>
                                      ELSE <<Walker(r, w, Body), Second(7)>>, d)>> :
            w \in Walks(r), d \in Doubts, line \in {1, 7}} : r \in Range(Rules)}
  \cup UNION {{<<File(2, <<>>, <<Second(1)>>, <<>>), File(1, <<>>, <<Walker(r, w, b)>>, <<>>)>> :
            w \in Walks(r), b \in {Body}} : r \in Range(Rules)}
  \cup {<<File(1, <<>>, <<Walker("cast", Cast, b), Walker("cast", Cast, b), Second(7)>>, <<>>)>> :
            b \in {Body, NoLocation, NoBody}}

----------------------------------------------------------------------------
(* Laid out.                                                               *)

Nil(line) == "unwrap" :> <<Event("u", line, 4, [nilness |-> "nil"])>>

\* A function of one site, with its brace on its first line, which makes the given calls.
Fun(name, parent, line, end, calls) ==
  Func(name, parent, Loc(line, 2, end), Loc(line, 4, end), Code(calls, FALSE, Nil(line)))

Small(name, parent, line, col, endcol, calls) ==
  Func(name, parent, Piece(line, col, endcol), Piece(line, col + 1, endcol),
       Code(calls, FALSE, Nil(line)))

S == <<"S">>

Layouts(calls) ==
  { \* a function; a class with a method; and both
    <<<<>>, <<Fun("f", NoParent, 1, 4, calls)>>>>,
    <<<<Type("class", S, Loc(1, 1, 6))>>, <<Fun("f", S, 2, 4, calls)>>>>,
    <<<<Type("class", S, Loc(1, 1, 4))>>,
      <<Fun("f", S, 2, 3, calls), Fun("f", NoParent, 5, 7, <<>>)>>>>,
    \* a class and its extension
    <<<<Type("class", S, Loc(1, 1, 3)), Type("extension", S, Loc(4, 1, 7))>>,
      <<Fun("f", S, 2, 2, calls), Fun("f", S, 5, 6, <<>>)>>>>,
    \* a class in a class
    <<<<Type("class", S, Loc(1, 1, 8)), Type("struct", <<"T">>, Loc(2, 1, 5))>>,
      <<Fun("f", <<"T">>, 3, 4, calls), Fun("g", S, 6, 7, <<>>)>>>>,
    \* a class with its method on one line, and what follows it there
    <<<<Type("class", S, Piece(1, 1, 8))>>,
      <<Small("f", S, 1, 2, 7, calls), Fun("g", NoParent, 2, 4, <<>>)>>>>,
    <<<<Type("class", S, Piece(1, 1, 3))>>, <<Small("f", NoParent, 1, 4, 8, calls)>>>>,
    \* a function in a function
    <<<<>>, <<Fun("f", NoParent, 1, 6, calls), Fun("g", NoParent, 2, 4, <<>>)>>>>,
    <<<<>>, <<Small("f", NoParent, 1, 1, 9, calls), Small("g", NoParent, 1, 3, 7, <<>>)>>>>,
    \* an attribute on the line above the function
    <<<<>>, <<Func("f", NoParent, Loc(1, 1, 5), Loc(2, 4, 5), Code(calls, FALSE, Nil(3)))>>>>,
    <<<<Type("class", S, Loc(1, 1, 7))>>,
      <<Func("f", S, Loc(2, 1, 6), Loc(3, 4, 6), Code(calls, FALSE, Nil(4)))>>>>,
    \* a protocol, an initializer and an accessor
    <<<<Type("protocol", S, Loc(1, 1, 3))>>,
      <<Func("f", S, Piece(2, 1, 9), NoBody, Code(<<>>, FALSE, <<>>)), Fun("g", NoParent, 4, 6, calls)>>>>,
    <<<<Type("struct", S, Loc(1, 1, 8))>>,
      <<[Fun("init", S, 2, 3, calls) EXCEPT !.kind = "initializer"],
        [Fun("get", S, 4, 6, <<>>) EXCEPT !.kind = "accessor"]>>>>,
    <<<<Type("enum", S, Loc(1, 1, 3))>>, <<>>>>,
    <<<<>>, <<>>>> }

\* A construct at any line, across two of them, or none.
Constructs ==
  {<<>>}
  \cup {<<Construct(c, Piece(l, 5, 6))>> :
          c \in {"macro", "result_builder_or_macro_attr"}, l \in 1 .. 7}
  \cup {<<Construct("property_wrapper", [Piece(l, 5, 6) EXCEPT !.end = l + 1])>> : l \in {1, 3, 5}}

Calls == {<<>>, << <<"f">> >>, << <<"S", "f">> >>, << <<"self", "g">>, <<"f<Int>">> >>,
          << <<"(closure)">>, <<>> >>}

Failed == [File(2, <<>>, <<>>, <<>>) EXCEPT !.parse_ok = FALSE]

Others ==
  {<<Failed>>, <<File(2, <<>>, <<Fun("f", NoParent, 1, 2, <<>>)>>, <<>>)>>,
   <<File(2, <<>>, <<Fun("h", NoParent, 1, 2, << <<"f">> >>)>>, <<>>)>>,
   <<File(2, <<Type("extension", S, Loc(1, 1, 4))>>, <<Fun("g", S, 2, 3, << <<"S", "f">> >>)>>, <<>>)>>,
   <<File(2, <<>>, <<>>, <<Construct("macro", Piece(1, 1, 5))>>)>>}

LaidOut ==
  {<<File(1, l[1], l[2], u)>> : l \in Layouts(<<>>), u \in Constructs}
  \cup {o \o <<File(1, l[1], l[2], <<>>)>> : l \in UNION {Layouts(c) : c \in Calls}, o \in {<<>>} \cup Others}

MCPayloads == Walked \cup LaidOut \cup {<<>>}

MCBare(c) == CASE c = "f<Int>" -> "f" [] c = "(closure)" -> "" [] OTHER -> c
=============================================================================
