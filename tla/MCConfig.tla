----------------------------- MODULE MCConfig -----------------------------
(***************************************************************************)
(* Three families of setups: the switches in every layer, the provider     *)
(* knobs in every layer with the assistance on, and layers that go wrong.  *)
(***************************************************************************)
EXTENDS Config, TLC

Mapping(sets) == [kind |-> "mapping", sets |-> sets]
Broken(kind) == [kind |-> kind, sets |-> <<>>]
Absent == Broken("absent")

WithKey == [key |-> "k"]
NoArgs == [sets |-> <<>>, flag |-> "unset", invalid |-> "none"]

Switches(depth) ==
  {Mapping(a @@ b @@ c) : a \in {<<>>, [max_depth |-> depth]},
                          b \in {<<>>, [privacy |-> "offline"], [privacy |-> "redacted"]},
                          c \in {<<>>} \cup {[enabled |-> v] : v \in {TRUE, FALSE, Null}}}

SwitchSetups ==
  {[user |-> u, project |-> p, dotenv |-> <<>>, process |-> WithKey,
    cli |-> [sets |-> s, flag |-> f, invalid |-> "none"]] :
     u \in Switches(3) \cup {Absent}, p \in Switches(4) \cup {Absent},
     s \in {<<>>, [max_depth |-> 5], [privacy |-> "offline"], [privacy |-> "redacted"]},
     f \in {"unset", "on", "off"}}

On == [privacy |-> "redacted", enabled |-> TRUE]

Text(key, values) == {<<>>} \cup {key :> v : v \in values}

KnobSetups ==
  {[user |-> Mapping(On @@ u), project |-> Mapping(p @@ pm @@ pb),
    dotenv |-> [model |-> "dotenv", base_url |-> "dotenv", key |-> "k"],
    process |-> ep @@ em,
    cli |-> [NoArgs EXCEPT !.sets = cp @@ cm]] :
     u \in Text("model", {"user"}),
     p \in Text("provider", {"openai", "openai-compatible", Null}),
     pm \in Text("model", {"", "project"}), pb \in Text("base_url", {Null, "project"}),
     ep \in Text("provider", {"anthropic", "acme"}), em \in Text("model", {"", "process"}),
     cp \in Text("provider", {"openai-compatible"}), cm \in Text("model", {"", "cli"})}

BrokenSetups ==
  {[user |-> u, project |-> p, dotenv |-> <<>>, process |-> <<>>, cli |-> c] :
     u \in {Absent, Broken("garbage")} , p \in {Absent, Mapping(On), Broken("garbage")},
     c \in {NoArgs, [NoArgs EXCEPT !.flag = "both"], [NoArgs EXCEPT !.invalid = "option"],
            [NoArgs EXCEPT !.invalid = "format"]}}
  \cup {[user |-> Broken("illtyped"), project |-> Absent, dotenv |-> <<>>, process |-> <<>>,
         cli |-> NoArgs]}

MCSetups == SwitchSetups \cup KnobSetups \cup BrokenSetups
=============================================================================
