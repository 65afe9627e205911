-------------------------------- MODULE Search --------------------------------
(***************************************************************************)
(* What PathExplorer.explore promises, without its recursion: a search     *)
(* through the keys (node, state) of a graph.  It examines one key at a    *)
(* time, each at most once, the entry or one that may follow an examined   *)
(* key; and it is over only when every key that must follow an examined    *)
(* one was examined too, unless the depth bound cut it short.              *)
(***************************************************************************)
EXTENDS Integers

CONSTANTS
  EntryOf(_),          \* the key the search of a graph starts from
  MayFollow(_, _),     \* the keys a walk of the graph may reach from a key
  MustFollow(_, _)     \* those of them it may not leave out

VARIABLES
  graph,      \* any one, the same throughout
  reached,    \* the keys examined
  cut,        \* whether the bound cut a path
  over

vars == <<graph, reached, cut, over>>

Frontier ==
  ({EntryOf(graph)} \cup UNION {MayFollow(graph, k) : k \in reached}) \ reached

Closed(g, keys) ==
  EntryOf(g) \in keys /\ \A k \in keys : MustFollow(g, k) \subseteq keys

Init ==
  /\ reached = {}
  /\ cut = FALSE
  /\ over = FALSE

Examine == \E k \in Frontier : reached' = reached \cup {k} /\ UNCHANGED cut

Cut == cut' = TRUE /\ UNCHANGED reached

Rest == UNCHANGED <<reached, cut>>

Next ==
  /\ ~over
  /\ Examine \/ Cut \/ Rest
  /\ over' \in BOOLEAN
  /\ over' /\ ~cut' => Closed(graph', reached')
  /\ UNCHANGED graph

Spec == Init /\ [][Next]_vars
=============================================================================
