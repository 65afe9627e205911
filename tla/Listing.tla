------------------------------- MODULE Listing -------------------------------
(***************************************************************************)
(* Sequences by their indices: sorting as sorted and list.sort do it,      *)
(* which leaves equal elements as they came; comprehensions with a filter; *)
(* and loops that extend a list by other lists.  Each lists a finite set   *)
(* in the order of keys, which are triples of integers compared from the   *)
(* left, and no two of which are equal.                                    *)
(***************************************************************************)
EXTENDS Integers, FiniteSets, Sequences

\* Whether s is a sequence, of whatever it holds.
IsList(s) == s \in Seq({s[i] : i \in DOMAIN s})

Less(a, b) ==
  \/ a[1] < b[1]
  \/ a[1] = b[1] /\ a[2] < b[2]
  \/ a[1] = b[1] /\ a[2] = b[2] /\ a[3] < b[3]

\* How many elements of P come before p.
Before(P, key, p) == Cardinality({q \in P : Less(key[q], key[p])})

Listing(P, key) == [n \in 1 .. Cardinality(P) |-> CHOOSE p \in P : Before(P, key, p) = n - 1]

\* s by major[i], then minor[i].
InOrder(s, major, minor) ==
  LET listing == Listing(DOMAIN s, [i \in DOMAIN s |-> <<major[i], minor[i], i>>])
  IN  [n \in DOMAIN s |-> s[listing[n]]]

\* The elements of s at the indices in I.
Kept(s, I) ==
  LET listing == Listing(I, [i \in I |-> <<i, 0, 0>>])
  IN  [n \in 1 .. Cardinality(I) |-> s[listing[n]]]

Places(ss) == UNION {{i} \X DOMAIN ss[i] : i \in DOMAIN ss}

\* The sequences of ss one after the other.
Concatenated(ss) ==
  LET listing == Listing(Places(ss), [p \in Places(ss) |-> <<p[1], p[2], 0>>])
  IN  [n \in 1 .. Cardinality(Places(ss)) |-> ss[listing[n][1]][listing[n][2]]]
=============================================================================
