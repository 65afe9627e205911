---------------------------- MODULE ListingProofs ----------------------------
(***************************************************************************)
(* Listing a finite set by distinct keys gives each element one place, and *)
(* smaller keys come first.  It follows that sorting loses and adds        *)
(* nothing, leaves what is sorted alone, and sorts; that what is kept are  *)
(* the chosen elements; and that what is concatenated has the elements of  *)
(* the parts.                                                              *)
(***************************************************************************)
EXTENDS Listing, Functions, SequenceTheorems, FiniteSetTheorems, TLAPS

Key == Int \X Int \X Int

Keyed(P, key) ==
  /\ IsFiniteSet(P)
  /\ key \in [P -> Key]
  /\ \A p, q \in P : key[p] = key[q] => p = q

Below(P, key, p) == {q \in P : Less(key[q], key[p])}

\* The keys are in a strict total order.
LEMMA LessIsTotal ==
  ASSUME NEW a \in Key, NEW b \in Key, NEW c \in Key
  PROVE  /\ ~Less(a, a)
         /\ Less(a, b) /\ Less(b, c) => Less(a, c)
         /\ a # b => Less(a, b) \/ Less(b, a)
BY DEF Less, Key

\* The number of elements before another one is a position of the list.
LEMMA BeforeType ==
  ASSUME NEW P, NEW key, Keyed(P, key), NEW p \in P
  PROVE  /\ IsFiniteSet(Below(P, key, p))
         /\ Before(P, key, p) = Cardinality(Below(P, key, p))
         /\ Before(P, key, p) \in Nat
         /\ Before(P, key, p) + 1 \in 1 .. Cardinality(P)
<1> DEFINE B == Below(P, key, p)
<1>1. B \in SUBSET P /\ p \notin B
  BY LessIsTotal DEF Keyed, Below
<1>2. IsFiniteSet(P) /\ Cardinality(P) \in Nat
  BY FS_CardinalityType DEF Keyed
<1>3. IsFiniteSet(B) /\ Cardinality(B) <= Cardinality(P) /\ Cardinality(B) # Cardinality(P)
  BY <1>1, <1>2, FS_Subset
<1>4. Cardinality(B) \in Nat
  BY <1>3, FS_CardinalityType
<1>5. Before(P, key, p) = Cardinality(B)
  BY DEF Before, Below
<1> QED BY <1>2, <1>3, <1>4, <1>5

\* An element with a smaller key has fewer before it.
LEMMA BeforeMonotone ==
  ASSUME NEW P, NEW key, Keyed(P, key), NEW p \in P, NEW q \in P, Less(key[p], key[q])
  PROVE  Before(P, key, p) < Before(P, key, q)
<1> DEFINE B == Below(P, key, p)
           C == Below(P, key, q)
<1>1. /\ IsFiniteSet(B) /\ Before(P, key, p) = Cardinality(B) /\ Before(P, key, p) \in Nat
      /\ IsFiniteSet(C) /\ Before(P, key, q) = Cardinality(C) /\ Before(P, key, q) \in Nat
  BY BeforeType
<1>2. B \in SUBSET C /\ p \in C /\ p \notin B
  <2>1. \A r \in P : key[r] \in Key
    BY DEF Keyed
  <2> QED BY <2>1, LessIsTotal DEF Below
<1>3. Cardinality(B) <= Cardinality(C) /\ Cardinality(B) # Cardinality(C)
  BY <1>1, <1>2, FS_Subset
<1> QED BY <1>1, <1>3

\* No two elements have as many before them.
LEMMA BeforeInjective ==
  ASSUME NEW P, NEW key, Keyed(P, key), NEW p \in P, NEW q \in P,
         Before(P, key, p) = Before(P, key, q)
  PROVE  p = q
<1>1. key[p] \in Key /\ key[q] \in Key
  BY DEF Keyed
<1>2. ~Less(key[p], key[q]) /\ ~Less(key[q], key[p])
  <2>1. Before(P, key, p) \in Nat /\ Before(P, key, q) \in Nat
    BY BeforeType
  <2>2. Less(key[p], key[q]) => Before(P, key, p) < Before(P, key, q)
    BY BeforeMonotone
  <2>3. Less(key[q], key[p]) => Before(P, key, q) < Before(P, key, p)
    BY BeforeMonotone
  <2> QED BY <2>1, <2>2, <2>3
<1>3. key[p] = key[q]
  BY <1>1, <1>2, LessIsTotal
<1> QED BY <1>3 DEF Keyed

\* Every position of the list has an element.
LEMMA BeforeOnto ==
  ASSUME NEW P, NEW key, Keyed(P, key), NEW n \in 1 .. Cardinality(P)
  PROVE  \E p \in P : Before(P, key, p) = n - 1
<1> DEFINE N == Cardinality(P)
           f == [p \in P |-> Before(P, key, p) + 1]
<1>1. IsFiniteSet(P) /\ N \in Nat
  BY FS_CardinalityType DEF Keyed
<1>2. IsFiniteSet(1 .. N) /\ Cardinality(1 .. N) = N
  BY <1>1, FS_Interval
<1>3. f \in [P -> 1 .. N]
  BY BeforeType
<1>4. \A p, q \in P : f[p] = f[q] => p = q
  <2> SUFFICES ASSUME NEW p \in P, NEW q \in P, f[p] = f[q] PROVE p = q
    OBVIOUS
  <2>1. Before(P, key, p) \in Nat /\ Before(P, key, q) \in Nat
    BY BeforeType
  <2>2. Before(P, key, p) = Before(P, key, q)
    BY <2>1
  <2> QED BY <2>2, BeforeInjective
<1>5. f \in Injection(P, 1 .. N)
  BY <1>3, <1>4 DEF Injection, IsInjective
<1>6. f \in Surjection(P, 1 .. N)
  BY <1>2, <1>5, FS_Injection
<1>7. \E p \in P : f[p] = n
  BY <1>6 DEF Surjection
<1>8. \A p \in P : Before(P, key, p) \in Nat
  BY BeforeType
<1> QED BY <1>7, <1>8

\* The list has every element at one place, the smaller keys first.
THEOREM ListingLists ==
  ASSUME NEW P, NEW key, Keyed(P, key)
  PROVE  LET L == Listing(P, key)
             N == Cardinality(P)
         IN  /\ N \in Nat
             /\ L \in [1 .. N -> P]
             /\ \A p \in P : \E n \in 1 .. N : L[n] = p
             /\ \A m, n \in 1 .. N : m < n => Less(key[L[m]], key[L[n]])
             /\ \A m, n \in 1 .. N : L[m] = L[n] => m = n
             /\ \A n \in 1 .. N : Before(P, key, L[n]) = n - 1
<1> DEFINE L == Listing(P, key)
           N == Cardinality(P)
<1>0. N \in Nat
  BY FS_CardinalityType DEF Keyed
<1>1. \A n \in 1 .. N : L[n] \in P /\ Before(P, key, L[n]) = n - 1
  BY BeforeOnto DEF Listing
<1>2. L \in [1 .. N -> P]
  BY <1>1 DEF Listing
<1>3. \A p \in P : \E n \in 1 .. N : L[n] = p
  <2> SUFFICES ASSUME NEW p \in P PROVE \E n \in 1 .. N : L[n] = p
    OBVIOUS
  <2> DEFINE n == Before(P, key, p) + 1
  <2>1. n \in 1 .. N /\ Before(P, key, p) \in Nat
    BY BeforeType
  <2>2. L[n] \in P /\ Before(P, key, L[n]) = n - 1
    BY <1>1, <2>1
  <2>3. L[n] = p
    BY <2>1, <2>2, BeforeInjective
  <2> QED BY <2>1, <2>3
<1>4. \A m, n \in 1 .. N : L[m] = L[n] => m = n
  BY <1>0, <1>1
<1>5. \A m, n \in 1 .. N : m < n => Less(key[L[m]], key[L[n]])
  <2> SUFFICES ASSUME NEW m \in 1 .. N, NEW n \in 1 .. N, m < n
               PROVE  Less(key[L[m]], key[L[n]])
    OBVIOUS
  <2>1. L[m] \in P /\ L[n] \in P /\ key[L[m]] \in Key /\ key[L[n]] \in Key
    BY <1>1 DEF Keyed
  <2>2. ~Less(key[L[n]], key[L[m]])
    <3>1. Less(key[L[n]], key[L[m]]) => Before(P, key, L[n]) < Before(P, key, L[m])
      BY <2>1, BeforeMonotone
    <3> QED BY <3>1, <1>0, <1>1
  <2>3. key[L[m]] # key[L[n]]
    BY <1>0, <1>4, <2>1 DEF Keyed
  <2> QED BY <2>1, <2>2, <2>3, LessIsTotal
<1> QED BY <1>0, <1>1, <1>2, <1>3, <1>4, <1>5

\* A listing is a bijection of places to the elements listed.
LEMMA ListingIsBijection ==
  ASSUME NEW P, NEW key, Keyed(P, key)
  PROVE  Listing(P, key) \in Bijection(1 .. Cardinality(P), P)
<1> DEFINE L == Listing(P, key)
           N == Cardinality(P)
<1>1. /\ L \in [1 .. N -> P]
      /\ \A p \in P : \E n \in 1 .. N : L[n] = p
      /\ \A m, n \in 1 .. N : L[m] = L[n] => m = n
  BY ListingLists
<1> HIDE DEF L, N
<1>2. L \in Bijection(1 .. N, P)
  BY <1>1 DEF Bijection, Injection, Surjection, IsInjective
<1> QED BY <1>2 DEF L, N

----------------------------------------------------------------------------
(* Lists: sequences, of whatever.                                          *)

\* A list is a function on 1 to its length.
LEMMA ListDomain ==
  ASSUME NEW s, IsList(s)
  PROVE  Len(s) \in Nat /\ DOMAIN s = 1 .. Len(s) /\ s = [i \in 1 .. Len(s) |-> s[i]]
BY DEF IsList

\* What is a function on 1 to some number is a list of that length.
LEMMA ListIntro ==
  ASSUME NEW n \in Nat, NEW s, s = [i \in 1 .. n |-> s[i]]
  PROVE  IsList(s) /\ Len(s) = n /\ DOMAIN s = 1 .. n
<1>1. DOMAIN s = 1 .. n
  OBVIOUS
<1>2. \A i \in 1 .. n : s[i] \in Range(s)
  BY <1>1 DEF Range
<1>3. s \in [1 .. n -> Range(s)]
  BY <1>2
<1>4. s \in Seq(Range(s))
  BY <1>3
<1> QED BY <1>1, <1>4 DEF IsList, Range

\* A list has as many indices as its length.
LEMMA ListFinite ==
  ASSUME NEW s, IsList(s)
  PROVE  IsFiniteSet(DOMAIN s) /\ Cardinality(DOMAIN s) = Len(s)
<1>1. DOMAIN s = 1 .. Len(s) /\ Len(s) \in Nat
  BY ListDomain
<1>2. /\ IsFiniteSet(1 .. Len(s))
      /\ Cardinality(1 .. Len(s)) = IF 1 > Len(s) THEN 0 ELSE Len(s) - 1 + 1
  BY <1>1, FS_Interval
<1> QED BY <1>1, <1>2

\* Two lists joined have the elements of both.
LEMMA ListJoin ==
  ASSUME NEW s, NEW t, IsList(s), IsList(t)
  PROVE  /\ IsList(s \o t)
         /\ \A i \in DOMAIN (s \o t) : \/ \E j \in DOMAIN s : (s \o t)[i] = s[j]
                                       \/ \E j \in DOMAIN t : (s \o t)[i] = t[j]
         /\ Range(s \o t) = Range(s) \cup Range(t)
<1> DEFINE S == Range(s) \cup Range(t)
<1>1. s \in Seq(S) /\ t \in Seq(S)
  <2>1. s \in [1 .. Len(s) -> S] /\ t \in [1 .. Len(t) -> S] /\ Len(s) \in Nat /\ Len(t) \in Nat
    BY DEF IsList, Range
  <2> QED BY <2>1
<1>2. /\ s \o t \in Seq(S) /\ Len(s) \in Nat /\ Len(t) \in Nat
      /\ Len(s \o t) = Len(s) + Len(t)
      /\ \A i \in 1 .. Len(s) + Len(t) :
           (s \o t)[i] = IF i <= Len(s) THEN s[i] ELSE t[i - Len(s)]
  BY <1>1
<1>3. DOMAIN (s \o t) = 1 .. Len(s) + Len(t) /\ DOMAIN s = 1 .. Len(s) /\ DOMAIN t = 1 .. Len(t)
  BY <1>1, <1>2
<1>4. s \o t = [i \in 1 .. Len(s) + Len(t) |-> (s \o t)[i]]
  <2> DEFINE u == s \o t
  <2>1. u \in Seq(S) /\ Len(u) = Len(s) + Len(t)
    BY <1>2
  <2> HIDE DEF u
  <2>2. u = [i \in 1 .. Len(u) |-> u[i]]
    BY <2>1
  <2> QED BY <2>1, <2>2 DEF u
<1>5. IsList(s \o t)
  BY <1>2, <1>4, ListIntro
<1>6. \A i \in DOMAIN (s \o t) : \/ \E j \in DOMAIN s : (s \o t)[i] = s[j]
                                 \/ \E j \in DOMAIN t : (s \o t)[i] = t[j]
  <2> SUFFICES ASSUME NEW i \in 1 .. Len(s) + Len(t)
               PROVE  \/ \E j \in DOMAIN s : (s \o t)[i] = s[j]
                      \/ \E j \in DOMAIN t : (s \o t)[i] = t[j]
    BY <1>3
  <2>1. CASE i <= Len(s)
    BY <2>1, <1>2, <1>3
  <2>2. CASE ~(i <= Len(s))
    <3>1. i - Len(s) \in DOMAIN t /\ (s \o t)[i] = t[i - Len(s)]
      BY <2>2, <1>2, <1>3
    <3> QED BY <3>1
  <2> QED BY <2>1, <2>2
<1>7. \A j \in DOMAIN s : \E i \in DOMAIN (s \o t) : (s \o t)[i] = s[j]
  BY <1>2, <1>3
<1>8. \A j \in DOMAIN t : \E i \in DOMAIN (s \o t) : (s \o t)[i] = t[j]
  <2> SUFFICES ASSUME NEW j \in DOMAIN t PROVE \E i \in DOMAIN (s \o t) : (s \o t)[i] = t[j]
    OBVIOUS
  <2>1. Len(s) + j \in DOMAIN (s \o t) /\ (s \o t)[Len(s) + j] = t[j]
    BY <1>2, <1>3
  <2> QED BY <2>1
<1>9. Range(s \o t) = Range(s) \cup Range(t)
  BY <1>6, <1>7, <1>8 DEF Range
<1> QED BY <1>5, <1>6, <1>9

----------------------------------------------------------------------------
(* Filters.                                                                *)

\* What is kept are the chosen elements, as they came.
THEOREM KeptKeeps ==
  ASSUME NEW s, IsList(s), NEW I \in SUBSET DOMAIN s
  PROVE  /\ IsList(Kept(s, I))
         /\ Len(Kept(s, I)) = Cardinality(I)
         /\ \A n \in DOMAIN Kept(s, I) : \E i \in I : Kept(s, I)[n] = s[i]
         /\ \A i \in I : \E n \in DOMAIN Kept(s, I) : Kept(s, I)[n] = s[i]
<1> DEFINE key == [i \in I |-> <<i, 0, 0>>]
           L == Listing(I, key)
           N == Cardinality(I)
<1>1. DOMAIN s \subseteq Int /\ IsFiniteSet(DOMAIN s)
  BY ListDomain, ListFinite
<1>2. IsFiniteSet(I)
  BY <1>1, FS_Subset
<1>3. Keyed(I, key)
  BY <1>1, <1>2 DEF Keyed, Key
<1> HIDE DEF key
<1>4. /\ N \in Nat /\ L \in [1 .. N -> I]
      /\ \A i \in I : \E n \in 1 .. N : L[n] = i
  BY <1>3, ListingLists
<1>5. Kept(s, I) = [n \in 1 .. N |-> s[L[n]]]
  BY DEF Kept, key
<1> HIDE DEF L
<1>6. IsList(Kept(s, I)) /\ Len(Kept(s, I)) = N /\ DOMAIN Kept(s, I) = 1 .. N
  BY <1>4, <1>5, ListIntro
<1> QED BY <1>4, <1>5, <1>6

----------------------------------------------------------------------------
(* Concatenation.                                                          *)

\* The places of the elements of lists.
LEMMA PlacesAre ==
  ASSUME NEW ss, IsList(ss), \A i \in DOMAIN ss : IsList(ss[i])
  PROVE  /\ IsFiniteSet(Places(ss))
         /\ \A p \in Places(ss) : /\ p = <<p[1], p[2]>>
                                  /\ p[1] \in DOMAIN ss /\ p[1] \in Int
                                  /\ p[2] \in DOMAIN ss[p[1]] /\ p[2] \in Int
         /\ \A i \in DOMAIN ss : \A j \in DOMAIN ss[i] : <<i, j>> \in Places(ss)
<1> DEFINE P == Places(ss)
<1>1. DOMAIN ss \subseteq Int /\ IsFiniteSet(DOMAIN ss)
  BY ListDomain, ListFinite
<1>2. \A i \in DOMAIN ss : DOMAIN ss[i] \subseteq Int /\ IsFiniteSet(DOMAIN ss[i])
  BY ListDomain, ListFinite
<1>3. P = UNION {{i} \X DOMAIN ss[i] : i \in DOMAIN ss}
  BY DEF Places
<1>4. \A p \in P : /\ p = <<p[1], p[2]>> /\ p[1] \in DOMAIN ss /\ p[2] \in DOMAIN ss[p[1]]
                   /\ p[1] \in Int /\ p[2] \in Int
  BY <1>1, <1>2, <1>3
<1>5. \A i \in DOMAIN ss : \A j \in DOMAIN ss[i] : <<i, j>> \in P
  BY <1>3
<1>6. IsFiniteSet(P)
  <2> DEFINE Q == [i \in DOMAIN ss |-> {i} \X DOMAIN ss[i]]
  <2>1. \A i \in DOMAIN ss : IsFiniteSet({i} \X DOMAIN ss[i])
    BY <1>2, FS_Singleton, FS_Product
  <2>2. Q \in Surjection(DOMAIN ss, Range(Q))
    BY DEF Surjection, Range
  <2>3. IsFiniteSet(Range(Q))
    BY <2>2, <1>1, FS_Surjection
  <2>4. \A T \in Range(Q) : IsFiniteSet(T)
    BY <2>1 DEF Range
  <2>5. IsFiniteSet(UNION Range(Q))
    BY <2>3, <2>4, FS_UNION
  <2>6. P = UNION Range(Q)
    BY <1>3 DEF Range
  <2> QED BY <2>5, <2>6
<1> QED BY <1>4, <1>5, <1>6

\* A concatenation has each element of the parts at one place.
LEMMA ConcatenatedPlaces ==
  ASSUME NEW ss, IsList(ss), \A i \in DOMAIN ss : IsList(ss[i])
  PROVE  \E L \in Bijection(DOMAIN Concatenated(ss), Places(ss)) :
           \A n \in DOMAIN Concatenated(ss) : Concatenated(ss)[n] = ss[L[n][1]][L[n][2]]
<1> DEFINE P == Places(ss)
           key == [p \in P |-> <<p[1], p[2], 0>>]
           L == Listing(P, key)
           N == Cardinality(P)
<1>1. \A p \in P : p = <<p[1], p[2]>> /\ p[1] \in Int /\ p[2] \in Int
  BY PlacesAre
<1>2. Keyed(P, key)
  <2>1. \A p \in P : key[p] = <<p[1], p[2], 0>> /\ key[p] \in Key
    BY <1>1 DEF Key
  <2>2. \A p, q \in P : key[p] = key[q] => p = q
    BY <1>1, <2>1
  <2> QED BY <2>1, <2>2, PlacesAre DEF Keyed
<1>3. Concatenated(ss) = [n \in 1 .. N |-> ss[L[n][1]][L[n][2]]]
  BY DEF Concatenated
<1> HIDE DEF key
<1>4. L \in Bijection(1 .. N, P)
  BY <1>2, ListingIsBijection
<1> HIDE DEF L, N, P
<1>5. L \in Bijection(DOMAIN Concatenated(ss), P)
      /\ \A n \in DOMAIN Concatenated(ss) : Concatenated(ss)[n] = ss[L[n][1]][L[n][2]]
  BY <1>3, <1>4
<1> QED BY <1>5 DEF P

\* The elements of the parts, and no others.
THEOREM ConcatenatedHasAll ==
  ASSUME NEW ss, IsList(ss), \A i \in DOMAIN ss : IsList(ss[i])
  PROVE  /\ IsList(Concatenated(ss))
         /\ \A n \in DOMAIN Concatenated(ss) :
              \E i \in DOMAIN ss : \E j \in DOMAIN ss[i] : Concatenated(ss)[n] = ss[i][j]
         /\ \A i \in DOMAIN ss : \A j \in DOMAIN ss[i] :
              \E n \in DOMAIN Concatenated(ss) : Concatenated(ss)[n] = ss[i][j]
<1> DEFINE c == Concatenated(ss)
           N == Cardinality(Places(ss))
<1>1. PICK L \in Bijection(DOMAIN c, Places(ss)) : \A n \in DOMAIN c : c[n] = ss[L[n][1]][L[n][2]]
  BY ConcatenatedPlaces
<1>2. /\ L \in [DOMAIN c -> Places(ss)]
      /\ \A p \in Places(ss) : \E n \in DOMAIN c : L[n] = p
  BY DEF Bijection, Injection, Surjection
<1>3. IsList(c)
  <2>1. N \in Nat
    BY PlacesAre, FS_CardinalityType
  <2>2. DOMAIN c = 1 .. N /\ c = [n \in DOMAIN c |-> c[n]]
    BY DEF Concatenated
  <2> HIDE DEF c
  <2> QED BY <2>1, <2>2, ListIntro
<1> HIDE DEF c
<1>4. ASSUME NEW n \in DOMAIN c PROVE \E i \in DOMAIN ss : \E j \in DOMAIN ss[i] : c[n] = ss[i][j]
  <2>1. L[n][1] \in DOMAIN ss /\ L[n][2] \in DOMAIN ss[L[n][1]]
    BY <1>2, PlacesAre
  <2> QED BY <1>1, <2>1
<1>5. ASSUME NEW i \in DOMAIN ss, NEW j \in DOMAIN ss[i] PROVE \E n \in DOMAIN c : c[n] = ss[i][j]
  <2>1. <<i, j>> \in Places(ss)
    BY PlacesAre
  <2>2. PICK n \in DOMAIN c : L[n] = <<i, j>>
    BY <1>2, <2>1
  <2> QED BY <1>1, <2>2
<1> QED BY <1>3, <1>4, <1>5 DEF c

----------------------------------------------------------------------------
(* Sorting.                                                                *)

SortKeyOf(s, major, minor) == [i \in DOMAIN s |-> <<major[i], minor[i], i>>]

\* Where the n-th of the sorted elements stood.
Origin(s, major, minor) == Listing(DOMAIN s, SortKeyOf(s, major, minor))

\* The sorted list is a rearrangement of the list, by major and then minor.
THEOREM InOrderSorts ==
  ASSUME NEW s, IsList(s), NEW major \in [DOMAIN s -> Int], NEW minor \in [DOMAIN s -> Int]
  PROVE  LET O == Origin(s, major, minor)
         IN  /\ O \in Bijection(DOMAIN s, DOMAIN s)
             /\ InOrder(s, major, minor) = [n \in DOMAIN s |-> s[O[n]]]
             /\ \A m, n \in DOMAIN s : m < n =>
                  Less(<<major[O[m]], minor[O[m]], O[m]>>, <<major[O[n]], minor[O[n]], O[n]>>)
<1> DEFINE D == DOMAIN s
           key == SortKeyOf(s, major, minor)
           O == Origin(s, major, minor)
<1>1. D = 1 .. Len(s) /\ Len(s) \in Nat /\ IsFiniteSet(D) /\ Cardinality(D) = Len(s)
  BY ListDomain, ListFinite
<1>2. \A i \in D : key[i] = <<major[i], minor[i], i>> /\ key[i] \in Key
  BY <1>1 DEF SortKeyOf, Key
<1>3. Keyed(D, key)
  <2>1. key \in [D -> Key]
    BY <1>2 DEF SortKeyOf
  <2>2. \A p, q \in D : key[p] = key[q] => p = q
    BY <1>2
  <2> QED BY <1>1, <2>1, <2>2 DEF Keyed
<1>4. /\ O \in [1 .. Len(s) -> D]
      /\ \A p \in D : \E n \in 1 .. Len(s) : O[n] = p
      /\ \A m, n \in 1 .. Len(s) : m < n => Less(key[O[m]], key[O[n]])
      /\ \A m, n \in 1 .. Len(s) : O[m] = O[n] => m = n
  <2>1. O = Listing(D, key)
    BY DEF Origin
  <2> HIDE DEF key, O
  <2>2. /\ Listing(D, key) \in [1 .. Cardinality(D) -> D]
        /\ \A p \in D : \E n \in 1 .. Cardinality(D) : Listing(D, key)[n] = p
        /\ \A m, n \in 1 .. Cardinality(D) : m < n => Less(key[Listing(D, key)[m]], key[Listing(D, key)[n]])
        /\ \A m, n \in 1 .. Cardinality(D) : Listing(D, key)[m] = Listing(D, key)[n] => m = n
    BY <1>3, ListingLists
  <2> QED BY <1>1, <2>1, <2>2
<1>5. InOrder(s, major, minor) = [n \in D |-> s[O[n]]]
  BY DEF InOrder, Origin, SortKeyOf
<1> HIDE DEF O, key
<1>6. O \in Bijection(D, D)
  BY <1>1, <1>4 DEF Bijection, Injection, Surjection, IsInjective
<1>7. ASSUME NEW m \in D, NEW n \in D, m < n
      PROVE  Less(<<major[O[m]], minor[O[m]], O[m]>>, <<major[O[n]], minor[O[n]], O[n]>>)
  <2>1. O[m] \in D /\ O[n] \in D /\ Less(key[O[m]], key[O[n]])
    BY <1>1, <1>4, <1>7
  <2> QED BY <1>2, <2>1
<1> QED BY <1>5, <1>6, <1>7 DEF O

\* What is sorted already stays as it is.
THEOREM InOrderKeepsSorted ==
  ASSUME NEW s, IsList(s), NEW major \in [DOMAIN s -> Int], NEW minor \in [DOMAIN s -> Int],
         \A m, n \in DOMAIN s : m < n =>
           Less(<<major[m], minor[m], m>>, <<major[n], minor[n], n>>)
  PROVE  InOrder(s, major, minor) = s
<1> DEFINE D == DOMAIN s
           key == SortKeyOf(s, major, minor)
           O == Origin(s, major, minor)
<1>1. D = 1 .. Len(s) /\ Len(s) \in Nat /\ IsFiniteSet(D) /\ Cardinality(D) = Len(s)
  BY ListDomain, ListFinite
<1>2. \A i \in D : key[i] = <<major[i], minor[i], i>> /\ key[i] \in Key
  BY <1>1 DEF SortKeyOf, Key
<1>3. Keyed(D, key)
  <2>1. key \in [D -> Key]
    BY <1>2 DEF SortKeyOf
  <2>2. \A p, q \in D : key[p] = key[q] => p = q
    BY <1>2
  <2> QED BY <1>1, <2>1, <2>2 DEF Keyed
<1>4. \A n \in D : Before(D, key, n) = n - 1
  <2> SUFFICES ASSUME NEW n \in D PROVE Before(D, key, n) = n - 1
    OBVIOUS
  <2>1. \A m \in D : Less(key[m], key[n]) <=> m < n
    <3> SUFFICES ASSUME NEW m \in D PROVE Less(key[m], key[n]) <=> m < n
      OBVIOUS
    <3>1. m < n => Less(key[m], key[n])
      BY <1>2
    <3>2. n < m => Less(key[n], key[m])
      BY <1>2
    <3>3. m = n => ~Less(key[m], key[n])
      BY <1>2, LessIsTotal
    <3>4. Less(key[n], key[m]) => ~Less(key[m], key[n])
      BY <1>2, LessIsTotal
    <3> QED BY <1>1, <3>1, <3>2, <3>3, <3>4
  <2>2. {m \in D : Less(key[m], key[n])} = 1 .. n - 1
    BY <1>1, <2>1
  <2>3. Cardinality(1 .. n - 1) = n - 1
    <3> DEFINE k == n - 1
    <3>1. k \in Int /\ k >= 0
      BY <1>1
    <3> HIDE DEF k
    <3>2. Cardinality(1 .. k) = IF 1 > k THEN 0 ELSE k - 1 + 1
      BY <3>1, FS_Interval
    <3>3. Cardinality(1 .. k) = k
      BY <3>1, <3>2
    <3> QED BY <3>3 DEF k
  <2> QED BY <2>2, <2>3 DEF Before
<1>5. /\ O \in [1 .. Len(s) -> D]
      /\ \A n \in 1 .. Len(s) : Before(D, key, O[n]) = n - 1
  BY <1>1, <1>3, ListingLists DEF Origin
<1>6. \A n \in D : O[n] = n
  BY <1>1, <1>4, <1>5
<1>7. InOrder(s, major, minor) = [n \in D |-> s[O[n]]]
  BY InOrderSorts
<1>8. s = [n \in D |-> s[n]]
  BY <1>1, ListDomain
<1> HIDE DEF O
<1> QED BY <1>6, <1>7, <1>8

\* How many elements of s are in X.
CountIn(s, X) == Cardinality({i \in DOMAIN s : s[i] \in X})

\* Sorting loses and adds nothing: of every kind there are as many elements as before.
THEOREM InOrderPermutes ==
  ASSUME NEW s, IsList(s), NEW major \in [DOMAIN s -> Int], NEW minor \in [DOMAIN s -> Int]
  PROVE  /\ IsList(InOrder(s, major, minor))
         /\ DOMAIN InOrder(s, major, minor) = DOMAIN s
         /\ Range(InOrder(s, major, minor)) = Range(s)
         /\ \A X : CountIn(InOrder(s, major, minor), X) = CountIn(s, X)
<1> DEFINE D == DOMAIN s
           O == Origin(s, major, minor)
           T == InOrder(s, major, minor)
<1>1. D = 1 .. Len(s) /\ Len(s) \in Nat /\ IsFiniteSet(D)
  BY ListDomain, ListFinite
<1>2. O \in Bijection(D, D) /\ T = [n \in D |-> s[O[n]]]
  BY InOrderSorts
<1> HIDE DEF O, T
<1>3. IsList(T) /\ DOMAIN T = D
  BY <1>1, <1>2, ListIntro
<1>4. /\ \A n \in D : O[n] \in D
      /\ \A i \in D : \E n \in D : O[n] = i
      /\ \A m, n \in D : O[m] = O[n] => m = n
  BY <1>2 DEF Bijection, Injection, Surjection, IsInjective
<1>5. Range(T) = Range(s)
  <2>1. \A n \in D : T[n] = s[O[n]]
    BY <1>2
  <2>2. \A n \in D : \E i \in D : T[n] = s[i]
    BY <1>4, <2>1
  <2>3. ASSUME NEW i \in D PROVE \E n \in D : T[n] = s[i]
    <3>1. PICK n \in D : O[n] = i
      BY <1>4
    <3> QED BY <2>1, <3>1
  <2>4. Range(T) = {T[n] : n \in D} /\ Range(s) = {s[i] : i \in D}
    BY <1>3 DEF Range
  <2> HIDE DEF D
  <2> QED BY <2>2, <2>3, <2>4
<1>6. ASSUME NEW X
      PROVE  Cardinality({i \in D : T[i] \in X}) = Cardinality({i \in D : s[i] \in X})
  <2> DEFINE A == {i \in D : T[i] \in X}
             B == {i \in D : s[i] \in X}
             f == [i \in A |-> O[i]]
  <2>1. IsFiniteSet(A) /\ IsFiniteSet(B)
    BY <1>1, FS_Subset
  <2>2. \A i \in D : T[i] = s[O[i]]
    BY <1>2
  <2>3. \A i \in A : f[i] = O[i] /\ O[i] \in B
    BY <1>4, <2>2
  <2>4. \A j \in B : \E i \in A : f[i] = j
    <3> SUFFICES ASSUME NEW j \in B PROVE \E i \in A : f[i] = j
      OBVIOUS
    <3>1. PICK i \in D : O[i] = j
      BY <1>4
    <3>2. T[i] = s[j] /\ s[j] \in X
      BY <2>2, <3>1
    <3>3. i \in A
      BY <3>2
    <3>4. f[i] = O[i]
      BY <3>3
    <3> QED BY <3>1, <3>3, <3>4
  <2>5. \A i, j \in A : f[i] = f[j] => i = j
    BY <1>4, <2>3
  <2>6. f \in Bijection(A, B)
    BY <2>3, <2>4, <2>5 DEF Bijection, Injection, Surjection, IsInjective
  <2>7. ExistsBijection(A, B)
    BY <2>6 DEF ExistsBijection
  <2> QED BY <2>1, <2>7, FS_Bijection
<1>7. \A X : CountIn(T, X) = CountIn(s, X)
  BY <1>3, <1>6 DEF CountIn
<1> QED BY <1>3, <1>5, <1>7 DEF T

\* A finite set of integers has a least one: the first of its list.
LEMMA LeastExists ==
  ASSUME NEW S, IsFiniteSet(S), S \subseteq Int, S # {}
  PROVE  \E m \in S : \A x \in S : m <= x
<1> DEFINE key == [x \in S |-> <<x, 0, 0>>]
           N == Cardinality(S)
           L == Listing(S, key)
<1>1. \A x \in S : key[x] = <<x, 0, 0>> /\ key[x] \in Key
  BY DEF Key
<1>2. Keyed(S, key)
  <2>1. key \in [S -> Key]
    BY <1>1
  <2>2. \A p, q \in S : key[p] = key[q] => p = q
    BY <1>1
  <2> QED BY <2>1, <2>2 DEF Keyed
<1> HIDE DEF key
<1>3. /\ N \in Nat /\ L \in [1 .. N -> S]
      /\ \A x \in S : \E n \in 1 .. N : L[n] = x
      /\ \A m, n \in 1 .. N : m < n => Less(key[L[m]], key[L[n]])
  BY <1>2, ListingLists
<1>4. 1 \in 1 .. N
  <2>1. N # 0
    BY FS_EmptySet
  <2> QED BY <1>3, <2>1
<1> HIDE DEF L
<1>5. ASSUME NEW x \in S PROVE L[1] <= x
  <2>1. PICK n \in 1 .. N : L[n] = x
    BY <1>3
  <2>2. L[1] \in S
    BY <1>3, <1>4
  <2>3. CASE n = 1
    BY <2>1, <2>2, <2>3
  <2>4. CASE n # 1
    <3>1. Less(key[L[1]], key[x])
      BY <1>3, <1>4, <2>1, <2>4
    <3>2. key[L[1]] = <<L[1], 0, 0>> /\ key[x] = <<x, 0, 0>>
      BY <1>1, <2>2
    <3>3. key[L[1]][1] = L[1] /\ key[x][1] = x
      BY <3>2
    <3>4. key[L[1]][1] < key[x][1] \/ key[L[1]][1] = key[x][1]
      BY <3>1 DEF Less
    <3>5. L[1] < x \/ L[1] = x
      BY <3>3, <3>4
    <3>6. L[1] \in Int /\ x \in Int
      BY <2>2
    <3> HIDE DEF N
    <3> QED BY <3>5, <3>6
  <2> QED BY <2>3, <2>4
<1> QED BY <1>3, <1>4, <1>5

----------------------------------------------------------------------------
(* Counting.                                                               *)

\* What is a list of the same elements, each once and the smaller keys first, is the
\* listing.
LEMMA ListingIsTheOnlyOne ==
  ASSUME NEW P, NEW key, Keyed(P, key), NEW m \in Nat, NEW s \in [1 .. m -> P],
         \A p \in P : \E n \in 1 .. m : s[n] = p,
         \A i, j \in 1 .. m : i < j => Less(key[s[i]], key[s[j]])
  PROVE  m = Cardinality(P) /\ s = Listing(P, key)
<1> DEFINE L == Listing(P, key)
<1>1. \A p \in P : key[p] \in Key
  BY DEF Keyed
<1>2. \A i, j \in 1 .. m : Less(key[s[i]], key[s[j]]) <=> i < j
  <2> SUFFICES ASSUME NEW i \in 1 .. m, NEW j \in 1 .. m
               PROVE  Less(key[s[i]], key[s[j]]) <=> i < j
    OBVIOUS
  <2>1. key[s[i]] \in Key /\ key[s[j]] \in Key
    BY <1>1
  <2>2. /\ i < j => Less(key[s[i]], key[s[j]])
        /\ j < i => Less(key[s[j]], key[s[i]])
    OBVIOUS
  <2>3. i = j => ~Less(key[s[i]], key[s[j]])
    BY <2>1, LessIsTotal
  <2>4. Less(key[s[j]], key[s[i]]) => ~Less(key[s[i]], key[s[j]])
    BY <2>1, LessIsTotal
  <2> QED BY <2>2, <2>3, <2>4
<1>3. \A i, j \in 1 .. m : s[i] = s[j] => i = j
  <2> SUFFICES ASSUME NEW i \in 1 .. m, NEW j \in 1 .. m, s[i] = s[j] PROVE i = j
    OBVIOUS
  <2>1. ~(i < j) /\ ~(j < i)
    BY <1>2
  <2> QED BY <2>1
<1>4. s \in Bijection(1 .. m, P)
  BY <1>3 DEF Bijection, Injection, Surjection, IsInjective
<1>5. m = Cardinality(P)
  <2>1. IsFiniteSet(1 .. m) /\ Cardinality(1 .. m) = m
    <3>1. Cardinality(1 .. m) = IF 1 > m THEN 0 ELSE m - 1 + 1
      BY FS_Interval
    <3> QED BY <3>1, FS_Interval
  <2>2. ExistsBijection(1 .. m, P)
    BY <1>4 DEF ExistsBijection
  <2> QED BY <2>1, <2>2, FS_Bijection
<1>6. ASSUME NEW n \in 1 .. m PROVE Before(P, key, s[n]) = n - 1
  <2> DEFINE B == {q \in P : Less(key[q], key[s[n]])}
             f == [i \in 1 .. n - 1 |-> s[i]]
  <2>1. \A i \in 1 .. n - 1 : i \in 1 .. m /\ s[i] \in B /\ f[i] = s[i]
    BY <1>2
  <2>2. ASSUME NEW q \in B PROVE \E i \in 1 .. n - 1 : f[i] = q
    <3>1. PICK i \in 1 .. m : s[i] = q
      OBVIOUS
    <3>2. i < n
      BY <1>2, <3>1
    <3>3. i \in 1 .. n - 1
      BY <3>2
    <3> QED BY <3>1, <3>3
  <2>3. f \in Bijection(1 .. n - 1, B)
    <3>1. f \in [1 .. n - 1 -> B]
      BY <2>1
    <3>2. \A i, j \in 1 .. n - 1 : f[i] = f[j] => i = j
      BY <1>3, <2>1
    <3> HIDE DEF f, B
    <3> QED BY <2>2, <3>1, <3>2 DEF Bijection, Injection, Surjection, IsInjective
  <2> DEFINE k == n - 1
  <2>4. k \in Int /\ k >= 0
    OBVIOUS
  <2>5. IsFiniteSet(1 .. k) /\ Cardinality(1 .. k) = k
    <3> HIDE DEF k
    <3>1. Cardinality(1 .. k) = IF 1 > k THEN 0 ELSE k - 1 + 1
      BY <2>4, FS_Interval
    <3> QED BY <2>4, <3>1, FS_Interval
  <2>6. ExistsBijection(1 .. k, B)
    BY <2>3 DEF ExistsBijection
  <2>7. Cardinality(B) = k
    BY <2>5, <2>6, FS_Bijection
  <2> QED BY <2>7 DEF Before
<1>7. /\ L \in [1 .. m -> P]
      /\ \A n \in 1 .. m : Before(P, key, L[n]) = n - 1
  BY <1>5, ListingLists
<1> HIDE DEF L
<1>8. \A n \in 1 .. m : s[n] = L[n]
  BY <1>6, <1>7, BeforeInjective
<1>9. s = L
  BY <1>7, <1>8
<1> QED BY <1>5, <1>9 DEF L

\* A bijection counts: as many lead to a part as the part has elements.
LEMMA CountAlong ==
  ASSUME NEW A, NEW B, IsFiniteSet(B), NEW f \in Bijection(A, B), NEW V \in SUBSET B
  PROVE  Cardinality({a \in A : f[a] \in V}) = Cardinality(V)
<1> DEFINE W == {a \in A : f[a] \in V}
           g == [a \in W |-> f[a]]
<1>1. /\ f \in [A -> B]
      /\ \A b \in B : \E a \in A : f[a] = b
      /\ \A a, c \in A : f[a] = f[c] => a = c
  BY DEF Bijection, Injection, Surjection, IsInjective
<1>2. \A a \in W : g[a] = f[a] /\ f[a] \in V
  OBVIOUS
<1>3. g \in [W -> V] /\ \A a, c \in W : g[a] = g[c] => a = c
  BY <1>1, <1>2
<1>4. ASSUME NEW b \in V PROVE \E a \in W : g[a] = b
  <2>1. PICK a \in A : f[a] = b
    BY <1>1
  <2>2. a \in W
    BY <2>1
  <2> QED BY <1>2, <2>1, <2>2
<1> HIDE DEF W, g
<1>5. g \in Bijection(W, V)
  BY <1>3, <1>4 DEF Bijection, Injection, Surjection, IsInjective
<1>6. IsFiniteSet(V)
  BY FS_Subset
<1>7. IsFiniteSet(W)
  <2>1. g \in Injection(W, V)
    BY <1>5 DEF Bijection
  <2> QED BY <1>6, <2>1, FS_Injection
<1>8. ExistsBijection(W, V)
  BY <1>5 DEF ExistsBijection
<1>9. Cardinality(W) = Cardinality(V)
  BY <1>7, <1>8, FS_Bijection
<1> QED BY <1>9 DEF W

\* What is kept are the chosen elements, each once.
LEMMA KeptPlaces ==
  ASSUME NEW s, IsList(s), NEW I \in SUBSET DOMAIN s
  PROVE  \E L \in Bijection(DOMAIN Kept(s, I), I) :
           \A n \in DOMAIN Kept(s, I) : Kept(s, I)[n] = s[L[n]]
<1> DEFINE key == [i \in I |-> <<i, 0, 0>>]
           L == Listing(I, key)
           N == Cardinality(I)
<1>1. \A i \in I : i \in Int
  BY ListDomain
<1>2. IsFiniteSet(I)
  BY ListFinite, FS_Subset
<1>3. Keyed(I, key)
  BY <1>1, <1>2 DEF Keyed, Key
<1> HIDE DEF key
<1>4. L \in Bijection(1 .. N, I)
  BY <1>3, ListingIsBijection
<1>5. Kept(s, I) = [n \in 1 .. N |-> s[L[n]]]
  BY DEF Kept, key
<1> HIDE DEF L, N
<1> QED BY <1>4, <1>5

\* Elements that only one part has are as many in the concatenation as in that part.
LEMMA CountInPart ==
  ASSUME NEW ss, IsList(ss), \A i \in DOMAIN ss : IsList(ss[i]),
         NEW i \in DOMAIN ss, NEW X,
         \A k \in DOMAIN ss \ {i} : \A j \in DOMAIN ss[k] : ss[k][j] \notin X
  PROVE  CountIn(Concatenated(ss), X) = CountIn(ss[i], X)
<1> DEFINE c == Concatenated(ss)
           P == Places(ss)
           V == {p \in P : ss[p[1]][p[2]] \in X}
           W == {j \in DOMAIN ss[i] : ss[i][j] \in X}
           g == [j \in W |-> <<i, j>>]
<1>1. PICK L \in Bijection(DOMAIN c, P) : \A n \in DOMAIN c : c[n] = ss[L[n][1]][L[n][2]]
  BY ConcatenatedPlaces
<1>2. /\ IsFiniteSet(P)
      /\ \A p \in P : p = <<p[1], p[2]>> /\ p[1] \in DOMAIN ss /\ p[2] \in DOMAIN ss[p[1]]
      /\ \A j \in DOMAIN ss[i] : <<i, j>> \in P
  BY PlacesAre
<1>3. L \in [DOMAIN c -> P]
  BY DEF Bijection, Injection
<1> HIDE DEF P, c
<1>4. Cardinality({n \in DOMAIN c : L[n] \in V}) = Cardinality(V)
  BY <1>2, CountAlong
<1>5. {n \in DOMAIN c : L[n] \in V} = {n \in DOMAIN c : c[n] \in X}
  BY <1>1, <1>3
<1>6. \A j \in W : g[j] = <<i, j>> /\ <<i, j>> \in V
  BY <1>2
<1>7. ASSUME NEW p \in V PROVE \E j \in W : g[j] = p
  <2>1. p = <<p[1], p[2]>> /\ p[1] \in DOMAIN ss /\ p[2] \in DOMAIN ss[p[1]] /\ ss[p[1]][p[2]] \in X
    BY <1>2
  <2>2. p[1] = i
    BY <2>1
  <2>3. p[2] \in W
    BY <2>1, <2>2
  <2> QED BY <1>6, <2>1, <2>2, <2>3
<1>8. \A j, k \in W : g[j] = g[k] => j = k
  BY <1>6
<1>9. g \in [W -> V]
  BY <1>6
<1> HIDE DEF W, V, g
<1>10. g \in Bijection(W, V)
  BY <1>7, <1>8, <1>9 DEF Bijection, Injection, Surjection, IsInjective
<1>11. IsFiniteSet(W)
  BY ListFinite, FS_Subset DEF W
<1>12. ExistsBijection(W, V)
  BY <1>10 DEF ExistsBijection
<1>13. Cardinality(W) = Cardinality(V)
  BY <1>11, <1>12, FS_Bijection
<1> QED BY <1>4, <1>5, <1>13 DEF CountIn, W, c

\* Two lists joined have as many elements of a kind as both together.
LEMMA JoinCounts ==
  ASSUME NEW s, NEW t, IsList(s), IsList(t), NEW X
  PROVE  /\ CountIn(s \o t, X) = CountIn(s, X) + CountIn(t, X)
         /\ CountIn(s, X) \in Nat /\ CountIn(t, X) \in Nat
<1> DEFINE u == s \o t
           S == Range(s) \cup Range(t)
           m == Len(s)
           A == {i \in DOMAIN s : s[i] \in X}
           B == {i \in DOMAIN t : t[i] \in X}
           C == {i \in m + 1 .. m + Len(t) : t[i - m] \in X}
           g == [i \in B |-> m + i]
<1>1. /\ s \in [1 .. Len(s) -> S] /\ t \in [1 .. Len(t) -> S] /\ Len(s) \in Nat /\ Len(t) \in Nat
      /\ DOMAIN s = 1 .. Len(s) /\ DOMAIN t = 1 .. Len(t)
  BY ListDomain DEF Range
<1> HIDE DEF S
<1>2. s \in Seq(S) /\ t \in Seq(S)
  BY <1>1
<1>3. /\ u \in Seq(S) /\ Len(u) = m + Len(t)
      /\ \A i \in 1 .. m + Len(t) : u[i] = IF i <= m THEN s[i] ELSE t[i - m]
  BY <1>2
<1> HIDE DEF u
<1>4. DOMAIN u = 1 .. m + Len(t)
  BY <1>3
<1>5. {i \in DOMAIN u : u[i] \in X} = A \cup C
  <2> SUFFICES ASSUME NEW i PROVE i \in DOMAIN u /\ u[i] \in X <=> i \in A \cup C
    OBVIOUS
  <2>1. CASE i \in 1 .. m
    BY <1>1, <1>3, <1>4, <2>1
  <2>2. CASE i \in m + 1 .. m + Len(t)
    BY <1>1, <1>3, <1>4, <2>2
  <2>3. CASE i \notin 1 .. m /\ i \notin m + 1 .. m + Len(t)
    BY <1>1, <1>4, <2>3
  <2> QED BY <2>1, <2>2, <2>3
<1>6. IsFiniteSet(A) /\ IsFiniteSet(B)
  BY ListFinite, FS_Subset
<1>7. /\ \A i \in B : g[i] = m + i /\ m + i \in C /\ i \in Int
      /\ \A i \in C : i - m \in B /\ m + (i - m) = i
  BY <1>1
<1>8. g \in [B -> C]
  BY <1>7
<1>9. \A i, j \in B : g[i] = g[j] => i = j
  BY <1>1, <1>7
<1>10. \A i \in C : \E j \in B : g[j] = i
  BY <1>7
<1>11. A \cap C = {}
  BY <1>1
<1>12. CountIn(u, X) = Cardinality(A \cup C) /\ CountIn(s, X) = Cardinality(A) /\ CountIn(t, X) = Cardinality(B)
  BY <1>5 DEF CountIn
<1> HIDE DEF A, B, C, g
<1>13. g \in Bijection(B, C)
  BY <1>8, <1>9, <1>10 DEF Bijection, Injection, Surjection, IsInjective
<1>14. ExistsBijection(B, C)
  BY <1>13 DEF ExistsBijection
<1>15. IsFiniteSet(C) /\ Cardinality(C) = Cardinality(B)
  BY <1>6, <1>14, FS_Bijection
<1>16. Cardinality(A) \in Nat /\ Cardinality(B) \in Nat /\ Cardinality(A \cap C) = 0
  BY <1>6, <1>11, FS_CardinalityType, FS_EmptySet
<1>17. Cardinality(A \cup C) = Cardinality(A) + Cardinality(B)
  <2>1. Cardinality(A \cup C) = Cardinality(A) + Cardinality(C) - Cardinality(A \cap C)
    BY <1>6, <1>15, FS_Union
  <2> QED BY <1>15, <1>16, <2>1
<1>18. CountIn(u, X) = CountIn(s, X) + CountIn(t, X) /\ CountIn(s, X) \in Nat /\ CountIn(t, X) \in Nat
  BY <1>12, <1>16, <1>17
<1> QED BY <1>18 DEF u
=============================================================================
