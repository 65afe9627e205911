---------------------------- MODULE ScannerProofs ----------------------------
(***************************************************************************)
(* For every repository, every include and exclude paths, and whatever     *)
(* ignore files say: whichever of the three searches runs, and wherever,   *)
(* no plain file is lost and no file comes out of discovery that was not   *)
(* meant, or twice.                                                        *)
(***************************************************************************)
EXTENDS Scanner, SequenceTheorems, FiniteSetTheorems, TLAPS

----------------------------------------------------------------------------
(* Paths.                                                                  *)

\* A sequence is a function on 1 to its length.
LEMMA SequenceDomain ==
  ASSUME NEW s, IsSequence(s)
  PROVE  Len(s) \in Nat /\ DOMAIN s = 1 .. Len(s)
BY DEF IsSequence

\* A function on 1 to some number is a sequence of that length.
LEMMA SequenceIntro ==
  ASSUME NEW n \in Nat, NEW s, s = [i \in 1 .. n |-> s[i]]
  PROVE  IsSequence(s) /\ Len(s) = n /\ DOMAIN s = 1 .. n
<1> DEFINE S == {s[i] : i \in DOMAIN s}
<1>1. DOMAIN s = 1 .. n
  OBVIOUS
<1>2. \A i \in 1 .. n : s[i] \in S
  BY <1>1
<1> HIDE DEF S
<1>3. s \in [1 .. n -> S]
  BY <1>2
<1>4. s \in Seq(S)
  BY <1>3
<1> QED BY <1>1, <1>4 DEF IsSequence, S

\* A prefix has the components its path starts with.
LEMMA PrefixMeans ==
  ASSUME NEW s, NEW t, IsSequence(s), IsSequence(t)
  PROVE  IsPrefix(s, t) <=> Len(s) <= Len(t) /\ \A i \in 1 .. Len(s) : s[i] = t[i]
<1> DEFINE S == {s[i] : i \in DOMAIN s} \cup {t[i] : i \in DOMAIN t}
<1>1. /\ Len(s) \in Nat /\ s = [i \in 1 .. Len(s) |-> s[i]]
      /\ Len(t) \in Nat /\ t = [i \in 1 .. Len(t) |-> t[i]]
  BY DEF IsSequence
<1>2. SubSeq(s, 1, Len(s)) = [i \in 1 .. Len(s) |-> s[i]]
  BY <1>1
<1>3. SubSeq(t, 1, Len(s)) = [i \in 1 .. Len(s) |-> t[i]]
  BY <1>1
<1>4. CASE Len(s) <= Len(t)
  BY <1>2, <1>3, <1>4 DEF IsPrefix
<1>5. CASE ~(Len(s) <= Len(t))
  BY <1>5 DEF IsPrefix
<1> QED BY <1>4, <1>5

\* A path that starts without a dot is not changed by lstrip.
LEMMA LStripIsIdle ==
  ASSUME NEW path, ~Dotted(path)
  PROVE  LStrip(path) = path
BY DEF Dotted, LStrip

\* Of such a path the filter excludes what a user means.
LEMMA FilterMeant ==
  ASSUME NEW path, ~Dotted(path)
  PROVE  PathIsExcluded(path, exclude) <=> Meant(path)
BY LStripIsIdle DEF PathIsExcluded, Meant

\* What the walk prunes below a root is excluded as a user means it.
LEMMA PrunedMeant ==
  ASSUME NEW path, IsSequence(path), path # <<>>, ~Dotted(path), NEW root, IsSequence(root),
         \A token \in exclude : IsSequence(token), Pruned(root, path)
  PROVE  Meant(path)
<1>2. PICK n \in Len(root) + 1 .. Len(path) - 1 :
        PathIsExcluded(SubSeq(path, 1, n), exclude)
  BY DEF Pruned, Between
<1> DEFINE up == SubSeq(path, 1, n)
<1>3. Len(path) \in Nat /\ Len(root) \in Nat
  BY SequenceDomain
<1>4. n \in Nat /\ n >= 1 /\ n < Len(path)
  BY <1>2, <1>3
<1>5. up = [k \in 1 .. n |-> path[k]]
  BY <1>3, <1>4
<1> HIDE DEF up
<1>6. /\ IsSequence(up) /\ Len(up) = n /\ Head(up) = Head(path)
  <2>1. up = [k \in 1 .. n |-> up[k]] /\ up[1] = path[1]
    BY <1>4, <1>5
  <2>2. IsSequence(up) /\ Len(up) = n
    BY <1>4, <2>1, SequenceIntro
  <2>3. Head(up) = up[1] /\ Head(path) = path[1]
    BY <1>3, <1>4, <2>2 DEF IsSequence
  <2> QED BY <2>1, <2>2, <2>3
<1>7. ~Dotted(up)
  BY <1>6 DEF Dotted
<1>8. PICK token \in exclude :
        IsPrefix(token, up) \/ (Len(token) = 1 /\ token[1] \in Range(up))
  BY <1>2, <1>7, FilterMeant DEF Meant, up
<1>9. CASE IsPrefix(token, up)
  <2>1. Len(token) \in Nat /\ Len(token) <= n /\ \A k \in 1 .. Len(token) : token[k] = up[k]
    BY <1>6, <1>9, PrefixMeans, SequenceDomain
  <2>2. ASSUME NEW k \in 1 .. Len(token) PROVE token[k] = path[k]
    <3>1. k \in 1 .. n
      BY <1>4, <2>1
    <3> QED BY <1>5, <2>1, <3>1
  <2>3. IsPrefix(token, path)
    BY <1>3, <1>4, <2>1, <2>2, PrefixMeans
  <2> QED BY <2>3 DEF Meant
<1>10. CASE Len(token) = 1 /\ token[1] \in Range(up)
  <2>1. PICK k \in 1 .. n : token[1] = path[k]
    BY <1>5, <1>10 DEF Range
  <2>2. k \in DOMAIN path
    BY <1>3, <1>4, SequenceDomain
  <2>3. token[1] \in Range(path)
    BY <2>1, <2>2 DEF Range
  <2> QED BY <1>10, <2>3 DEF Meant
<1> QED BY <1>8, <1>9, <1>10

\* The globs given to rg exclude nothing but what a user means.
LEMMA GlobbedMeant ==
  ASSUME NEW path, IsSequence(path), NEW root, IsSequence(root), Globbed(root, path)
  PROVE  Meant(path)
<1>1. PICK token \in exclude, n \in Len(root) + 1 .. Len(path) : token = <<path[n]>>
  BY DEF Globbed
<1>2. Len(root) \in Nat /\ Len(path) \in Nat /\ DOMAIN path = 1 .. Len(path)
  BY SequenceDomain
<1>3. n \in DOMAIN path
  BY <1>2
<1>4. Len(token) = 1 /\ token[1] \in Range(path)
  BY <1>1, <1>3 DEF Range
<1> QED BY <1>4 DEF Meant

----------------------------------------------------------------------------
(* Roots.                                                                  *)

\* Roots are paths, finitely many.
LEMMA RootsType ==
  ASSUME include \in Includes
  PROVE  /\ IsFiniteSet(DOMAIN Roots)
         /\ \A i \in DOMAIN Roots : IsSequence(Roots[i])
<1>1. CASE include = <<>>
  <2>1. DOMAIN Roots = {1} /\ Roots[1] = <<>>
    BY <1>1 DEF Roots
  <2>2. IsSequence(<<>>)
    BY DEF IsSequence
  <2> QED BY <2>1, <2>2, FS_Singleton
<1>2. CASE include # <<>>
  <2>1. Roots = include /\ IsSequence(include) /\ \A i \in DOMAIN include : IsSequence(include[i])
    BY <1>2, ScannerAssumption DEF Roots
  <2>2. DOMAIN include = 1 .. Len(include) /\ Len(include) \in Nat
    BY <2>1, SequenceDomain
  <2> QED BY <2>1, <2>2, FS_Interval
<1> QED BY <1>1, <1>2

\* A search that keeps a file below some of the roots above it counts it once for each.
LEMMA KeptCount ==
  ASSUME include \in Includes, NEW path, NEW kept \in SUBSET Above(path)
  PROVE  /\ IsFiniteSet(kept) /\ Cardinality(kept) \in Nat
         /\ Cardinality(kept) > 0 <=> kept # {}
<1>1. IsFiniteSet(kept)
  BY RootsType, FS_Subset DEF Above
<1>2. Cardinality(kept) \in Nat
  BY <1>1, FS_CardinalityType
<1>3. Cardinality(kept) = 0 <=> kept = {}
  BY <1>1, FS_EmptySet
<1> QED BY <1>1, <1>2, <1>3

Apart == \A i, j \in DOMAIN include : IsPrefix(include[i], include[j]) => i = j

\* Of include paths that do not lie within each other at most one is above a path.
LEMMA OneAbove ==
  ASSUME include \in Includes, Apart, NEW path, IsSequence(path), NEW kept \in SUBSET Above(path)
  PROVE  Cardinality(kept) <= 1
<1>1. \A i, j \in kept : i = j
  <2> SUFFICES ASSUME NEW i \in kept, NEW j \in kept PROVE i = j
    OBVIOUS
  <2>1. CASE include = <<>>
    BY <2>1 DEF Above, Roots
  <2>2. CASE include # <<>>
    <3> DEFINE p == include[i]
               q == include[j]
    <3>1. /\ i \in DOMAIN include /\ j \in DOMAIN include
          /\ IsPrefix(p, path) /\ IsPrefix(q, path)
      BY <2>2 DEF Above, Roots
    <3>2. IsSequence(p) /\ IsSequence(q)
      BY <3>1, ScannerAssumption
    <3> HIDE DEF p, q
    <3>3. /\ Len(p) \in Nat /\ \A k \in 1 .. Len(p) : p[k] = path[k]
          /\ Len(q) \in Nat /\ \A k \in 1 .. Len(q) : q[k] = path[k]
      BY <3>1, <3>2, PrefixMeans, SequenceDomain
    <3>4. CASE Len(p) <= Len(q)
      <4>1. \A k \in 1 .. Len(p) : p[k] = q[k]
        BY <3>3, <3>4
      <4>2. IsPrefix(p, q)
        BY <3>2, <3>4, <4>1, PrefixMeans
      <4> QED BY <3>1, <4>2 DEF Apart, p, q
    <3>5. CASE Len(q) <= Len(p)
      <4>1. \A k \in 1 .. Len(q) : q[k] = p[k]
        BY <3>3, <3>5
      <4>2. IsPrefix(q, p)
        BY <3>2, <3>5, <4>1, PrefixMeans
      <4> QED BY <3>1, <4>2 DEF Apart, p, q
    <3> QED BY <3>3, <3>4, <3>5
  <2> QED BY <2>1, <2>2
<1>2. CASE kept = {}
  BY <1>2, FS_EmptySet
<1>3. CASE kept # {}
  <2>1. PICK i : i \in kept
    BY <1>3
  <2>2. kept = {i}
    BY <1>1, <2>1
  <2> QED BY <2>2, FS_Singleton
<1> QED BY <1>2, <1>3

----------------------------------------------------------------------------
(* What every search gives.                                                *)

\* A count of the files of the tree as the filter and what comes after it need it:
\* Swift files below the roots, none of them missing that is plain and not excluded, and
\* each once unless roots lie within each other.
Sound(count) ==
  \A f \in tree :
    /\ count[f] \in Nat
    /\ count[f] > 0 => Above(f) # {}
    /\ ~Dotted(f) /\ Plain(f) /\ ~Meant(f) => count[f] > 0
    /\ Apart => count[f] <= 1

ScannerInv ==
  /\ tree \in Trees /\ include \in Includes /\ exclude \in Excludes
  /\ phase = "filter" => Sound(found)
  /\ phase = "done" =>
       /\ Sound(files)
       /\ \A f \in tree : ~Dotted(f) /\ Meant(f) => files[f] = 0

\* Counting the roots below which a search keeps a file is sound if of a plain file that
\* is not excluded it keeps one of those that lead to it.
LEMMA CountSound ==
  ASSUME ScannerInv, NEW count, NEW kept,
         \A f \in tree :
           /\ kept[f] \in SUBSET Above(f)
           /\ count[f] = Cardinality(kept[f])
           /\ ~Dotted(f) /\ Plain(f) /\ ~Meant(f) => kept[f] # {}
  PROVE  Sound(count)
<1> SUFFICES ASSUME NEW f \in tree
             PROVE  /\ count[f] \in Nat
                    /\ count[f] > 0 => Above(f) # {}
                    /\ ~Dotted(f) /\ Plain(f) /\ ~Meant(f) => count[f] > 0
                    /\ Apart => count[f] <= 1
  BY DEF Sound
<1>1. Cardinality(kept[f]) \in Nat /\ (Cardinality(kept[f]) > 0 <=> kept[f] # {})
  BY KeptCount DEF ScannerInv
<1>2. IsSequence(f)
  BY ScannerAssumption DEF ScannerInv
<1>3. Apart => Cardinality(kept[f]) <= 1
  BY <1>2, OneAbove DEF ScannerInv
<1> QED BY <1>1, <1>3

\* Before the search nothing is claimed of what it found.
LEMMA ScannerInit == Init => ScannerInv
BY DEF Init, ScannerInv

\* Every search, the filter and every way to give up keep what is claimed.
LEMMA ScannerStep == ScannerInv /\ [Next]_vars => ScannerInv'
<1> SUFFICES ASSUME ScannerInv, [Next]_vars PROVE ScannerInv'
  OBVIOUS
<1>0. ASSUME UNCHANGED Repository
      PROVE  /\ UNCHANGED <<tree, include, exclude, Roots, Apart>>
             /\ \A f : Above(f)' = Above(f) /\ Meant(f)' = Meant(f) /\ Dotted(f)' = Dotted(f)
             /\ \A f : Plain(f)' = Plain(f)
  <2>1. UNCHANGED <<tree, include, exclude, ignored>>
    BY <1>0 DEF Repository
  <2>2. Roots' = Roots /\ Apart' = Apart
    BY <2>1 DEF Roots, Apart
  <2>3. \A f : Above(f)' = Above(f)
    BY <2>2 DEF Above, IsSwift
  <2>4. \A f : Meant(f)' = Meant(f) /\ Dotted(f)' = Dotted(f)
    BY <2>1 DEF Meant, Dotted
  <2>5. \A f : Plain(f)' = Plain(f)
    BY <2>1, <2>2, <2>3 DEF Plain, Directories, Anchored, Between, IsHidden
  <2> QED BY <2>1, <2>2, <2>3, <2>4, <2>5
<1>1. CASE PythonRipgrep
  <2> DEFINE way(f, i) == \A d \in Between(Roots[i], f) : ~IsHidden(d) /\ d \notin ignored
  <2>1. \A f \in tree : found'[f] = IF \E i \in Above(f) : way(f, i) THEN 1 ELSE 0
    BY <1>1 DEF PythonRipgrep
  <2>2. \A f : Plain(f) => \E i \in Above(f) : way(f, i)
    BY DEF Plain
  <2> HIDE DEF way
  <2>3. Sound(found')
    BY <2>1, <2>2 DEF Sound
  <2>4. Sound(found)'
    BY <1>0, <1>1, <2>3 DEF Sound, PythonRipgrep
  <2> QED BY <1>0, <1>1, <2>4 DEF ScannerInv, PythonRipgrep
<1>2. CASE NoPythonRipgrep \/ RgFails \/ NoRg
  BY <1>0, <1>2 DEF ScannerInv, NoPythonRipgrep, RgFails, NoRg
<1>3. CASE RgCli
  <2>1. PICK place \in Places :
          found' = [f \in tree |-> Cardinality({i \in Above(f) :
                      ~ \/ Between(Roots[i], f) \cap ignored # {}
                        \/ Globbed(Roots[i], f)
                        \/ Roots[i] # f /\ \E here \in place : Anchored(here, f)})]
    BY <1>3 DEF RgCli
  <2> DEFINE skipped(f, i) == \/ Between(Roots[i], f) \cap ignored # {}
                              \/ Globbed(Roots[i], f)
                              \/ Roots[i] # f /\ \E here \in place : Anchored(here, f)
             kept == [f \in tree |-> {i \in Above(f) : ~skipped(f, i)}]
  <2>2. ASSUME NEW f \in tree, Plain(f), ~Meant(f) PROVE \E i \in Above(f) : ~skipped(f, i)
    <3>1. PICK i \in Above(f) : \A d \in Between(Roots[i], f) : ~IsHidden(d) /\ d \notin ignored
      BY <2>2 DEF Plain
    <3>2. IsSequence(f) /\ IsSequence(Roots[i])
      BY <3>1, RootsType, ScannerAssumption DEF ScannerInv, Above
    <3>3. ~Globbed(Roots[i], f)
      BY <2>2, <3>2, GlobbedMeant
    <3>4. \A here \in place : ~Anchored(here, f)
      BY <2>2 DEF Plain, Places
    <3> QED BY <3>1, <3>3, <3>4
  <2>3. \A f \in tree : /\ kept[f] \in SUBSET Above(f)
                        /\ ~Dotted(f) /\ Plain(f) /\ ~Meant(f) => kept[f] # {}
    BY <2>2
  <2>4. \A f \in tree : found'[f] = Cardinality(kept[f])
    BY <2>1
  <2> HIDE DEF kept, skipped
  <2>5. Sound(found')
    BY <2>3, <2>4, CountSound
  <2>6. Sound(found)'
    BY <1>0, <1>3, <2>5 DEF Sound, RgCli
  <2> QED BY <1>0, <1>3, <2>6 DEF ScannerInv, RgCli
<1>4. CASE Walk
  <2> DEFINE kept == [f \in tree |-> {i \in Above(f) : ~Pruned(Roots[i], f)}]
  <2>1. ASSUME NEW f \in tree, ~Dotted(f), Plain(f), ~Meant(f)
        PROVE  \E i \in Above(f) : ~Pruned(Roots[i], f)
    <3>1. PICK i : i \in Above(f)
      BY <2>1 DEF Plain
    <3>2. IsSequence(f) /\ f # <<>> /\ IsSequence(Roots[i])
      BY <3>1, RootsType, ScannerAssumption DEF ScannerInv, Above
    <3>3. \A token \in exclude : IsSequence(token)
      BY ScannerAssumption DEF ScannerInv
    <3> QED BY <2>1, <3>1, <3>2, <3>3, PrunedMeant
  <2>2. \A f \in tree : /\ kept[f] \in SUBSET Above(f)
                        /\ ~Dotted(f) /\ Plain(f) /\ ~Meant(f) => kept[f] # {}
    BY <2>1
  <2>3. \A f \in tree : found'[f] = Cardinality(kept[f])
    BY <1>4 DEF Walk
  <2> HIDE DEF kept
  <2>4. Sound(found')
    BY <2>2, <2>3, CountSound
  <2>5. Sound(found)'
    BY <1>0, <1>4, <2>4 DEF Sound, Walk
  <2> QED BY <1>0, <1>4, <2>5 DEF ScannerInv, Walk
<1>5. CASE Filter
  <2>1. Sound(found)
    BY <1>5 DEF ScannerInv, Filter
  <2>2. \A f \in tree : files'[f] = IF PathIsExcluded(f, exclude) THEN 0 ELSE found[f]
    BY <1>5 DEF Filter
  <2>3. \A f \in tree : ~Dotted(f) => (PathIsExcluded(f, exclude) <=> Meant(f))
    BY FilterMeant
  <2>4. Sound(files') /\ \A f \in tree : ~Dotted(f) /\ Meant(f) => files'[f] = 0
    BY <2>1, <2>2, <2>3 DEF Sound
  <2>5. (Sound(files) /\ \A f \in tree : ~Dotted(f) /\ Meant(f) => files[f] = 0)'
    BY <1>0, <1>5, <2>4 DEF Sound, Filter
  <2> QED BY <1>0, <1>5, <2>5 DEF ScannerInv, Filter
<1>6. CASE UNCHANGED vars
  <2>1. Sound(found)' = Sound(found) /\ Sound(files)' = Sound(files)
    BY <1>0, <1>6 DEF Sound, vars, Repository
  <2> QED BY <1>0, <1>6, <2>1 DEF ScannerInv, vars, Repository
<1> QED BY <1>1, <1>2, <1>3, <1>4, <1>5, <1>6 DEF Next

THEOREM ScannerInvariant == Spec => []ScannerInv
BY ScannerInit, ScannerStep, PTL DEF Spec

\* Whichever of python-ripgrep, rg and the walk was available, and wherever rg ran, the
\* Swift files that are meant are analysed if they are plain, and none that are not meant,
\* outside directories of the root that start with a dot (discovery/scanner.py).
THEOREM PlainFilesAlwaysAnalysed == Spec => []PlainFilesAnalysed
<1>1. ScannerInv => PlainFilesAnalysed
  BY DEF ScannerInv, Sound, PlainFilesAnalysed
<1> QED BY <1>1, ScannerInvariant, PTL

\* A file is listed once by every search, unless include paths lie within each other.
THEOREM FilesCountOnce == Spec => []CountedOnce
<1>1. ScannerInv => CountedOnce
  BY DEF ScannerInv, Sound, CountedOnce, Apart
<1> QED BY <1>1, ScannerInvariant, PTL
=============================================================================
