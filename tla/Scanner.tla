------------------------------ MODULE Scanner ------------------------------
(***************************************************************************)
(* Discovery of the Swift files of a repository (discovery/scanner.py):    *)
(* python-ripgrep, else the rg command, else a walk of the file system,    *)
(* each under the included paths, and one filter over what any of them     *)
(* gave.                                                                   *)
(*                                                                         *)
(* A path is the sequence of its components from the repository root.      *)
(* Both python-ripgrep and rg honour ignore files such as .gitignore.  As  *)
(* the glob for Swift files has rg list such a file whatever an ignore     *)
(* file says of it, what ignore files keep rg from are directories.  Links *)
(* that lead out of the repository are left out.                           *)
(***************************************************************************)
EXTENDS Integers, SequencesExt, FiniteSetsExt

CONSTANTS
  Trees,      \* the sets of files a repository may have
  Includes,   \* the sequences of include paths; the empty one means the root
  Excludes,   \* the sets of tokens to exclude, each a path
  Ignores,    \* the sets of directories that ignore files may keep rg from
  Swift,      \* the file names with the suffix .swift
  Undotted    \* from the components that start with dots to what is left without

\* A sequence, of whatever it holds.
IsSequence(s) == s \in Seq({s[i] : i \in DOMAIN s})

\* A file has a name and a token is not blank; an include path may be anything.
ASSUME ScannerAssumption ==
  /\ \A t \in Trees : \A f \in t : IsSequence(f) /\ f # <<>>
  /\ \A p \in Includes : IsSequence(p) /\ \A i \in DOMAIN p : IsSequence(p[i])
  /\ \A x \in Excludes : \A token \in x : IsSequence(token) /\ token # <<>>

VARIABLES
  tree,
  include,
  exclude,
  ignored,
  phase,      \* "python", "rg", "walk", "filter"; at the end "done" or "raised"
  found,      \* from paths to how often a search listed them
  files       \* the same, after the filter

vars == <<tree, include, exclude, ignored, phase, found, files>>

Repository == <<tree, include, exclude, ignored>>

----------------------------------------------------------------------------
(* Paths.                                                                  *)

\* rel.lstrip("./") was meant for a leading "./" and takes any leading dot.
LStrip(path) ==
  IF path # <<>> /\ Head(path) \in DOMAIN Undotted
  THEN <<Undotted[Head(path)]>> \o Tail(path) ELSE path

\* Mutation: a token only counts at the root of the repository.
ExcludedAtRoot(path, tokens) == \E token \in tokens : IsPrefix(token, LStrip(path))

PathIsExcluded(path, tokens) ==
  \E token \in tokens :
    \/ IsPrefix(token, LStrip(path))
    \/ Len(token) = 1 /\ token[1] \in Range(LStrip(path))

\* Mutation: the repository is searched besides the include paths.
RootsAndRepository == <<<<>>>> \o include

Roots == IF include = <<>> THEN <<<<>>>> ELSE include
Exists(root) == root = <<>> \/ \E f \in tree : IsPrefix(root, f)

IsSwift(path) == Last(path) \in Swift

\* The search roots a Swift file lies below; a search that lists one root after the
\* other meets it once for each.
Above(path) == {i \in DOMAIN Roots : IsSwift(path) /\ IsPrefix(Roots[i], path)}

\* The directories on the way from a root down to a file.  None of the searches asks
\* whether the root itself is excluded, ignored or hidden.
Between(root, path) == {SubSeq(path, 1, n) : n \in Len(root) + 1 .. Len(path) - 1}

IsHidden(directory) == Last(directory) \in DOMAIN Undotted

\* The walk prunes excluded directories on its way down.
Pruned(root, path) == \E d \in Between(root, path) : PathIsExcluded(d, exclude)

\* A glob of one component matches at any depth,
Globbed(root, path) ==
  \E token \in exclude, n \in Len(root) + 1 .. Len(path) : token = <<path[n]>>

\* and one with a slash is anchored at the directory rg runs in.
Anchored(here, path) == \E token \in exclude : IsPrefix(here \o token, path)

Directories == UNION {{SubSeq(f, 1, n) : n \in 0 .. Len(f) - 1} : f \in tree}

\* Where rg may run: in one of the directories of the repository, or in none of them.
Places == {{}} \cup {{d} : d \in Directories}

----------------------------------------------------------------------------
(* The search and its fallbacks.                                           *)

Init ==
  /\ tree \in Trees
  /\ include \in Includes
  /\ exclude \in Excludes
  /\ ignored \in Ignores
  /\ phase = "python"
  /\ found = [f \in tree |-> 0]
  /\ files = found

\* python-ripgrep gives a set of paths and passes over roots that are not there.  It is
\* told to list Swift files and nothing else: exclusions are left to the filter, and by
\* itself it keeps out of hidden and ignored directories.
PythonRipgrep ==
  /\ phase = "python"
  /\ found' = [f \in tree |->
       IF \E i \in Above(f) : \A d \in Between(Roots[i], f) : ~IsHidden(d) /\ d \notin ignored
       THEN 1 ELSE 0]
  /\ phase' = "filter"
  /\ UNCHANGED <<Repository, files>>

\* It is not installed, has another interface, or raises anything.
NoPythonRipgrep ==
  /\ phase = "python"
  /\ phase' = "rg"
  /\ UNCHANGED <<Repository, found, files>>

\* rg is told to look into hidden directories, and of the exclusions; it keeps out of
\* ignored directories.
RgCli ==
  /\ phase = "rg"
  /\ \A i \in DOMAIN Roots : Exists(Roots[i])
  /\ \E place \in Places :
       LET Skipped(root, path) ==
             \/ Between(root, path) \cap ignored # {}
             \/ Globbed(root, path)
             \/ root # path /\ \E here \in place : Anchored(here, path)
       IN  found' = [f \in tree |-> Cardinality({i \in Above(f) : ~Skipped(Roots[i], f)})]
  /\ phase' = "filter"
  /\ UNCHANGED <<Repository, files>>

\* rg exits with 2 on any error, such as a path that is not there.
RgFails ==
  /\ phase = "rg"
  /\ phase' = "raised"
  /\ UNCHANGED <<Repository, found, files>>

NoRg ==
  /\ phase = "rg"
  /\ phase' = "walk"
  /\ UNCHANGED <<Repository, found, files>>

Walk ==
  /\ phase = "walk"
  /\ found' = [f \in tree |-> Cardinality({i \in Above(f) : ~Pruned(Roots[i], f)})]
  /\ phase' = "filter"
  /\ UNCHANGED <<Repository, files>>

Filter ==
  /\ phase = "filter"
  /\ files' = [f \in tree |-> IF PathIsExcluded(f, exclude) THEN 0 ELSE found[f]]
  /\ phase' = "done"
  /\ UNCHANGED <<Repository, found>>

Next == PythonRipgrep \/ NoPythonRipgrep \/ RgCli \/ RgFails \/ NoRg \/ Walk \/ Filter

Spec == Init /\ [][Next]_vars

----------------------------------------------------------------------------
(* Properties.                                                             *)

\* What a user means by excluding: the token's directory at the root, or a name anywhere.
Meant(path) ==
  \E token \in exclude : IsPrefix(token, path) \/ (Len(token) = 1 /\ token[1] \in Range(path))

Dotted(path) == Head(path) \in DOMAIN Undotted

\* A file no search has a reason of its own to pass over: the way to it from some root
\* leads through no hidden and no ignored directory, and no token, taken from a directory
\* in which rg may run, leads to it.
Plain(path) ==
  /\ \E i \in Above(path) : \A d \in Between(Roots[i], path) : ~IsHidden(d) /\ d \notin ignored
  /\ \A here \in Directories : ~Anchored(here, path)

\* Outside directories of the root that start with a dot, whichever search was available
\* lets through only Swift files below the included paths that are not excluded, and all
\* of these that are plain.  Of the others it depends on the search and on where it runs:
\* rg looks into hidden directories and keeps out of ignored ones, the walk looks into
\* both, python-ripgrep into neither.
PlainFilesAnalysed ==
  phase = "done" =>
    \A f \in tree : ~Dotted(f) =>
      /\ files[f] > 0 => Above(f) # {} /\ ~Meant(f)
      /\ Plain(f) /\ ~Meant(f) => files[f] > 0

\* A file counts once, unless include paths lie within each other.
CountedOnce ==
  phase = "done" /\ (\A i, j \in DOMAIN include : IsPrefix(include[i], include[j]) => i = j) =>
    \A f \in tree : files[f] \leq 1

\* tests/test_scanner.py:41 asserts of the default exclusions:
\* ".build/Skip.swift" not in rels.
DefaultExcludesHold == phase = "done" => \A f \in tree : Meant(f) => files[f] = 0
=============================================================================
