# ultra-trace in TLA+

ultra-trace is a command-line static analyser for Swift: it reads a repository,
has an external parser turn each file into an AST, normalises the AST, builds a
control-flow graph per function, walks the graph with a symbolic state, turns
what the walk saw into findings with proofs, optionally asks a language model
for advice, writes reports and ends with an exit code.  It is one sequential
process; what makes it hard is state: facts carried along paths and across
branches, a memo that cuts the walk, lists shared between callers, events
collected on one path and read on another, and steps that fail half way.

Source paths below are relative to `src/src/ultra_trace/`.

## The system

| part | source | state it keeps | operations | what makes it correct |
|---|---|---|---|---|
| Symbolic state | `engine/state.py`, `engine/facts.py`, `engine/exprs.py` | nilness, taint, constants, bounds, nonempty, sizes, types, per name | evaluate an expression, assume a condition, apply a statement | the functions stay within the state; a fact is only recorded by the statement or branch that establishes it |
| CFG builder | `cfg/builder.py`, `cfg/models.py`, `cfg/walk.py` | nodes, edges, the lists of tails to attach to, the active calls | one emitter per statement shape | every run of a function has a path; no node is stranded; only back edges close cycles, those of loops |
| Path explorer | `engine/explorer.py` | the recursion (trail, state, unwraps per call), memo, recorded paths, events | enter, cut, skip, prune, follow, return | events are computed from the path they quote; the memo loses no state; the walk ends |
| Rules, findings, proofs | `rules/`, `core/findings.py`, `proofs/generator.py` | findings | six rules per function, coverage, emission with a proof tier | severity only as strong as the proof; one finding per risky site |
| Pipeline | `engine/pipeline.py` | the analysis result | select and analyse each function, sort | independent of the order of files and paths |
| LLM session | `llm/` | plan, recorded invocations, features used, advice, summary | plan, word findings, summarise | answers are clamped and filtered; offline sends nothing; failure costs only the advice |
| Configuration | `config.py`, `appdir.py`, `paths.py`, `llm/privacy.py`, `llm/credentials.py` | layered settings, environment | bootstrap, load, merge, override, validate | the highest layer wins, offline wins over all |
| Analyze command, writers | `cli.py`, `reporting/` | report files, exit code | analyse, dry run | the exit code and the files say what happened |
| Parser helper | `parser/` | none | discover, query, validate, invoke | only a compatible helper is used; a hang ends |
| Discovery | `discovery/scanner.py` | the file list | python-ripgrep, rg, walk, filter | no search loses a file that is neither hidden, ignored nor excluded, and none adds one |
| Frontend | `swift_frontend/normalize.py`, `frontend/` | symbols, bodies, names of callables, eligibility, call index | build the symbols of a file, index, resolve calls, attach constructs, classify | each function is listed once; an unsupported construct costs the function it is in its eligibility; a call is resolved only to what it must mean |
| Report contents | `reporting/json_report.py`, `coverage.py`, `ordering.py`, `markdown.py` | the payload of a report | count, note, warn, recommend, order; read back | no finding is lost or counted twice; silence about coverage means everything was understood |
| Taint catalogue | `taint/` | source, sink and sanitizer patterns | match | the patterns are matched as written |
| Swift helper | `swift-parser-helper/` (Swift) | none | print a syntax tree as JSON | - |

How they interact: the CLI calls configuration, discovery and the pipeline in
turn; the pipeline asks the LLM session for a plan, invokes the helper as a
subprocess, normalises its output, and for each eligible function calls the
builder, the explorer and the rules; then the session adds advice, the writers
write, and the CLI maps the outcome to an exit code.  Calls are plain Python
calls; the helper, the model providers and rg are the only outside parties, the
user's directory, the repository and the output directory the only state that
outlives a call.

What is hard: the walk (memo, depth bound and pruning on a cyclic graph, state
shared between branches), the tails threaded through nested statements, the
three places that decide how sure a finding is, an outside party that answers
late, wrongly or never, layers merged by four different rules, files written one
after the other over those of an earlier run, and eleven ways out of one
command.  `PROJECT.json` lists each as a hazard at its line.

## Modules

| module | models | kind |
|---|---|---|
| `SymbolicState` | the state and its functions, expressions abstracted to the shapes they distinguish | operators |
| `Search` | what the walk promises: a search that examines keys, each once | abstract specification |
| `Explorer` | the walk of one function; implements `Search` | state machine, extends `ControlFlowGraph` |
| `ControlFlowGraph` | a graph as the builder hands it to the explorer, and what makes it one the explorer can walk | operators, extends `SymbolicState` |
| `BuildState` | the methods of `_BuildState`, cut at the calls they make of each other | operators, extends `ControlFlowGraph` and `Listing` |
| `CFGBuilder` | the builder of one function, call by call | state machine, extends `BuildState` |
| `Listing` | stable sorting, filters and concatenation of Python lists | operators |
| `Frontend` | from the helper's answer to symbols: nesting, names, calls, constructs, eligibility | state machine, extends `Listing` |
| `Findings` | `analyze_unit`: selection, the six rules, coverage, proof tiers, order | state machine, extends `Listing` |
| `Report` | what `report_json` makes of an analysis, and reading it back | operators, extends `Frontend` and `Findings` |
| `Pipeline` | `Frontend`, `Findings` and `Report` composed, with the commands `analyze` and `report` around them | state machine |
| `Session` | one `analyze_repository` with its requests to a provider | state machine |
| `Config` | from the user's layers to a configuration | state machine |
| `Run` | calls of `analyze` on one output directory: helper, ways out, files | state machine, extends `Listing` |
| `Scanner` | discovery with its fallbacks | state machine |
| `MC*` | the instances TLC checks | model checking |
| `ExplorerProofs`, `BuilderProofs`, `ListingProofs`, `PipelineProofs`, `SessionProofs`, `ConfigProofs`, `RunProofs`, `ScannerProofs` | theorems | proofs |

`MCExplorer` composes the builder with the explorer: the graphs it walks are the
ones the builder's own operators give for function bodies, never graphs made up for
the check.  The two meet in `IsGraph` and `IsLaidOut`: what the explorer assumes of its
graphs (`LayoutAssumption`) is what the builder promises of every one (`GraphIsSound`).
`Pipeline` composes what lies on both sides of the walk: a function's eligibility
comes from the frontend's own steps, what the rules make of it reaches the report.
What the walk itself sees there is an input, since walk and builder are checked on
their own.  `Run` takes what `Session` and `Pipeline` establish as outcomes of its steps.

### How states and actions correspond to the code

*SymbolicState.*  A state is a record of functions from names, with `Absent` for a
missing key.  `ApplyStatement` is `_apply_statement`, `ApplyConditionFacts` is
`apply_condition_facts` with its helpers, `EvaluateCondition` gives the verdict
true, false or unknown.  An expression is a literal, a name, a member, a call, an
array literal or an opaque compound: what the functions distinguish.

*Explorer.*  `stack` is the recursion of `walk`: a frame holds the node, the state,
the trail, the unwraps collected and the edges still to be tried.  `Visit` is the
entry of a call up to the loop over edges (depth cut, memo, exit, scan), and
`SkipBack`, `PruneDead` and `Follow` are the three things one turn of that loop may do;
`Return` leaves the call.  `seen` is the memo of (node, fingerprint), `paths` the
recorded paths, `events` what the scan of expressions and the pruning reported.

*Search* has none of that: `reached` grows by one key at a time, from the entry or
along what `MayFollow`, and the search is over only when every key that `MustFollow`
an examined one was examined, unless `cut`.  `Explorer!Abstract` instantiates it with
`seen`, the depth cut and the empty stack; back edges may be followed, the others
must unless a verdict contradicts them.

*BuildState and CFGBuilder.*  The methods of `_BuildState` call each other down to any
depth; the state has their active calls as a stack, and one step is what a method does
between two calls.  `NextStatement` is a turn of the loop in `emit_statements`: it adds
the nodes of the statement, or the condition node and a call that will connect its
branches.  `NextBranch` enters a branch (`_connect_branch`), `ForkEnds` is what
`_emit_if`, `_emit_guard`, `_emit_switch` and `_emit_loop` do after the last one,
`NextCatch` and `DoEnds` are the loop over catch blocks, and `BlockEnds` is the return of
`emit_statements` with what its caller does first: relabel the edges of the branch, keep
the tails, or extend the list the `do` block gave back.  A list of tails is known by its
place in `lists`, since Python's variables share lists: the one a `do` block without
nodes gives back is the one its catch blocks start from, and extending it reaches both.

*Listing.*  A list is sorted by listing its places in the order of their keys, the
place itself last, which is what makes Python's sort stable; filters and
concatenations list places too.  Written so, without recursion, they can be proved about.

*Frontend.*  `BuildFile` takes the next file in the order of the paths and builds its
symbols: types first, by name, then functions, moved under a type by the parent the
helper names or by the narrowest lines around them.  `IndexNames` collects the
callables of all files; `FinalizeFile` resolves the calls of a file, attaches its
constructs to the narrowest symbol around them, and classifies symbols and file.
A body is what its calls, its throwing and its sites make of it.

*Findings.*  `Analyze` takes the next selected function and adds what the rules
emit for it; `Finish` sorts.  What the walk saw at a site is an input: the events
per rule, in the order they were recorded.

*Pipeline.*  `Normalize` and `AnalyzeUnit` are steps of the two modules it extends,
`HandOver` gives the rules what the frontend found out (eligibility, and for a `try!`
what the summary of its callee says), `WriteReport` and `Rerender` are `report_json`
and the command `report`.

*Session.*  One action per request and outcome.  `PlanFailed`, `WordingFailed` and
`SummaryFailed` choose a failure; whether the session catches it is decided by the
classes its except clauses name.

*Config.*  One step per stage of `analyze` up to `validate_llm_config`.  A layer is
a function on the keys it sets; one key stands for all that are only copied.

*Run.*  `phase` is the place in `analyze`; each action is one call with all its ways
out.  `disk` maps a file to the run that wrote it and what it was written for.

*Scanner.*  `phase` moves along the two fallbacks; `found` counts how often a search
listed a file, since a list may hold it twice.  Ignore files are modelled by what they
do to rg and python-ripgrep, which both honour them: `ignored` is the set of directories
they are kept from.  Of a Swift file itself an ignore file may say what it likes, since
the glob `*.swift` overrides it.  rg is called with `--hidden` and with the exclusions,
python-ripgrep with neither.  An exclusion of several components is a glob anchored at
the directory rg runs in, which is any directory of the repository or none (`Places`).

## Runs

| run | properties | bounds and why they are enough |
|---|---|---|
| `explorer` | `TypeOK`, `TrailsAreWalks`, `SearchComplete`, `PathsCarryTheirUnwraps`, `EventsFollowTheirPath`, `NoNodeTwice`, `EveryStepDescends`, `Terminates`, `ExploreIsASearch` | 6579 bodies in three families. Branching: an assignment, a compound statement with branches of at most one statement, a last one simple or compound, so that paths with different facts meet again and are tested again. Mixed: three statements, one of each shape the builder and the rules know. Nested: loops and branches in loops. `MaxDepth` 8 lets the short bodies run to their end and cuts the long ones within nested calls. Three names, one of each role |
| `builder` | `RunsHavePaths`, `GraphIsSound`, `EveryNodeOnAWay`, `BackEdgesCloseLoops` | 28000 bodies of at most two statements with blocks nested three deep: a compound statement in each place of each other one, with and without a statement after it, with empty `do` blocks, which is where lists of tails come to be shared |
| `pipeline` | `TypeOK`, `HighIsEarned`, `OneFindingPerRiskySite`, `PathOrderIrrelevant`, `FileOrderIrrelevant`, `EachFunctionOnce`, `CallsSeeEveryFile`, `DoubtsReachTheirFunction`, `SilenceMeansUnderstood`, `PartialExplained`, `ReportIsComplete`, `RerenderingChangesNothing` | 3237 payloads in two families. Walked: two sites seen by two paths in any way the rules distinguish, with a macro in the body, an operator behind its brace, or neither, and a second function in the same or another file. Laid out: fifteen ways types and functions lie in a file (nested, on one line, in an extension, below an attribute, without bodies), a construct at any line, a second file with the names the first may call: two files and two levels of types are what the index and the nesting tell apart |
| `session` | `TypeOK`, `PlanWithinConfig`, `OfflineStaysLocal`, `MetadataAgrees`, `AdviceIsAboutFindings` | two modules, two findings, depths below, at and above a configured depth that is itself positive or negative, every set of advice on them |
| `config` | `HighestLayerWins`, `OffMeansOff`, `AssistIsOptIn` | three families: switches in every layer, provider knobs in every layer, layers that go wrong |
| `run` | `ZeroMeansClean`, `HealthWins`, `ReportsAreOfThisRun`, `FailuresLeaveReports`, `RunEnds` | `MaxRuns` 2: the disk is read by the properties only as this run's, an earlier one's or nobody's |
| `scanner` | `PlainFilesAnalysed`, `CountedOnce` | every subset of nine files, one below a hidden directory that is not at the root, two below directories that ignore files may name, one whose path repeats a token of two components further down; tokens at the root, below it, and of two components; include paths apart, within each other and of a file |

Five runs look for a violation and find one; each shows a disagreement of the code
with its own documentation, listed with both quotes under `findings` of
`PROJECT.json`:

| run | what it shows |
|---|---|
| `dead_branch_claim` | an edge reported dead on one path is taken on another |
| `loop_fallthrough_claim` | the edge past a loop is walked as if the condition held |
| `attribute_claim` | a function below a result builder attribute has a high finding |
| `provider_failure_claim` | a dropped connection or an infinite depth ends the analysis |
| `default_exclusion_claim` | `.build` at the root is not excluded by the walk used without rg |

The models contain more differences and oddities, which have no run of their own:

* `dot_env.example:10` says that `ultra-trace.yml` can override the environment; a
  project that names the built-in provider cannot, since `apply_env_llm_overrides`
  takes it for unset.  `HighestLayerWins` therefore leaves the provider out.
* `reporting/exit_codes.py:4` and `:5` promise 1 for findings and 2 for configuration errors; a
  scan or a write that raises, and a configuration value of the wrong type, end
  Python with 1 (`Uncaught` in `Run`, the stage `uncaught` in `Config`).
* `README.md:81` lists proofs for high findings; two high findings with one id share
  a file, so do two whose ids differ only in `:` or `/` against `_`, and proofs of
  findings that are gone stay.  `ReportsAreOfThisRun` says
  exactly what does hold.
* A file counts by its top level only (`frontend/eligibility.py:142`).  One whose
  functions are all methods is partially analysed however well it was understood, so
  the report warns and `--fail-on-partial-analysis` ends with 4.  `PartialExplained`
  states when the warning comes.
* A construct is attached by lines.  Where two symbols are equally narrow, a type and
  its method on one line or a function within a one-line function, the outer one takes
  it; `DoubtsReachTheirFunction` leaves those out.
* A setter becomes a getter (`swift_frontend/normalize.py:233`), the branch after it
  is dead, and no symbol ever counts a warning.  The models have all three.
* The unwraps of the condition of an `if`, a `guard` or a `switch` are not looked for
  (`cfg/walk.py:79`), the casts and subscripts there are.
* The sort within `force_unwrap.py` has no effect, the final sort orders by the same keys.

Deadlock is not checked in the runs whose systems stop: an analysis, a session, a
configuration and a search end, and `MaxRuns` ends the calls.

## Fairness

`Explorer` assumes weak fairness of its next-state relation: the walk is a plain
recursion in one thread, and some step of it is taken as long as there is one.  With
it `Terminates` says that every walk ends, loops and all.
`Run` assumes weak fairness of `Program` only.  Those are the program's own steps
and the timeouts of `subprocess.run`; the user's calls and the helper's answers are
not fair, so `RunEnds` holds with a helper that never answers.  No other
specification makes a liveness claim: their steps are finitely many.

## Proofs

The assumptions are those the modules state of their constants: graphs are graphs and
the depth is positive (`ExplorerAssumption`), their edges climb but for back edges, which
close loops (`LayoutAssumption`: what `BuilderProofs` proves of every graph the builder
makes, as `GraphSound`), the statements of a function are of the shapes the normalisation
gives and their blocks hold statements again (`BuilderAssumption`), the literals `true`, `false` and `nil` are
texts and no fact has the value of a missing key (`SymbolicAssumption`), a payload is what
the helper can answer (`FrontendAssumption`, below), configurations and answers have their types
(`ConfigsAreConfigs`, `AskedIsInt`), a result's findings are a list and no proof has the
name of a report, as proofs have a directory of their own (`ResultsAssumption`), a layer sets keys there are and the command line none but by a
switch (`SetupsAssumption`), the trees, include paths and exclusions of a search are sets and lists of paths, and no
exclusion is blank (`ScannerAssumption`).

`FrontendAssumption` says of a payload that it lists each file once, with lists of
declarations at integer lines and at columns below `Width`; that the kinds of types and
those of functions differ; that types have names; that a function and a type, or two
functions of one name, start at two places unless one is listed twice; that `Bare` cuts
no called name short to something else (`_simple_callee` cuts at `<`, `(` and blanks,
which no name the helper gives has inside); and that a site of the walk is at one place,
its callee and its sink the same on every path (sites are identified by file, kind,
position and a counter).

`ExplorerProofs` first shows that statements and assumptions lead from states to
states.  On that it builds, for any laid out graph, names and depth:

* `TypeCorrect`.  The invariant also bounds the frames of the recursion.
* `WitnessesAreWalks`.  `WalkInv` says of every frame, recorded path and event that
  its trail is a walk from the entry, and of a frame that tries edges that they leave
  its node and that the depth bound has room for one more; the latter is what `Follow`
  needs.
* `UnwrapsStayOnTheirPath`.  A call about to step its node carries the unwraps of the
  nodes before it, one that has stepped it those of the whole trail
  (`CallsCarryTheirUnwraps`); a recorded path inherits them.
* `LoopsAreWalkedOnce`.  `Climbs` says that the places of a trail rise up to the exit.
  A back edge leads to where a loop began, which every climbing trail to its source has
  passed (`PassesTheCondition`, by the least place that has not): the guard that skips
  back edges is what keeps nodes from being met twice, and no trail needs more.
* `EventsStayOnTheirPath`.  `Entered` says of every active call that its state is the
  one its own trail leads to, statement by statement and condition by condition;
  `EventInv` carries that over to what was reported.  `StatesAlong` is a recursive
  function on the places of a trail, and exists by well-founded induction on them.
* `MemoisationLosesNothing`.  `KeysMatch` ties each frame to its key in the memo;
  `SearchInv` says that every successor of a memoised key is memoised, declined, or
  still pending in a frame of the stack.  At the end no frame is left.
* `WalkDescends` and `DescentEnds`, the argument for termination up to fairness.  `ToDo`
  counts at each depth what the call there has left: one for its return, one for each
  edge, one for its node.  A call can only add work below the call whose edge it uses
  up, so each step lessens `ToDo` as a word of `MaxDepth` numbers compared from the
  outermost call on (`WalkInv` keeps the stack within it); such words cannot descend
  for ever, since the naturals cannot.
* `ExploreImplementsSearch`.  Each step of the walk is a step of `Search` or changes
  nothing of it: `Visit` examines a key, which `CallsAreAllowed` shows to be one that
  may follow; a depth cut cuts; and the last return needs `SearchInv`, since the search
  may be over only when nothing was left out.

`BuilderProofs` shows for every function body, however long and however deep its blocks
nest, three of the four properties the run `builder` checks.  The graph is only finished
at the end, so they are not inductive; `Inv` says what holds between any two calls.

* `TypeInv` (`TypeCorrect`): the lists, nodes and branches that the active calls hold are
  there, no list has the exit in it, and the calls are stacked as the methods call each
  other: only blocks call, and a `do` whose body is being emitted has a block above it.
* `GraphInv`: every node was added behind an earlier one; an edge that is not a back edge
  leads onwards or to the exit; nothing but a condition itself leads past it while its
  branches are at work; and a back edge closes a stretch of nodes, from the condition to
  some `z`, which only edges from the stretch lead into.  The stretch is what has to be
  found: it is everything added since the condition, and what is added later is drawn to
  new nodes behind `z`.
* `HeldInv` is why: inside a branch no active call holds a node before the condition of
  that branch, so nothing will be drawn from there (`ConnectBranch` gives the branch a
  list of its own).  This is where the shared lists matter.  `CatchDoneKeepsInv` shows
  that extending the list of a `do` block adds only nodes that its catch blocks gave
  back, which are not before the condition either.
* `NoTrap`: from every node the edges lead to the exit or to a node that an active call
  will draw an edge from.  It is stated without paths: no set of nodes that has the node
  in it and is closed under the edges is free of both (`Leads`).  Each action moves the
  frontier, and the return of `build` empties it.

The actions that only add nodes behind the tails share one argument (`GraphGrows`), those
that close a loop another (`LoopCloses`); both are about sets of edges, whatever the
builder.  From `BuilderInvariant` follow `GraphSound`, which discharges the explorer's
assumption; `NoNodeIsLost`, since the least node not reached would hang on an earlier one,
and since at the end nothing is left to draw an edge from; and `LoopsClose`, since a walk
that avoids the condition cannot enter the stretch it closes.  That `Reached` is what
walks get to needs two lemmas on its rounds: that they never leave a closed set
(`ReachedIsWithin`), and that as many rounds as there are nodes leave none out, because
each round before the last adds a node (`ReachedIsClosed`).

`ListingProofs` shows, with the library's facts on cardinalities and bijections, that
`Listing` lists a finite set once and in order (`ListingLists`): elements before an
element are counted, keys are distinct, so the count is a bijection.  From it follow
that a sort is an ordered rearrangement (`InOrderSorts`, `InOrderPermutes`), that a
sorted list stays as it is (`InOrderKeepsSorted`), and what filters and concatenations
hold.

`PipelineProofs` begins with the rules.  It proves `EmitIsEarned` by cases on whether a rule asks for high
severity, and `AllRulesFind`: what the rules make of a function is a list of earned
findings, whatever the walk saw.

It then proves `OnePerSite`, with the least index at which a site is risky as its representative, and `PathOrderIsIdle`:
what the quoted event of a site contributes beyond the site is the same for all its
risky events, or is left out of the verdict.

The rest of `PipelineProofs` carries all this through the pipeline, for every payload.  `PipelineInv`
says of each stage that it hands on lists of what the next one reads, that nothing
happens to the findings once they are sorted, and that the report is that of the
findings.  From it `AlwaysEarned`, `AlwaysTyped`, `AlwaysComplete` (with
`InOrderPermutes`: the report has every finding as often as the analysis) and
`RerenderingIsIdle` (with `InOrderKeepsSorted`: ordering twice is ordering once).
`FoundInv` follows the loop over the functions: the findings are those of the functions
taken so far, and each function's are as many as the rules find in it alone, which needs
that no id is selected twice.  From it `AlwaysOnePerSite`, `AlwaysEitherWay` and
`AlwaysAnyFileOrder`; the last because there is only one list of a set in the order of
keys that all differ (`ListingIsTheOnlyOne`).

The properties that compare the end with the payload need `TraceInv`: what was built is
what the payload lists, in the order of the paths; what is finished is `Finished` of what
was built, which does not change any more once the names are indexed (`FinishedStays`);
the unit is what is finished, as the rules see it (`UnitStays`).  `FileSymbolsType` shows
that nesting loses no function and copies none: the symbols at the top level are the types
and the functions of no type, those below are the others.  `IdsTell` then says that an id
belongs to one function and to no type.  From there

* `AlwaysOnce`: a function with a body is eligible, its symbol is in the unit
  (`SelectedSees`), and what is selected with its id is that symbol (`SelectedIsSeen`).
* `AlwaysDoubted`: of the symbols around a construct the narrowest is the function, since
  nothing else is as narrow (`DoubtCounts`, with `NarrowestIs`), so it counts against it,
  and no high finding is earned.
* `AlwaysEveryFile`: what is listed under a name are the functions called so in any file
  (`ListedIs`), and what a call means are functions of the name it ends with: all of them,
  or those whose qualified name it is (`MeantIs`).
* `AlwaysSilent` and `AlwaysExplained`: the counts are positive just if there is something
  to count (`CountsTell`, `NoneUnsupported`, `AllSure`), so the notes tell which files,
  symbols and calls there are (`NotesTell`); `FileIsBad` says when a file is counted as
  partial though none of its symbols is.

`SessionProofs` proves the session's five invariants.  `PlanInv` carries the types and
the clamp; `LocalInv` adds that an inactive session has neither sent nor recorded
anything; `StoryInv` says for each phase what has been recorded so far, because
`MetadataAgrees` speaks of finished runs only and is not inductive; `AdviceInv` that
there is no advice before the wording.

`ConfigProofs` proves `Config`'s three invariants from `ConfigInv`, which says for each
stage which layers have decided a key by then.

`RunProofs` proves `ZeroMeansClean`, `HealthWins` and `FailuresLeaveReports` from
one invariant, `RunInv`: until the writing starts, and in a run that failed before it
had anything to write, the disk is as the run found it,
in a dry run nothing is to be written, and in each phase the demands
that were passed to get there still hold.  `ReportsAreOfThisRun` needs the order of
the writes: `WriteInv` says that the disk is the one the run found, overlaid with the
first so many files of what is due, and what is due is the reports and then the proofs
(`ToWriteType`), so that a proof with a name of its own is never overwritten.

`ScannerProofs` proves `PlainFilesAnalysed` and `CountedOnce` from `ScannerInv`.  What a
search hands to the filter is `Sound`: it holds every plain file that is not excluded,
none outside the roots, and none twice where no include path lies in another.  A file is
plain when no search has a reason of its own to pass it over: it lies below no hidden and
no ignored directory, and no exclusion leads to it from a directory rg may run in.  Each
of the three searches is shown sound on its own, and so is what the filter leaves.

Where a library operator cannot be expanded by the provers, the modules have an own
one that says the same: `Over` for the merge of functions, `Kept` for a filter.

Only model-checked: `RunsHavePaths`, whose reference, the runs of a body, is defined by
recursion over statements (a proof would be an induction over them, which the provers
cannot do), and liveness (`Terminates`, `RunEnds`), which is out of their reach too: that
no behaviour takes infinitely many steps of the walk is a theorem, that its next step is
taken is fairness.  Every other property of a passing run is a theorem.

## Not modelled

Rendering of reports to Markdown, logging, the texts of prompts, answers, titles and
proofs: no property is about them.  The taint catalogue matches text; the explorer
takes the outcome as given.  Of the normalisation the translation of statements and
expressions is left out, a table from kinds of syntax to payloads; its result is what
the builder's model starts from.  The extraction of flat records (`parser/extract.py`)
is read by no part of the analysis.  Links, the patterns of ignore files, the contents of the toolchain
pin and the formats of the two providers are abstracted to outcomes.  The file system
of a run is its output directory.  Time is not modelled: a timeout may fire whenever it
is armed.

Some of what the code does has no property because no text says what it should do:
how long a fact about a name lasts, what `i <= a.count` proves, where an `if` with an
empty branch, a `break` or a `continue` leads, which words of a configuration are
values, whether hidden and ignored directories are to be analysed.  The models have the
behaviour; `PROJECT.json` lists the hazards with a note.

## Plan

1. done: the walk with its state, its abstract specification and the refinement; the
   builder, call by call; frontend, findings, report and the pipeline of the three; session,
   configuration, run, discovery; the proofs above.
2. An abstract specification of another component beside `Search`: what a run of the
   command leaves behind, which `Run` implements.
3. The translation of statements and expressions, should a property about it be stated.
