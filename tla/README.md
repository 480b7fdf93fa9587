# POET: a TLA+ model of the unfolder

POET explores multithreaded C programs by building the *unfolding* of the
program, an event structure, and visiting its maximal configurations, one for
each Mazurkiewicz trace. This directory models the exploration, the event table
it works on, the execution engine below it on its two domains (concrete states
and intervals) and the interpreter; it compares what is explored with what the
program can do, and proves the laws of the event structure, the optimality and the
completeness of the exploration on every event structure, the soundness of the
interval analysis and the exhaustiveness of the interpreter's search. All paths
below are relative to `src/src/`.

## Inventory

| part | source | state | operations | modelled in |
|---|---|---|---|---|
| unfolder | `Exploration/UNF/Unfolder.hs`, `State.hs` | `UnfolderState`: prefix, call stack, counter, cutoff table, options, statistics; the activations of the recursive `explore` | `explore`, `unfold`, `extend`/`ext`, `add_event`, `possible_altes`, `alt2`, `core`, `prune` | `Unfolder`, `Extensions`, `Alternatives`; `Exploration` for any program |
| event table | `Exploration/UNF/API.hs` | hash table from identifiers to `Event` | `set_*`, `add_succ`, `add_icnf`, `del_event`, `predecessors`, `successors`, `is_dependent` | `EventTable`, `EventStructure` |
| cutoffs | `Exploration/UNF/Cutoff/McMillan.hs` | table of states and sizes | `cutoff` | `Extensions` |
| actions | `Domain/Action.hs`, `MemAddr.hs` | sets of addresses by kind | `interferes`, `isLock`, ... | `Action` |
| execution engine | `Domain/Class.hs` | `FixState`: node table, worklist, marks, widening counters, warnings | `fixpt`, `worklist`, the three updates, `fixpt_result`, `handle_mark`; `run`, `drun` | `Fixpoint`; `Collapse` for the concrete domain |
| concrete domain | `Domain/Concrete*` | heap, thread table, thread counter | one transformer per statement | `Collapse` |
| interval domain | `Domain/Interval*`, `Domain/Util.hs` | an interval per variable | order, join, widening, arithmetic, one transformer per statement | `Interval` |
| interpreter | `Model/Interpreter.hs` | list of pending states, table of visited states, two counters | `execute`, `bfs`, `dfs_tree`, `dfs` | `Interpreter`; `Traces` (`dfs_tree` on programs) |
| drivers, printing | `Main.hs`, `Util/*` | none | | not modelled |
| SUNF, Prime, BFSUNF, POR, Powerset, Sign, Parity, Synchron, Test | | | | not part of the executable |
| `libc/`, `tools/`, `benchmarks/` | beside `src/` | | | third-party C sources and inputs, not part of POET |

How they interact. `unfolder` calls `explore` on the configuration with the
bottom event. `explore` picks an enabled event; `unfold` executes it with
`drun`, asks `enabled` which threads can go on, and for each calls `extend`,
which runs the thread to its next global action with `run` and adds one event
for every history the step can have. At a maximal configuration `possible_altes`
records which conflicting extensions are worth exploring; on the way back `alt2`
picks one. In stateless mode `prune` then deletes what is not needed any more;
with cutoffs `add_event` drops an event whose state was reached before by a
smaller configuration.

Under both, `run` is a worklist over the control flow graph of one thread: it
computes a fact for every node the thread can reach before its first global
action, and one result for every edge that performs such an action or ends the
thread. On concrete states this follows a single path; on intervals paths join
and loops are widened. The interpreter is the other client of the domains: it
searches the state graph, with or without a table of visited states.

The program is sequential. What is hard is not a race inside the tool but the
length of the protocol between the pieces: identifiers are remembered in the
stack, in disabled sets, in alternatives and in suspended activations of
`explore` while events are added and deleted; actions are recomputed after
dependency was decided from them; lists stand for sets. The interleavings are
those of the *explored* program, and the tool is right when it accounts for each
of them exactly once. `PROJECT.json` lists the hazards at their lines.

## Modules

- `Lists`: the `Data.List` operations on identifiers; a list is a sequence with
  its head first. Order is kept wherever the code can observe it.
- `Action`: actions as sets of addresses; `is_dependent`.
- `Collapse`: a program maps a function symbol to a list of edges; `run` follows
  a thread through local edges to the first marked one, with the node table that
  `drun` also consults. A conditional is one instruction for the two edges of
  which the concrete semantics takes one. `pthread_exit` leads to the exit node,
  as the control flow graphs of the front end (not in this repository) do.
- `EventTable`, `Extensions`, `Alternatives`: the operations on the prefix, in
  the order and with the tests of the code.
- `Unfolder`: the state machine. `frames` is the stack of activations of
  `explore`, `job` the loop over threads and histories inside `unfold` or
  `initial_ext`, `err` the error call that stopped the program. `maxconfs` is a
  history variable.

| action | code |
|---|---|
| `Extend` | `extend` and `ext` up to the histories of one thread |
| `AddEvent` | `add_event` for one history: duplicate, cutoff or `add_ev` |
| `Unfold` | the end of `unfold` / `initial_ext`, `push`, the recursive call |
| `ExploreMaximal` | `explore` without enabled events |
| `ExploreEvent` | the choice of `e`, `set_disa`, `prune_config`, `execute`, the start of `unfold` |
| `Backtrack` | `pop`, `alt2`, the call on an alternative |
| `Return`, `Prune` | `core`, `prune`, one `del_event` a step |

- `Exploration`: what `explore` does with an event structure, whatever program it
  stands for. Lists are sets, except for the call stack and the activations, and
  where the code takes the first element that fits, any one may be taken. The
  program appears only in what `unfold` finds out about it, and of that the module
  takes two things as given: a new event has a configuration as its history, with
  the event that is being executed in it (`AddEvent`), and the enabled events of a
  new configuration are the events of the prefix that extend it (`Unfold`).
  `visited`, the maximal configurations explored, and `late`, the events found only
  after one of these held their history, are history variables.

| action | code |
|---|---|
| `AddEvent` | `add_ev`, for any history and conflicts that `ext` and `compute_conflicts` may find |
| `Start`, `Unfold` | the end of `initial_ext` and of `unfold`, `push`, the call of `explore` |
| `ExploreMaximal` | `possible_altes` with `computeV`, at a maximal configuration |
| `ExploreEvent` | the choice of `e`, `set_disa` |
| `Backtrack` | `pop`, `alt2`, the call on an alternative |
| `Return`; `ReturnStateless`, `Prune`, `Pruned` | the end of `explore`; with `core` and `prune`, one `del_event` a step |

- `EventStructure`: the most abstract specification. A prime event structure that
  grows by an event whose history is a configuration (`Add`), shrinks by an event
  with everything above it (`Delete`), and a current configuration entered by an
  extension (`Push`) and left by a maximal event (`Pop`).
- `Traces`: the reference. Runs all schedules as `dfs_tree` does and identifies
  those that differ in the order of independent steps.
- `Interpreter`: the four modes on an arbitrary state graph `syst`, given by the
  list of successors and the hash of every state. `pending` is the argument list
  of `dfs`, `visited` the hash table, one state per key, `n` and `m` its counters.
  `seen` and `expanded` are history variables. `IPSingleRand` has no case in
  `interpreter`, which therefore stops at once, and is left out.
- `Search`: the abstract specification of `dfs` and `dfs_tree`. Every state met is
  reachable, and the search ends only when the states met are closed under steps.
- `Interval`: bounds, interval values, states and the transformer of every kind of
  edge; after them the reference, `Steps`, which executes an edge on integers. An
  effect has the field `bot` where the code returns a bottom state.
- `Fixpoint`: the engine on `Interval`. A graph has edges with tags and code; the
  state is `FixState` and the worklist. `local` is a history variable: the node
  table at the moment the worklist was empty, before `handle_mark` changes it.

| action | code |
|---|---|
| `worklist_bottom` | `worklist`, the effect of the edge is bottom |
| `worklist_mark` | `worklist`, the edge is global or the last: `add_mark` |
| `worklist_update` | `worklist`, a local edge: the update its tags ask for, `update_node_table`, `nub` |
| `fixpt_result`, `handle_mark`, `Return` | the marked edges, one a step, in the order of `S.toList` |
| `Abort` | the error calls, which stop the program |

- `Programs`: the bodies of the explored threads. `UnfolderProperties`,
  `MCUnfolder`, `MCExploration`, `MCInterpreter`, `MCFixpoint`: properties and
  instances. The proofs: `EventStructureProofs`; `ExplorationFacts` (invariant and
  lemmas), `ExplorationProofs` and `ExplorationCompleteness`; `InterpreterProofs`;
  `IntervalProofs`; `FixpointFacts` (invariants and lemmas) and `FixpointProofs`.

The operators marked *mutant* are wrong versions of the definition after them;
each property fails when the one `PROJECT.json` names for it is put in place.

## Runs

The programs of the unfolder are families: `main` creates two or three workers,
whose bodies range over a few statements, and joins them. Each is explored
stateful and stateless.

| run | what it shows |
|---|---|
| `schedules` | three workers that write or read, critical sections, nested locks, an error inside a section, branching on shared data, early exit, a thread started by a worker: optimal and complete, no duplicate events, enabled events match enabled threads, stateless mode keeps the current branch only, every event can happen after its history, the state of a configuration does not depend on the order of its events, the warnings are those of all schedules, the `icnf` lists hold exactly the immediate conflicts, found by comparing all events rather than by the search of `compute_conflicts`, every step is a step of `Exploration`, and without locks every event is found in time (`FoundInTime`, see the proof of completeness) |
| `loops` | endless loops with cutoffs: the exploration ends without an error, no warning is lost and in stateful mode no block of code, and every step is a step of `Exploration` |
| `exploration` | the exploration of every event structure over five identifiers, in both modes: the invariants of the event structure, no failing lookup, activations that find what they left, disabled events that stay out, no maximal configuration twice, and none missed if no event was found late |
| `interpreter` | all acyclic graphs of four states with at most two successors each and every way to share hash values, all graphs of three states with cycles and no collision (`dfs` only), and the state graphs of programs: the search is exhaustive and ends, `dfs_tree` counts schedules, `dfs` counts steps, and a state is expanded again only after a collision |
| `fixpoint` | branches, loops, a branch in a loop, a loop after whose first `unlock` the analysis starts, a loop with a statement after it: no internal error, a post-fixpoint, soundness against `Steps`, all warnings, facts that only grow, termination |

The specifications form three layers:

    Unfolder  --TLC, runs schedules and loops-->  Exploration  --proof-->  EventStructure

`ImplementsExploration` states that every step of the unfolder is a step of
`Exploration` or leaves its state unchanged, under the mapping that forgets names
and actions, the order of lists, and the thread states of configurations. It is
checked program by program, and it includes what `Exploration` takes as given of
`ext` and `unfold`. That step taken, the rest holds by proof, for every event
structure: `Exploration` implements `EventStructure` and has the properties that
the run `exploration` checks on a small instance.

### Where the code and its comments disagree

Each of these runs has one small program that violates what a comment says; the
quotation is in `PROJECT.json`.

| run | program | what happens |
|---|---|---|
| `opposite_order` | two mutexes taken in opposite order | an event locks a mutex held in its own past |
| `write_then_lock` | a write and a lock in one block | `histories_lock` aborts |
| `conditional` | a branch on a raced variable | a history with two events in conflict |
| `two_creators` | two concurrent creations | the event of an enabled thread is dropped |
| `write_then_join` | a write and a join in one block | a trace is missed |
| `not_equal` | `if (x != 0)` with `x` in [-1, 2] | only -1 is left in the branch |
| `dropped_actions` | `if (c) x = 0; else x = y;` with `y` = 0 | the read of `y` is not among the actions of the block |

Two more were met and are not runs: three writers and a reader of both variables
give the same event twice, its history in two orders (`nub` on lists that stand
for sets, `Unfolder.hs:325`), against `NoDuplicateEvents`; a writer behind a lock
and two readers give an `icnf` with a conflict and its cause, although the field is
for immediate ones, against `ImmediateConflicts`.

The families of the passing runs leave these shapes out; the passing runs
therefore say that the exploration is right on programs that do not mix a race
and a global action in one block, take locks in one order and release them, and
create threads from one thread at a time. The graphs of `fixpoint` have `!=` only
as the negation of `==` on a mutex, with 0 or 1 as its values, where nothing is
lost.

`Test/Tests.hs` expects 4 maximal configurations for one writer and two readers;
with `interferes`, which lets two reads interfere, there are 6. The test gives
its own independence relation to an earlier interface, so this is no
disagreement of the present code with itself.

### Bounds

- `MaxEvents = 5` identifiers in `exploration`, deleted ones included: enough for
  two conflicts, an alternative inside an alternative, and a deletion while two
  activations are suspended; the proofs remove this bound.
- `MaxPath`, `MaxRun`, `MaxDepth` (12, 20, 20) bound the recursive functions that
  follow one run, all schedules, and all states; the programs are shorter (the
  longest run has 12 steps, and the reachable states close earlier), so the
  values are those of the unbounded definitions.
- `MCInterpreter`: four states are enough for two paths of different length to
  meet in an inner state and in a final one; `MaxRun = 12` is longer than any run
  of the two workers. The graphs with cycles need a hash without collisions: two
  states that overwrite each other can keep `dfs` going for ever.
- `MCFixpoint`: `MCLevels = {1, 2}` widens at the second and at the third visit of
  a loop head; the counters stop at the level. `MCInts = -1..2` are the integers
  `Sound` tries in a fact; the starting intervals and the constants lie in the
  same range. The engine has no bound; the proofs remove those of the instances.
- The unfolder itself has no bound: every run of TLC is the complete exploration.
- Two or three workers: two give races and lock orders, three give alternatives
  inside alternatives and disabled sets with more than one event.

### Fairness

POET is sequential, so the fairness assumed is that its only thread takes steps
until it stops: `WF_vars(Next)` for the interpreter and the fixpoint engine
(`FairSpec`, `MCSpec`). For the unfolder, whose `Next` is expensive to evaluate,
`Fairness` is the same formula with the enabling condition written out as
`Stopped`. No fairness between actions is assumed anywhere.

## Proofs

### The event structure

`EventStructureProofs` proves, with no assumption on constants (there are none)
and for any number of events, that `IInv` is inductive, and derives each of the
invariants and the action property `PastIsFixed`. `IInv` is the conjunction of the
invariants of `EventStructure` (`CausalOrder` is `PredSuccInverse` and `Causality`),
of `LocalConfigurations` and `ConflictsNotInherited`, which say that conflict is
symmetric and that the pasts of conflicting events are compatible, and of
`Founded`: every set of events that is not empty has a causally minimal one. It
does not say that a listed conflict is immediate, since the code can list an event
beside one of its causes (where the code and its comments disagree);
`ImmediateConflicts` checks it on the programs of `schedules`. Why the conjunction is needed: that a new
event has no conflict in its past (`LocalConfigurations`) needs that histories are
closed under causes (`Causality`); that a deletion leaves the stack a
configuration needs that the stack is causally closed; that the new identifier
is fresh needs `Rooted`; that the causes of two conflicting events stay
compatible needs the symmetry of conflict when an event is added on the other
side. `Founded` is what `Rooted` says without arithmetic, and stands where one
would argue by induction over the events. One lemma treats each action (`AddInv`,
`DeleteInv`, `PushPopInv`), with a step per conjunct; `LocalHistory` collects what
all of `AddInv` uses.

### The exploration

`ExplorationProofs` proves, for any number of events and of nested calls, in
stateful and in stateless mode:

- `ExplorationRefines`: what is pushed extends the configuration, what is popped is
  maximal in it, and what `prune` deletes is never part of it;
- `NeverFails`: an alternative that is followed has an enabled event, and no event
  that `explore`, `alt2`, `core` or `prune` looks up has been deleted;
- `AlwaysResumes`: an activation finds the stack as it left it, and the enabled
  events it remembers are still right, but for those that were deleted;
- `DisabledAlwaysOut` and `OptimalExploration`: a disabled event stays in conflict
  with what is explored, and no maximal configuration is explored twice.

The only hypotheses are those that `Exploration` states in its guards (see above).
The inductive invariant `EInv` (`ExplorationFacts`) has one conjunct per reason
why the recursion works:

| conjunct | what it says | needed because |
|---|---|---|
| `Stack`, `Running`, `Chain` | the stack lists the configuration in causal order; only the last activation runs; from one activation to the next the configuration and the disabled set grow | `pop` must take off the event the activation pushed, and that is maximal |
| `Knowledge` | the enabled events of every activation are the extensions of its part of the stack; the disabled ones are in the prefix, with their causes on the stack | events are added and deleted while the activation is suspended; a new event has the one being executed in its past and so extends no older configuration |
| `Alternative` | the configuration and the alternative together are a configuration, disjoint, that conflicts with every disabled event | the call must reach the end of the alternative, and never a disabled event |
| `Alternatives`, `Pruning` | recorded alternatives are configurations; in stateless mode only events on the stack, disabled or about to go have any; what is to be deleted is outside the core | deletion must not reach into an alternative that `alt2` may still pick |
| `History` | a maximal configuration explored before holds an event that the activation has disabled, or extends what the activation itself has explored | the next one is different from it |

That the alternative has an enabled event is where `Founded` enters: a minimal
event of it has its causes on the stack. There is one lemma per action
(`AddEventInv`, `UnfoldInv`, `FollowInv`, ...), with a step per conjunct that the
action can disturb; `MoveStep` and `ReturnStep` collect what the actions have in
common that change or remove the last activation only.

### Completeness of the exploration

`ExplorationCompleteness` proves `CompleteExploration`: when a stateful exploration
ends, and no event was found late, the configurations it explored are exactly the
maximal configurations of the prefix. This is the half of correctness that a
reduction can lose silently: after `e` was explored, `explore` goes on without `e`
only if a maximal configuration below `e` recorded an alternative (`computeV`), and
`alt2` still finds it under the disabled events of that moment.

The invariant `CInv`, on top of `EInv`, says what `explore` has achieved. *`M`
justifies `D`* when `M` conflicts with every event of `D`, and a configuration is
*covered* when a maximal configuration above it was explored.

| definition | what it says | needed because |
|---|---|---|
| `Explored(C, D)` | every configuration above `C` that justifies `D` is covered | it is what a call of `explore` on `C` with the disabled events `D` promises its caller |
| `Left(x, C)` | of every `P` above `C` that justifies what was disabled when `x` was chosen and can take `x`: `P` with `x` is covered, and every conflicting event that `P` can take is in an alternative of `x` | when `alt2` finds nothing, a configuration not yet covered would, at the event with which it starts to justify the disabled ones, lead to an alternative that `alt2` had to find |
| `Noted(x, C, D)` | the second half of `Left` below every configuration explored so far | alternatives of `x` are recorded while `x` is on the stack, one maximal configuration at a time |
| `Layered(D)` | of any of the disabled events one was chosen when none of the others was disabled | a configuration that does not justify `D` takes the one chosen first, and is covered by what was explored above that |
| `Bounded` | sets of events have a first and a last one | stands for the induction along a configuration, towards the place where it starts to justify `D` |

`Progress` says this of every activation, by its program counter, and `Returned` of
the activation that a call returns to. The lemmas `NotesAlternatives`
(`possible_altes` keeps `Noted`), `LeavesEvent` (`Noted` becomes `Left` when the
call returns), `NothingLeft` (nothing is left when `alt2` finds no alternative) and
`ReturnCovers` (the caller finds done what it called for) carry the argument; then
there is one lemma per action.

The hypothesis `late = {}` cannot be dropped: TLC finds an event structure in
which an event turns up after the configuration that should have recorded it, and
is missed. Nor does every program satisfy it: `histories_lock` takes one unlock
further back each time, and finds the lock events of older critical sections
late. On the programs of `schedules` without locks every event is found in time
(`FoundInTime`); on those with locks `Complete`, which compares with the schedules
of the program, is what shows that nothing is lost. In stateless mode the prefix
that `visited` is compared with is gone when the exploration ends; `Complete`
covers that mode as well.

### The interpreter

`InterpreterProofs` assumes only that the successors of a state are states and
that every state has a hash (`SystemsAssumption`): any number of states, cycles,
collisions. `IInv` adds to the type that the table holds states whose successors
were met and that every state met is still pending or has its successors met
(`Frontier`), which closes the search at its end and which a cutoff keeps because
the state is in the table; and that an expanded state is in the table until
another one with its hash is expanded (`Remembered`), from which `CollisionsOnly`
follows. `Refinement` maps every step to one of `Search` with `IInv`.

Two more theorems are about the numbers that are reported. A count over lists of
states is any function that is additive for `++` (`SumsOver`). `EverySchedule`: if
`W` counts maximal paths (`CountsPaths`: 1 for a state without successors, else
the paths of its successors), `dfs_tree` ends with `W` of the initial state as its
number of traces; the invariant is that traces reported and paths of the pending
list add up to that number. `EveryStep`: `dfs` ends with one trace per step into a
final state and one cutoff per step into another state, less one per expansion,
counted along `expanded`, for every hash function. That such counts exist for a
given graph, and are the sums of `CountsSchedules` and `CountsSteps`, is a
recursion over the graph and is left to the run.

### The interval domain

`IntervalProofs`: for all variables, bounds and integers, sum, difference and
product of intervals contain those of their members; comparisons keep every
concrete state that satisfies them (`TransformerSound`); and transformers are
monotone (`TransformerMono`). The condition `!=` is excluded by name: the
`not_equal` run is the counterexample.

### The fixpoint engine

`FixpointProofs`, from `GraphsAssumption` (well-formed graphs: `WellFormed`) and
`LevelsAssumption` (a level of at least 1), for any number of nodes, variables
and loops. `IInv` says that the table and the worklist are well typed, that every
edge whose source has a fact is on the worklist or *settled* (its effect is
bottom, marked, or below the fact of its target), and that a marked edge ends the
block. `TypeCorrect`, `ReachesPostFixpoint` and `WarningsComplete` follow.
`FixpointFacts` has the invariants and the lemmas on lists and updates.

Nothing in `IInv` keeps facts from shrinking: `strong_update` replaces them, and
an edge that was marked could turn bottom. A second invariant, `SInv`, rules this
out: what a node entered by `strong_update` holds is the effect of an older,
smaller fact of the source (`FromOlder`), so by monotonicity the new one is above
it. `SInv` also records that a marked edge is not bottom and that each treated
mark has a result with all it can lead to (`HasResult`). It
gives `ErrorFree`, `AnalysisSound` and `FactsOnlyGrow`, under the hypothesis
`NoNotEqual` (no edge of the graphs has the condition `!=`), because the
transformer of `!=` is neither sound nor monotone.

### Only model-checked

- That `Unfolder` implements `Exploration`: the recursive functions that compute
  histories, conflicts and enabled events (`history`, `histories`,
  `compute_conflicts`, `predecessors`) are `RECURSIVE` operators over lists, and
  what they compute for every program would take an induction over lists that the
  prover cannot do on `RECURSIVE` operators. Nor is it true of every program: the
  runs `opposite_order` to `write_then_join` are programs on which what they
  compute is wrong.
- `Complete`, `Optimal` (of traces rather than of configurations),
  `EnabledEvents`, `HistoryEnables`, `StateOfConfiguration`, `NoDuplicateEvents`,
  `ImmediateConflicts`, `CoversBlocks`, `Warnings`: they compare the prefix with the executions of the
  explored program, which `Exploration` does not mention. `CurrentBranchOnly`, a
  bound on what stateless mode keeps, which depends on which events `ext` finds.
- `Termination` of the unfolder, of the interpreter and of the fixpoint engine:
  the prover has no reasoning about fairness.
- `CountsSchedules` and `CountsSteps` as they stand, with the numbers of paths and
  steps computed by recursion from the graph; `EverySchedule` and `EveryStep` prove
  them for numbers that satisfy the same equations.
- `FoundInTime`, that `ext` finds events early enough, which depends on what
  `histories` computes.

## Not modelled, and why

- The unfolder on the interval domain: a thread then has several results per
  block, `is_enabled_int` and `drun` choose among them, and the cutoff test is an
  order. `PROJECT.json` lists the hazards of this combination.
- In the interval domain: division and `meet`, arrays and offsets, declarations,
  `&&` and `||` of the source, thread creation and joining. Difference and product
  of infinite bounds call `error`; the model stops there with the outcome
  "infinite bounds", which lazy evaluation may delay in the program.
- Graphs where a loop re-enters the position of the thread by an edge without a
  join tag while one edge from there ends the block and another does not
  (`Structured`): there `handle_mark` replaces the fact that later marks start
  from. Which tags loops carry is decided by the front end, which is not in this
  repository. Widening level 0, with which the first visit of a loop head calls
  `error`.
- A thread that ends while it holds a mutex: the traces in which another thread
  would wait for it for ever are not all explored, and no comment says they are.
- Printing, option parsing, the terminal dialogue of the interpreter, the front
  end, the modules that are not part of the executable, and the third-party
  sources and inputs in `libc/`, `tools/` and `benchmarks/`.
