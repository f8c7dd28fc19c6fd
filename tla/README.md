# Mate IR: a TLA+ model of the compiler and of the models it generates

Mate compiles synchronous SystemVerilog to an IR (`MateIR`), checks its clock and
reset domains, and emits a native model of the design behind a C ABI together with
a SystemVerilog wrapper that replaces the module in a testbench. This directory
models and model-checks the way of a module through that compiler, from the
statements of its blocks to the graph the passes leave; the values it computes
with; the domains it gives to clocks, resets and data; and it proves what the
generated model and its wrapper promise their testbench. Paths below are relative
to the repository.

## The system

### Components

| component | state | operations | what makes it correct |
|---|---|---|---|
| native ABI runtime, `src/src/abi` | an instance: words of inputs, outputs, flop D and Q, the flag `inputs_dirty` | create, init, set or record inputs, commit or apply a clock or reset edge, settle, settle if dirty | D and the outputs belong to the stored inputs and flops unless the flag says otherwise; a flop in reset holds its reset value; a failed call leaves a state later calls repair |
| generated commits, `makeNativeFlopCommitCpp` | the flop words | one commit per clock domain, one reset function per reset domain, power-up values | only the domain's flops move, under the reset guard |
| edge-commit protocol, `mate_model_abi.h` | none of its own | settle if dirty, commit every edge of the instant, settle | coincident edges read one pre-edge snapshot, in any order |
| DPI glue, `makeCpp` | the context: instance, tracer, `pending_trace_time` | record, set inputs, commit, settle, dump | each instant is traced as it ended, no ordering check fires |
| SystemVerilog wrapper, `makeSv` | `initialized`, `last_*`, `*_changed`, `need_settle`, `next_*`, scheduled updates | initial block, refresh block, record block, edge block, final block | ports and instance agree at rest, outputs are current, no edge is lost |
| wrapper analysis, `sourceSignalDrivesLogic`, `analyzeWrapperCombDependence` | none | reachability over the graph | what it calls independent is independent |
| generated evaluator, `makeNativeModelCpp` | the spill buffer | topological order, chunks, spills, MUX switches | computes the graph |
| tracer and VCD, `src/src/tracer` | previous snapshot, last time | dump, close | monotone time, changes only |
| runtime metadata, `src/src/sim` | input roles, storage indices, flops by domain | build once | every flop in exactly one clock's list |
| values, `src/src/util`, `src/src/sim/fixed_value.h`, `src/src/mateir/constant_value.cpp` | none | arithmetic, shifts, slices at any width | agree with SystemVerilog at every width |
| Mate IR, `src/src/mateir` | graph, modules, registries | edit, validate, evaluate | no dangling uses, no combinational loop |
| front end: extraction, elaboration | scopes, parameters, the graph under construction | syntax to modules | the graph means what the source says |
| graph passes: inline, fold, types, normalise, CSE, vectorise, DCE | the graph | rewrite | outputs and flop D keep their value |
| flop resolution | flop facts | match the D cone against the triggers | reset polarity and value are those of the source |
| domain passes: top facts, global resolution, propagation, CDC check, emission | domain facts, registries, synchronizers | load or infer, resolve, propagate, check, emit | no unsynchronised crossing is accepted, emitted files reproduce the compile |
| static analysis, language metadata, linking | none that matters | report, serialise, run the compiler | |

### How they interact

The front end runs once: extraction, elaboration, then the passes of
`systemverilog_pipeline.cpp` in a fixed order over one graph. Its product is the
`MateIR`, from which the code generator emits the commits and the evaluator (C++),
the DPI functions (C++) and the wrapper (SystemVerilog). At run time the
testbench's simulator schedules the wrapper's processes; they call the DPI
functions; those call the ABI on one instance; the tracer reads the instance.

The hard behaviour at run time is concurrent: the wrapper's four processes wake on
overlapping events and the simulator may run them in any order; data inputs may
change while they are pending; clock and reset edges of one instant arrive
together and have to take effect together though they are committed one by one;
evaluations are skipped whenever the wrapper believes nothing changed; trace
dumps are made late, for instants that have passed; and a call that fails half-way
leaves its writes behind.

In the front end it is data and order. A block is elaborated by running its
statements over a map from a variable to the node that drives it: a branch
starts from the drivers its statement found and a join puts multiplexers over
what the branches left, so that what is read, restored and merged, and when,
decides what the graph means. A write to part of a variable keeps slices of the
old driver. A child is elaborated by itself and wired to its parent by the names
of leaves, after every block of the parent has run and before the graphs are
joined. A pass rewrites a graph another pass has left, and relies on the shape
and on the types it finds there: the reset of a register is recognised in the
multiplexers of its D cone after they have been folded and normalised. No
assertion of the code compares the graph with the source; that is what the
reference interpreter of `SourceMeaning` is for.

## The modules

| module | models |
|---|---|
| `MateInstance` | one instance and what each ABI entry point and generated commit does to it, as operators from an instance to an instance |
| `MateAbi`, `MCMateAbi` | a harness that calls the entry points in any order, with faulty lists and evaluations that throw |
| `CommitOrder`, `MCCommitOrder` | the header's protocol for coincident edges, on two instances with different commit orders |
| `RtlSync` | abstract: what a synchronous design with asynchronous resets promises its testbench |
| `DpiWrapper`, `MCDpiWrapper` | the wrapper and the DPI functions under the simulator's regions, on one instance |
| `ModelGraph` | the graph a model is generated from: what it guarantees, what lies below a node, and what the graph means |
| `GeneratedEvaluator` | generation of the combinational evaluator (sort, chunks, spill buffer, MUX switches, seeds) and its evaluations |
| `WrapperCones` | the searches that decide what the wrapper need not refresh |
| `Codegen`, `MCCodegen` | both on one graph, in the order of `generateDpi`, and the graphs of its run |
| `CodegenProofs` | the theorems about `Codegen` |
| `MateAbiProofs`, `CommitOrderProofs`, `SyncDomainsProofs` | the theorems about the module each is named after |
| `MateInstanceLemmas` | what the operators of `MateInstance` return, for the proofs |
| `DpiWrapperProofs` | the theorems about `DpiWrapper`, those about its waveform included |
| `SetInduction` | induction over sets of numbers, for the recursive functions and the graphs of the other modules |
| `GlobalDomains`, `MCGlobalDomains` | clock and reset domains through the module hierarchy: both walks, the inference of top-level domains, the registries |
| `GlobalDomainsProofs` | the theorems about `GlobalDomains` |
| `SyncDomains`, `MCSyncDomains` | types on the flat graph: seeds, sweep, recursion over D cones, CDC check, combinational loop check |
| `WordOps`, `BitVectorValue` | words and bit vectors: the values of the interpreter and those of generated code, operation by operation |
| `ValueArithmetic`, `MCValueArithmetic` | a chain of operations on both, beside the integer they stand for |
| `Dfg` | the graph: nodes, rewriting, validators, and the interpreter as the meaning of a node |
| `TypePropagation`, `ConstantFold`, `Vectorize`, `FlopResolve` | the passes those files hold, as operators on graphs |
| `ConstantValue`, `ConstantEval`, `ParameterValues` | typed constants, constant expressions, parameters and the types in terms of them |
| `ExprBuild` | expressions, targets and conversions to nodes |
| `StatementLowering` | assignments, `if`, `case` and loops, combinational and clocked blocks |
| `Elaboration` | one module: its declarations, its blocks in order, the drivers of its outputs and registers |
| `Hierarchy` | its instances: their parameters, their modules elaborated anew, the connections of their ports |
| `CompilePasses` | the pipeline: elaboration, then each pass, then the last checks |
| `SourceMeaning` | the reference: what the statements of a module give, computed without a graph |
| `MCElaborate` | the designs of the runs `compile` and `elaborate_case` |

### From code to model

* An instance is a record: `in` (all input words), `d` and `q` (the FlopD and
  FlopQ observables), `out` and `dirty` (`inputs_dirty`). Ports and flops have one
  leaf each: a port with several is several inputs with one role, which the
  operators never tell apart.
* The design is a set of constants: roles of the inputs, clock domains as pairs
  of a source and an active edge, domain and resets of each flop, reset values,
  initializers, and the evaluator as two operators `NextD` and `OutputOf`. The
  named assumptions state what the compiler guarantees of them
  (`DomainsOfClocks`: a clock port owns at least one domain, else
  `runtimeClockForPortEdge` throws). A flop with resets has a reset value, as
  flop resolution requires.
* `ClockCommit` and `ResetApply` are the generated functions; `ArriveAtEdge`,
  `CommitClock` and `CommitReset` are `commitClockEdge` and `commitResetEdge`;
  `PowerUp` is the fill of the flops in `mate_instance_init`, `InstanceInit` the fill
  with the evaluation after it.
* In `MateAbi` every entry point is an action with its error returns: a list with
  a bad entry stores what stood before it, a negative count stores nothing, an
  inactive edge refuses a list, a handle the table does not hold is refused by the
  edge calls, and an evaluation that throws leaves each leaf old
  or new and the flag cleared (`TornEvaluations`).
* In `DpiWrapper` an `always` block is an action that runs to completion
  (`CombRefresh`, `RecordBlock`), except the edge block, which runs in one step
  per DPI call that matters (`EdgeStart`, `EdgeSettleIfDirty`, `EdgeCommitClock`,
  `EdgeCommitReset`, `EdgeFinish`): no other process runs in between (so no port
  moves while it runs), but the invariants are checked there. A process woken by a
  change is in `pend`.
  `NbaRegion` makes the scheduled updates together with whatever the testbench
  assigned without blocking; `Tick` advances time when nothing is left.
* The testbench is any testbench: `Drive` moves any ports to any values when no
  process is pending, `RacyDrive` moves data inputs while processes are pending
  (blocking assignments) as far as `RacyInput` lists them, and `NbaRegion` moves
  anything (nonblocking ones).
* The clock ports may be committed in any order in the model, the code has one
  fixed order, and resets always follow the clocks.
* The waveform is a map from time to the last dump made for it; `truth` is a
  history variable with what each instant was when it ended.
* In `ModelGraph` a node is a number, in the order of `dfg.nodes`, and a graph a
  record of maps from nodes: kind, type, inputs, the codes of a MUX, and which
  nodes are data inputs, clocks and resets, outputs, Ds, observables. What an
  operation computes is the constant `Apply`, of which only the type of its result
  is assumed (`OperationsTyped`); `MCCodegen` gives it the operators of `Dfg`.
  `GraphsWellFormed` is what `validateStrictLiveDFG` and `validate` of the IR check:
  only inputs, constants and X read nothing, and a MUX has one arm for every code
  of its selector. `Meaning` is a solution of the interpreter's equations
  (`NodeMeaning`); an X means zero, as generated code has it.
* `Root`, `Descend`, `Leave` and `Sorted` are the depth-first search of `topoOrder`,
  `PlaceNode` the cut into chunks, with `Budget` for the 4000 lines of a chunk,
  `ReserveSpill` an offset in the spill buffer, `EmitNode` the test that every
  operand is in scope, an origin or spilled, `EmitSeeds` the slots of observables
  that are bound to origins. `Evaluate`, `Statement` and `Return` are one call of
  the result; neither the buffer nor the slots are cleared between two.
* The recursions of `analyzeWrapperCombDependence` are a stack of calls and a memo
  that holds a node, as not reaching, from the moment it is asked; a call takes
  what it asks in any order and stops at the first answer that is true.
  `sourceSignalDrivesLogic` is a worklist for each source.
* In `GlobalDomains` a design is a record of modules: ports, flops with the clock
  and resets they name, instances with what drives their ports, and what a signal
  is an alias of. Each operator is one function of the passes, each action one
  stage: the demands of the modules, the walk that lifts them to the top
  (`InferPorts`), the declared or inferred top domains, the walk down that interns
  identities (`EnterModule`, `InternDemand`), the flops. An error is a final
  phase. The YAML is a map from a port to its domains.
* In `SyncDomains` a graph is a record of nodes in the order of `dfg.nodes`. A step
  of the sweep is one node; the recursion `computeSyncTypeFromFanin` is a stack,
  so that a call for a node that is being computed is visible as what it is, a
  recursion that does not end.
* A word has `WordBits` bits and a value is a sequence of words, least significant
  first, with its width. Every operation of `bit_vector_value.cpp` and
  `fixed_value.h` is an operator over such sequences and goes word by word where
  the code does; `ValueArithmetic` holds one value in both forms and the integer
  beside them.
* A module of the source is a record: declarations of ports, variables,
  parameters and local parameters, overrides, combinational blocks, clocked blocks
  and continuous assignments. Syntax is a tree of records: an expression has a
  kind `k`, arguments `args` and a value `v`, a type the dimensions it was written
  with. Extraction only copies syntax into such records and is not modelled.
* Elaboration threads one record through its operators, the graph with the
  drivers, parameters and types of the scope (`Resolver` and `LowerCtx` in the
  code). An operator that throws returns the empty set and one that succeeds the
  set of its one result, so that a failure anywhere in a statement is a failure
  of the module: the action that lowers it has no successor but the rejection.
* The actions of the compile are those of the code at the level of its loops:
  the declarations (`ResolveModule`), each block in turn (`Elaborate`), the
  drivers of outputs and registers (`FinishElaboration`), each pass (`RunPass`),
  the checks (`FinalChecks`). The constant operators `Resolving`, `Lowering`,
  `Passing`, `Expected`, `Faults` and `Means` are given their definitions
  `ResolvedModule`, `LowerItem` (of `Hierarchy`), `PassResult`, `SourceState`,
  `SourceFaults` and `GraphMeans` in the configuration; the indirection has no
  meaning of its own and keeps TLC's statistics at the level of actions.
* An instance is a record of a module, overrides and connections: named, open
  (`.a()`), implicit (`.a`), `.*` or by position. `ResolveInstance` elaborates its
  module, a record of the same form as the top, and keeps it as a child with a
  binding: which node of the parent drives each input leaf, which placeholder stands
  for each output leaf. The nodes of a child are numbered after those of its
  parent. The first pass (`DfgInline`) joins the graphs, children first.
* The reference knows no instances: `Flat` puts the variables, blocks and
  parameters of a child under the instance's name into its parent and turns every
  connection into an assignment. `ElaborationMeansTheSource` compares after the
  first pass, when there is one graph.
* A graph is a sequence of nodes with operator, inputs, type and attributes, and
  node identities are positions. Passes that rewrite in place return the rewritten
  graph; what the code reaches from a module (the roots) is a map beside it. Its
  meaning is what the interpreter of `dfg_eval.cpp` gives for an assignment of
  the inputs and registers, and every pass is compared with that on every
  assignment.

## The runs

| run | design and bounds | shows |
|---|---|---|
| `abi_calls` | 1 clock used on both edges, 1 reset, 2 flops, bits | `SettledInstance`, `ResetHolds` and `ApplyClockSamplesItsInputs` over every sequence of calls |
| `commit_order` | 2 clocks and 3 domains, 2 resets of opposite polarity, 3 flops | the commit order cannot be observed as long as no reset is released at an active clock edge |
| `dpi_racy` | 2 clocks, 1 reset, 3 flops, two data inputs of which one, read by a flop only, races the blocks | all the proved invariants, the refinement of `RtlSync`, and combinational outputs that are current as long as the inputs of their cone do not race |
| `dpi_racy_comb` | same, with the data input in the cone racing | a combinational output goes stale |
| `dpi_trace` | 1 clock, 1 reset, registered output, 3 instants, racing | every instant is traced as it ended, no ordering check aborts, and a port change reaches the instance although the testbench goes on racing |
| `global_domains` | every wiring of two submodules below a top: straight, swapped, through aliases and through logic; both edges; three YAML files and inference | identities are those of the flat wires, and exactly the unsupported designs are rejected |
| `global_domains_top` | same | a submodule port named like another top-level clock replaces the identity recorded for that clock |
| `codegen` | six graphs of up to twelve nodes, words of four bits, values of up to six, three lines to a chunk, any evaluations one after another | generation fails for a loop only, an evaluation leaves in every output, D and observable what the graph means, and the wrapper's searches are exact and sufficient |
| `sync_domains` | every graph of six nodes in any order, loops included, two flops of two domains, with and without synchronizer inference | sweep, recursion and check say what the sources in the cones say; the sweeps end |
| `value_arithmetic` | values of one to five bits over words of two bits, every pair of values, every amount | the interpreter computes the integer, generated code computes what the interpreter does |
| `compile` | 677 modules, 41 of them with one to two instances down to two levels, words of eight bits, constants of four | elaboration, the instances and every pass keep the meaning of the source, a module is rejected only for a cause, and one that is accepted is driven and loop-free |
| `elaborate_case` | case statements whose arms assign a variable of the selector | the selector reads what the last arm assigned |

Leaf values are bits: the control of runtime and wrapper never looks at a value
except to compare it with the stored one and to read the level of clocks and
resets. Two clocks, one used on both edges and the other read by the logic, and
a reset shared by two flops and not by the third, give every branch of the edge
block: active and inactive edges, edges that need a settle and edges that do not,
coincident edges in several domains. Three instants are enough for a waveform: one
that is pending, the one that flushes it and one after. Without tracing, time
plays no role and one instant is explored, with any number of events in it.

Words of two bits make widths of one to five bits cross one and two word
boundaries, and be equal to a multiple of the word and one less and one more: the
places where masks, carries and sign extension can go wrong. In `compile` the word
is eight bits, so that every value of the designs fits one: the words have their
own run.

The graphs of `codegen` have values of two words that statements of other chunks
read, a MUX with shared arms, an X and a resize, an input that is an observable and
the D of nothing, a loop, and no node at all. With words of four bits and three
lines to a chunk nearly every statement has a chunk of its own, so that nearly
every value is spilled; the theorems cover every other cut and width.

The designs of `compile` are families, each the product of the forms one part of
the language has: expressions of one and of mixed widths (`Widths`,
`Expressions`), targets whole, indexed, part-selected, concatenated and of struct
type (`TargetForms`), sequences of up to three statements and every nesting of
`if` and `case` (`CombBlocks`, `CaseBlocks`), clocked blocks (`RegisterBlocks`),
several blocks of one module (`Blocks`), asynchronous resets of both polarities
with and without a value to hold (`Resets`), and parameters (`Parameters`).
Variables have two bits, which is the least that tells a bit from a slice, a slice
from the whole and a sign from a magnitude; three statements are the least with a
write, a partial overwrite and a read. For each design every assignment of its
inputs and registers is evaluated.

`abi_calls` has no property that says what `mate_settle_if_dirty` restores: after an
evaluation that threw, the call returns OK over words that are not settled
(`TornEvaluations`, `unsettled`). Throwing is an error path of the library; the
evaluator generated from a validated graph has none that can be reached
(`FailsForCause`).

One graph of `codegen` shows generation itself give up: when the parent connects
an input of a child directly to one of its registers, that input is bound to the
register's own node. With observables, its slot has to be seeded from an input,
and the seeding (`src/src/dpi_codegen/dpi_codegen.cpp:2395`) looks for leaves of
the top's inputs only, so that `generateDpi` throws (phase `unseeded`). A graph
with a loop does not come that far: the pipeline rejects it first
(`validateNoCombLoops`, `src/src/mateir/module.cpp:1059`), and the sort is the
second line of defence.

Three limits have no run of their own: each is what the premise of a checked
property leaves out, and dropping the premise shows it. A reset released at an
active clock edge makes the commit order observable (the premise
`~ReleaseWithEdge` of `CommitOrderUnobservable`; the header says at
`src/src/abi/mate_model_abi.h:191-194` in what order to commit and not that this
case is excluded); the wrapper's refresh block may store the inputs of the next
instant before its record block dumps the last
(`src/src/dpi_codegen/dpi_codegen.cpp:1562` and `:1586`), so that a
combinational output is traced with inputs that came later, which is why
`WaveformTrue` is checked on a registered output; and a loop in the cone of a
flop sends `computeSyncTypeFromFanin` (`sync_domain_propagate.cpp:489`) into a
recursion that does not end, before `validateNoCombLoops` could report it, which
is why `RecursionAgreesWithSweep` speaks of the recursions that end.

Fairness (`Fairness` in `DpiWrapper`) is weak fairness of the wrapper's processes
and of the NBA region: a simulator runs every process it has woken and finishes
every region before time moves. The testbench is under no obligation. Deadlock is
not checked in the wrapper's runs because `$finish` ends the simulation; in all
other runs it is, but for `codegen`, where generation may fail and nothing is then
run. The passes of the front end are a single thread: that they end
is stated without fairness (`SweepsEnd`: a further sweep has typed one node more,
and types are final), and a stage that could not go on would be a deadlock.

## The proofs

`DpiWrapperProofs` proves, for every design that satisfies the assumptions and
every testbench, with and without races:

* `ResetPriority`, `PreEdgeSampling`, `DirtyFlagSound`, `NoPortLost`,
  `RegisteredOutputsNeverStale`: the invariants of `dpi_racy`; and `TypeCorrect`;
* `RtlRefinement`: the whole stack implements `RtlSync`.

None of these is inductive alone. `IInv` adds what holds in the middle of the
edge block: `BlockRuns` and `LevelsNoted` tie the wrapper's `last_*` to its ports
and to the edges still to be handled; `LevelsStored` and `DataStored` tie the
instance's words to them, data inputs up to a pending record block;
`CommitsSoFar` says that the commits made so far left D, the outputs and the data
words as they were before the first; `NothingOwed` says that as long as no
settle is owed they moved no flop and no source the logic reads, which is what
makes skipping the settle sound; `FlopsSoFar` gives each flop's value in terms of
the edges committed so far, which is the refinement's step; `RegisteredShown`
says what the output ports will show once the scheduled updates are made. There
is one lemma per action, resting on `MateInstanceLemmas`. The refinement maps the
ports and flops of `RtlSync` to those the edge block started from until it
finishes, so that the commits stutter and `EdgeFinish` is one `Instant`.

`CombOutputsNeverStale` covers the combinational outputs from the premise
`ConesNotRaced`: no input of a combinational cone may be driven with a blocking
assignment in the instant of an edge block, after it and before its updates. With
such a race the property fails (run `dpi_racy_comb`, a finding), so the premise is
needed. `CombInv` adds to `IInv` that the inputs of the cones are stored, or the
refresh block is still to run (`ConeStored`), and that an output shows what the
storage says, now or through the update scheduled for it (`CombShown`).

The proofs assume the named constants' assumptions, of which `ConesAreSound`
stands for the wrapper analysis: what it calls independent of a signal is.
`CodegenProofs` proves that of the analysis itself (`ConesAreSufficient`, below).

`DpiWrapperProofs` also proves that the event-ordering checks of the DPI functions never
abort a simulation (`NeverFatal`): the pending instant is never ahead of the
simulator, and the edge block runs with its own instant pending or none
(`PendingTime`). `WaveformIsTrue` says that the waveform of every closed instant
is what the instant was when it ended, for a traced design without combinational
outputs (`TracedDesign`); with one, a pending instant can be dumped with inputs
that came later, as said above. Its invariant follows each instant from open
(still changing), over ended but pending, whose values storage keeps until the
dump, to dumped, after which nothing overwrites its entry.

`GlobalDomainsProofs` proves the invariants of the runs over `GlobalDomains` for
every set of designs:

* the registries intern no source and edge twice (`NoDuplicateIds`), and a flop's
  identities name the source and edge of its clock and reset (`FlopIdsSound`, which
  no run repeats: `FlopsFollowWires` says more);
* those sources are the top-level inputs that the flat wires lead to, for flops
  (`FlopsFollowWires`) and ports (`PortsFollowWires`);
* the designs rejected are exactly the unsupported ones (`ExactlyTheSupported`);
* inference declares what is used and nothing else (`InferredAreUsed`), and a
  declared domain keeps its identity where names agree (`TopDomainsKept`).

`WireOf` is a recursive function from an occurrence to its parent. `WireStep`
proves its defining equation, by `SetInduction` over the occurrences, a child
coming after its parent; aliases end in inputs wherever they are entered
(`AliasNarrowed`). The invariant of the first walk says which occurrences have
been left (`WalkOrder`, `Walked`), that a demand stems from a flop below and names
its wire (`DemandsStem`), and that what inference declared some flop used
(`DeclaredKnown`); `FirstOutcome` concludes that the first walk rejects exactly
the unsupported. The second walk's invariant ties the sources, the entries of
ports and of the top, and the registries to the wires (`Sources`, `PortEntries`,
`TopEntries`, `RegistryUsed`). The assumption `DesignsWellFormed` is what the
front end guarantees: parents before children in the order of the walk, no input
that is an alias (`transparentAliasTarget` follows signals and outputs only, and
`findInputNode` looks inputs up first), and a file of top-level domains as
`loadTopIODomains` accepts it (`YamlWellFormed`).

`MateAbiProofs` proves the invariants and the action property of `abi_calls` for
every design, every list of updates and every set of inputs on which an evaluation
throws, for harnesses that move resets with `mate_commit_reset` and
`mate_apply_reset` (`ResetsByEdge`). Type, flag and reset priority are inductive
together: a list that fails half-way has raised the flag for whatever it stored,
and a torn evaluation is remembered in `unsettled`.

`CommitOrderProofs` proves that the commit order is unobservable
(`OrderUnobservable`) for every design and any number of clocks and resets, from
`~ReleaseWithEdge`, without which it does not hold. The invariant `SameOrigin`
says that there is one instance of which both are what `FlopAfter` gives for the
set, not the sequence, of edges committed so far; the lemma `OneMore` adds an
edge to that set. `TypeCorrect` needs no premise.

`SyncDomainsProofs` proves every property of the run `sync_domains` for every
graph, loops included, with its nodes in any order:

* `SweepsTerminate`: a typed node was computed from inputs that are all typed
  (`TypesComputed`), so a second visit computes what is there;
* `SweepIsComplete`: a sweep that changed nothing has left every node typed or
  waiting for one it reads (`SweptUp`); below no loop, a smallest node that waits
  would wait for a smaller one;
* `RecursionIsExact`: the memo sums up the sources of its nodes' cones
  (`MemoSumsUp`), and so does a merge of what it holds (`MergeSumsUp`: static
  for no source, synchronous for one clock, and otherwise asynchronous for good);
* `NoUnsafeCompile`, `NoFalseAlarm`, `InferenceIsExact`: the synchronizers are at
  every moment the declared ones and the crossings the check has passed
  (`ExemptForCause`), and a call for a node that is being computed has gone round a
  loop, because each call is for a node in the cones of those that wait
  (`StackBelow`).

They rest on the cone of a node being the least set closed under what its nodes
read (`ConeLeast`) and on Kahn's layers exhausting the graph exactly when it has
no loop (`SortableIffLoopFree`). Both are recursive functions that take as many
steps as there are nodes; a set that grows at every step before it is closed has
then outgrown them. `GraphsWellFormed` is what the front end hands over:
finitely many nodes that read nodes, and no seed that is static
(`expectedPortSyncType` and `seedFlopSyncTypes` make clock, reset, synchronous
and asynchronous ones only).

`CodegenProofs` proves every invariant of the run `codegen`, for every set of graphs
that satisfies `GraphsWellFormed`, whatever the operations compute
(`OperationsTyped`), for every width of the machine word and every budget of a chunk:

* `EvaluatorTypeCorrectness`: what a statement computes is a value of its node's
  type, and a spilled value lies inside the buffer;
* `GenerationFailsForCause`: the sort gives up on the graphs with a loop and on no
  other; no operand of an emitted statement is unavailable; and no selector reaches
  the `default` that throws, though the largest group of arms has lost its labels;
* `GeneratedEvaluatorIsCorrect`: an evaluation leaves in every output, D and slot
  of an observable what the graph means for the words it was given, whatever the
  evaluation before left in the buffer and the slots;
* `ConeExactness`: in whatever order the recursions and the worklist go, early ends
  and memo included, they find exactly what lies below an output, or above a source;
* `ConesAreSufficient`: two states of the inputs that differ only where the wrapper
  does not refresh give the same outputs and Ds.

The invariant of the evaluator, `EvaluatorInv`, has three layers. `SortInv` is
that of the depth-first search: a frame's node reads the node of the frame above
it, what a frame has passed is done, and done nodes are those in the order, each
after what it reads (`Sorting`). A node found on the stack therefore closes a
loop (`ProducerLoop`), and an order with every node excludes one
(`OrderedNoLoop`). `SpillInv` says that the nodes with words in the buffer are
those that another chunk reads and that no two values share a word. `RunInv`
says that the statements behind the position have left in every place of theirs
what the graph means (`Holds`) and that the slots of origins are seeded; what
lies ahead may be stale. Its step is `NodeStatement`: an operand comes from an
earlier statement of the same chunk or from the buffer, and reads the same.

The invariant of the searches, `ConeInv`, has to say what a memo holds in the
middle of a recursion. An entry that has no call on the stack is exact; one that
has a call is still the `false` it was entered with (`MemoOK`). On a graph with
loops a call could meet such an entry and take its `false` for an answer;
without, a call asks only nodes strictly below or above those that wait
(`NoReturn`), and the searches run only on graphs that were sorted
(`BuiltNoLoop`). `WorkInv` says that the nodes taken from a worklist have their
users taken or waiting, and are no sink, so that a worklist that has run empty
has seen all there is above the source; `AnswersInv` says that the answers so
far are exact.

That the meaning of a graph exists is itself to be proved (`MeaningExists`):
among the sets of nodes closed under reading on which the interpreter's
equations have a solution, a largest one has every node, because on a graph
without loops some node outside would read only nodes inside. Induction along a
graph (`InductionBelow`) rests on the same fact, that nodes for which a claim
fails would read each other without end; by it two inputs that agree below a
node give it the same value (`MeaningBelow`).

Two things the provers cannot do are done here in another way. The induction
theorems of the library take a predicate as parameter; those of `SetInduction`
take a set, and are instantiated with the set of numbers for which the claim
holds. And a recursive function is a choice among the solutions of its equation,
of which nothing is known until one is shown to exist (`WiringExists`,
`ReachExists`, `SortingExists`, `MeaningExists`).

Type correctness of `MateAbi`, `CommitOrder`, `DpiWrapper` and `SyncDomains` is
proved (`TypeCorrect` in each) and not repeated by their runs.

Only model-checked: liveness (`PortsReachInstance`, under `Fairness`), values,
elaboration and the passes. The operators of the last three are declared
`RECURSIVE` over syntax trees, graphs and words, which the
provers do not accept.

## Known limits of the front end

What the code rejects, or does in its own way, and the designs therefore leave
out or the reference interpreter allows for:

* a condition of more than one bit in `if` and `?:` is rejected;
* a shift, `~`, `-` or an arm of `?:` narrower than its target is computed at its
  own width and then extended; in `{y, t} = a + b` the sum is not widened;
* a signed source is extended by its type and not by the context of the
  expression;
* a wildcard label in a plain `case` is taken as a pattern;
* the arms of a `case` leave their drivers behind until all are lowered, in source
  order: the labels of a `case (1'b1)` item read what the arm before assigned
  (`elaboration.cpp:2702`), as the selector reads what the last arm did (2833);
* a unique `case` without a default gives a target that is written whole an
  unknown value for the codes no item names, and keeps what a target written in
  slices had, which is rejected when that has gaps (`elaboration.cpp:936`);
* a blocking assignment in a clocked block, a register that is never written, and
  registers whose bits are written by blocks with different triggers;
* a write to a slice keeps the gaps of the target by reading it, which in a
  combinational block that has not assigned them is a combinational loop and is
  rejected;
* a part select out of range reads as unknown;
* a write to a bit at a varying index reads the whole variable, and is lost when
  only slices of it have been assigned (`elaboration.cpp:2047`);
* a second write of the bits of a register replaces its triggers
  (`elaboration.cpp:107`);
* a reset whose value is the register itself is taken for no reset
  (`flop_resolve.cpp:558`);
* constants are evaluated as signed 64-bit integers, the same operators in the
  graph at 32 bits unsigned; `IntBits` stands for the 64;
* a parameter of implicit type has 32 unsigned bits whatever its value; one
  whose default is the name of another keeps that one's type without truncation;
  an override is not converted to the declared type
  (`systemverilog_pipeline.cpp:405-409`); an override of a name the module does
  not have is ignored, of an instance too; port types cannot use local
  parameters;
* an expression connected to an input is not converted to the width of the port,
  nor a vector to that of a packed struct of another width
  (`hierarchy_elaboration.cpp:620`, `:690`);
* a bit of a vector connected to an output is taken at the index as written, as if
  the vector ran down to 0 (`hierarchy_elaboration.cpp:760`);
* an output connected to a name that is no target is left unconnected
  (`hierarchy_elaboration.cpp:705`), a port connected twice keeps the last driver
  and is no error;
* `.*` also connects the outputs that a named connection has already taken
  (`hierarchy_elaboration.cpp:815`), and leaves an input open when the parent's
  variable of that name is a register that is no port;
* connections by position, to a part select and to a concatenation are rejected;
* the check on logic that reads a clock, and the test whether a node is the output
  of a register, compare names without their instance (`flop_resolve.cpp`), so the
  designs give clocks their own names, and a reset reaches a child by name.

## What is not modelled

In the front end: subroutines, generate blocks, interfaces, enumerations,
strings, packages and imports, initial values of registers, and extraction,
which copies syntax. In the back end: the C++ of a statement of the generated
evaluator, operation by operation (`ValueArithmetic` has the operators it calls,
`CodegenProofs` needs only the type of what they return); the split of the
generated code into files and the parallel build; runtime metadata, four-state
values (the wrapper refuses X on clocks and resets with `$fatal`), DPI argument
marshalling, the VCD text, the compiler and linker processes, and the read-only
queries of the ABI. Between them: what is inferred and emitted of top-level
domains and synchronizers, the types that propagation writes on the named nodes
of the IR, and language metadata.

## Plan

1. Domain passes, done but for `DomainInference`: the classification of inputs
   by evidence, sidecars, emission of inferred domains and synchronizers, and a
   second compile with the emitted files.
2. Elaboration: generate blocks, interfaces and subroutines.
3. Runtime metadata and model construction, the tracer's change detection.
4. Proofs: the carry chains of the fixed-width operators for every width, which
   needs them in a module that does not reach `Bitwise`; the constants of
   `DpiWrapper` defined from a graph of `Codegen`, so that `ConesAreSound` becomes a
   lemma and not an assumption that another module justifies.
