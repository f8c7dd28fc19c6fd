------------------------- MODULE GeneratedEvaluator -------------------------
(***************************************************************************)
(* The combinational evaluator that src/src/dpi_codegen/dpi_codegen.cpp    *)
(* generates (makeNativeCombinationalCpp), and its runs.                   *)
(*                                                                         *)
(* Generation sorts the nodes depth first, cuts the order into chunks, one *)
(* C++ function each, gives a place in the spill buffer to every value     *)
(* another chunk reads, and emits a statement per node.  An evaluation     *)
(* seeds the slots of observables bound to an origin, then executes the    *)
(* statements in order; locals belong to a chunk, and the spill buffer is  *)
(* not cleared between evaluations.                                        *)
(***************************************************************************)
EXTENDS ModelGraph

CONSTANT Budget     \* kCombinationalChunkCostBudget, 4000 in the code

ASSUME BudgetAssumption == Budget \in Nat \ {0}

VARIABLES
    phase,      \* "sort", "chunk", "spill", "emit", "seed"; then "built" and,
                \* once evaluated, "run" and "settled"; or a failure: "loop",
                \* "unavailable", "unseeded", "thrown"
    at,         \* the next node of the order, of the roots while sorting
    visit,      \* VisitState of the nodes
    stack,      \* of the depth-first search: a node, its next input
    order,      \* the nodes, producers before consumers
    cost,       \* running_cost
    chunk,      \* the chunk being filled
    chunkOf,    \* chunk_index_for_node
    spillAt,    \* spill_offset_for_node
    spillWords, \* spill_words_count
    given,      \* input words and register words of the last evaluation
    local,      \* the locals of the chunk functions
    spills,     \* the spill buffer
    slot,       \* storage words of observables
    dslot,      \* storage words of the D of the registers
    outs        \* output words

sorting == <<visit, stack, order>>
layout == <<cost, chunk, chunkOf, spillAt, spillWords>>
words == <<given, local, spills, slot, dslot, outs>>
evaluator == <<phase, at, sorting, layout, words>>
vars == <<dfg, evaluator>>

NoSpill == -1
NoValue == [i \in {} |-> 0]
Frame(n) == [node |-> n, next |-> 1]
Top == stack[Len(stack)]
Zeros(S) == [n \in S |-> Zero(dfg.type[n])]
Size(n) == WordCount(dfg.type[n].width)
Generating == {"sort", "chunk", "spill", "emit", "seed"}
Built == {"built", "run", "settled"}

-----------------------------------------------------------------------------
(* Generation.                                                             *)

Root ==
    /\ phase = "sort" /\ stack = <<>> /\ at <= dfg.size
    /\ at' = at + 1
    /\ IF visit[at] = "done" THEN UNCHANGED <<visit, stack>>
       ELSE /\ visit' = [visit EXCEPT ![at] = "onStack"]
            /\ stack' = <<Frame(at)>>
    /\ UNCHANGED <<dfg, phase, order, layout, words>>

Descend ==
    /\ phase = "sort" /\ stack # <<>> /\ Top.next <= Len(dfg.in[Top.node])
    /\ LET producer == dfg.in[Top.node][Top.next]
           passed == [stack EXCEPT ![Len(stack)].next = @ + 1]
       IN /\ phase' = IF visit[producer] = "onStack" THEN "loop" ELSE phase
          /\ IF visit[producer] = "unvisited"
             THEN /\ visit' = [visit EXCEPT ![producer] = "onStack"]
                  /\ stack' = Append(passed, Frame(producer))
             ELSE stack' = passed /\ UNCHANGED visit
    /\ UNCHANGED <<dfg, at, order, layout, words>>

Leave ==
    /\ phase = "sort" /\ stack # <<>> /\ Top.next > Len(dfg.in[Top.node])
    /\ visit' = [visit EXCEPT ![Top.node] = "done"]
    /\ order' = Append(order, Top.node)
    /\ stack' = SubSeq(stack, 1, Len(stack) - 1)
    /\ UNCHANGED <<dfg, phase, at, layout, words>>

Sorted ==
    /\ phase = "sort" /\ stack = <<>> /\ at > dfg.size
    /\ phase' = IF Len(order) = dfg.size THEN "chunk" ELSE "loop"
    /\ at' = 1
    /\ UNCHANGED <<dfg, sorting, layout, words>>

\* Arms that share a value share one `case' body, named by its first arm; two
\* CONST nodes of one value and type are one.
ArmKey(d, n, k) ==
    LET m == Arm(d, n, k)
    IN IF d.kind[m] = "CONST" THEN <<0, d.value[m], d.type[m].width, d.type[m].signed>>
       ELSE <<m, 0, 0, FALSE>>
GroupOf(d, n, k) ==
    CHOOSE j \in 1 .. k : /\ ArmKey(d, n, j) = ArmKey(d, n, k)
                          /\ \A i \in 1 .. j - 1 : ArmKey(d, n, i) # ArmKey(d, n, k)
Groups(d, n) == {GroupOf(d, n, k) : k \in DOMAIN d.codes[n]}
Labels(d, n, group) == {k \in DOMAIN d.codes[n] : GroupOf(d, n, k) = group}
FullCoverage(d, n) ==
    LET width == d.type[Selector(d, n)].width
    IN width < WordBits - 1 /\ Len(d.codes[n]) = 2 ^ width
\* The first of the largest groups becomes the `default:', if any may.
DefaultGroup(d, n) ==
    {r \in Groups(d, n) :
        /\ FullCoverage(d, n)
        /\ \A s \in Groups(d, n) :
              LET mine == Cardinality(Labels(d, n, r))
                  other == Cardinality(Labels(d, n, s))
              IN other < mine \/ (other = mine /\ r <= s)}
NodeCost(d, n) ==
    IF IsMux(d, n)
    THEN Cardinality({k \in DOMAIN d.codes[n] : GroupOf(d, n, k) \notin DefaultGroup(d, n)})
         + Cardinality(Groups(d, n))
    ELSE 1

PlaceNode ==
    /\ phase = "chunk" /\ at <= dfg.size
    /\ chunkOf' = [chunkOf EXCEPT ![order[at]] = chunk]
    /\ IF cost + NodeCost(dfg, order[at]) >= Budget
       THEN cost' = 0 /\ chunk' = chunk + 1
       ELSE cost' = cost + NodeCost(dfg, order[at]) /\ UNCHANGED chunk
    /\ at' = at + 1
    /\ UNCHANGED <<dfg, phase, sorting, spillAt, spillWords, words>>

\* Mutant: only a user in the next chunk counts
NeedsSpillNextChunk(n) ==
    /\ ~IsOrigin(dfg, n)
    /\ \E user \in Users(dfg, n) : chunkOf[user] = chunkOf[n] + 1

NeedsSpill(n) ==
    /\ ~IsOrigin(dfg, n)
    /\ \E user \in Users(dfg, n) : chunkOf[user] # chunkOf[n]

\* Mutant: every value takes one word
ReserveSpillOneWord ==
    /\ phase = "spill" /\ at <= dfg.size
    /\ IF NeedsSpill(order[at])
       THEN /\ spillAt' = [spillAt EXCEPT ![order[at]] = spillWords]
            /\ spillWords' = spillWords + 1
       ELSE UNCHANGED <<spillAt, spillWords>>
    /\ at' = at + 1
    /\ UNCHANGED <<dfg, phase, sorting, cost, chunk, chunkOf, words>>

ReserveSpill ==
    /\ phase = "spill" /\ at <= dfg.size
    /\ IF NeedsSpill(order[at])
       THEN /\ spillAt' = [spillAt EXCEPT ![order[at]] = spillWords]
            /\ spillWords' = spillWords + Size(order[at])
       ELSE UNCHANGED <<spillAt, spillWords>>
    /\ at' = at + 1
    /\ UNCHANGED <<dfg, phase, sorting, cost, chunk, chunkOf, words>>

\* local_value_expr while position i is emitted: the nodes of its chunk that
\* have a statement already.
InScope(i, m) ==
    \E j \in 1 .. i - 1 : /\ order[j] = m /\ ~IsOrigin(dfg, m)
                          /\ chunkOf[m] = chunkOf[order[i]]
Available(i, m) == InScope(i, m) \/ IsOrigin(dfg, m) \/ spillAt[m] # NoSpill

EmitNode ==
    /\ phase = "emit" /\ at <= dfg.size
    /\ phase' = IF \A m \in Reads(dfg, order[at]) : Available(at, m) THEN phase ELSE "unavailable"
    /\ at' = at + 1
    /\ UNCHANGED <<dfg, sorting, layout, words>>

NextPhase ==
    /\ phase \in {"chunk", "spill", "emit"} /\ at > dfg.size
    /\ phase' = CASE phase = "chunk" -> "spill" [] phase = "spill" -> "emit" [] phase = "emit" -> "seed"
    /\ at' = 1
    /\ UNCHANGED <<dfg, sorting, layout, words>>

\* The seed of a slot bound to an INPUT node looks for an input leaf of the top.
Unseeded ==
    /\ dfg.observables
    /\ \E n \in dfg.internal \cap Inputs(dfg) : n \notin dfg.data \cup dfg.edges

EmitSeeds ==
    /\ phase = "seed"
    /\ phase' = IF Unseeded THEN "unseeded" ELSE "built"
    /\ spills' = [i \in 0 .. spillWords - 1 |-> 0]
    /\ UNCHANGED <<dfg, at, sorting, layout, given, local, slot, dslot, outs>>

-----------------------------------------------------------------------------
(* An evaluation.                                                          *)

\* What an emitted expression reads for a node: the value of an origin, ...
OriginValue(v, m) ==
    CASE dfg.kind[m] = "INPUT" -> v[m]
      [] dfg.kind[m] = "CONST" -> Literal(dfg.value[m], dfg.type[m])
      [] OTHER -> Zero(dfg.type[m])
\* ... a local of the chunk, or the words spilled by another one.
Read(i, m) ==
    IF InScope(i, m) THEN local[m]
    ELSE IF IsOrigin(dfg, m) THEN OriginValue(given, m)
    ELSE [w \in 0 .. Size(m) - 1 |-> spills[spillAt[m] + w]]

\* The arm whose body a selector takes: that of its label, or of the default.
TakenArm(n, code) ==
    LET labelled == {k \in DOMAIN dfg.codes[n] :
                       dfg.codes[n][k] = code /\ GroupOf(dfg, n, k) \notin DefaultGroup(dfg, n)}
    IN IF labelled # {} THEN {GroupOf(dfg, n, k) : k \in labelled} ELSE DefaultGroup(dfg, n)
Taken(i, n) == TakenArm(n, Read(i, Selector(dfg, n))[0])
Throws(i, n) == IsMux(dfg, n) /\ Taken(i, n) = {}
\* Mutant: the arm of a MUX keeps the type it has
StatementValueUnresized(i, n) ==
    IF IsMux(dfg, n)
    THEN Read(i, Arm(dfg, n, CHOOSE k \in Taken(i, n) : TRUE))
    ELSE Apply(dfg, n, [k \in DOMAIN dfg.in[n] |-> Read(i, dfg.in[n][k])])

StatementValue(i, n) ==
    IF IsMux(dfg, n)
    THEN LET arm == Arm(dfg, n, CHOOSE k \in Taken(i, n) : TRUE)
         IN ResizedTo(Read(i, arm), dfg.type[arm], dfg.type[n])
    ELSE Apply(dfg, n, [k \in DOMAIN dfg.in[n] |-> Read(i, dfg.in[n][k])])

Evaluate(v) ==
    /\ phase \in {"built", "settled"}
    /\ given' = v
    /\ local' = [n \in Nodes(dfg) |-> NoValue]
    /\ slot' = [n \in dfg.internal |->
                  IF dfg.observables /\ dfg.kind[n] \in {"INPUT", "CONST"}
                  THEN OriginValue(v, n) ELSE slot[n]]
    /\ phase' = "run" /\ at' = 1
    /\ UNCHANGED <<dfg, sorting, layout, spills, dslot, outs>>

Statement ==
    /\ phase = "run" /\ at <= dfg.size
    /\ LET n == order[at]
           stores == ~IsOrigin(dfg, n) /\ ~Throws(at, n)
           Stored(f, S) == IF stores /\ n \in S THEN [f EXCEPT ![n] = StatementValue(at, n)] ELSE f
       IN /\ phase' = IF ~IsOrigin(dfg, n) /\ Throws(at, n) THEN "thrown" ELSE phase
          /\ local' = Stored(local, Nodes(dfg))
          /\ slot' = Stored(slot, IF dfg.observables THEN dfg.internal ELSE {})
          /\ dslot' = Stored(dslot, dfg.flopD)
          /\ outs' = Stored(outs, dfg.outputs)
          /\ spills' = IF stores /\ spillAt[n] # NoSpill
                       THEN [i \in DOMAIN spills |->
                               IF i - spillAt[n] \in 0 .. Size(n) - 1
                               THEN StatementValue(at, n)[i - spillAt[n]] ELSE spills[i]]
                       ELSE spills
    /\ at' = at + 1
    /\ UNCHANGED <<dfg, sorting, layout, given>>

Return ==
    /\ phase = "run" /\ at > dfg.size
    /\ phase' = "settled"
    /\ UNCHANGED <<dfg, at, sorting, layout, words>>

-----------------------------------------------------------------------------
Init ==
    /\ dfg \in Graphs
    /\ phase = "sort" /\ at = 1
    /\ visit = [n \in Nodes(dfg) |-> "unvisited"] /\ stack = <<>> /\ order = <<>>
    /\ cost = 0 /\ chunk = 0
    /\ chunkOf = [n \in Nodes(dfg) |-> 0]
    /\ spillAt = [n \in Nodes(dfg) |-> NoSpill] /\ spillWords = 0
    /\ given = NoValue /\ local = [n \in Nodes(dfg) |-> NoValue]
    /\ spills = [i \in {} |-> 0]
    /\ slot = Zeros(dfg.internal) /\ dslot = Zeros(dfg.flopD) /\ outs = Zeros(dfg.outputs)

Generate ==
    \/ Root \/ Descend \/ Leave \/ Sorted
    \/ PlaceNode \/ ReserveSpill \/ EmitNode \/ NextPhase \/ EmitSeeds

Run ==
    \/ \E v \in Given(dfg) : Evaluate(v)
    \/ Statement
    \/ Return

-----------------------------------------------------------------------------
(* Properties.                                                             *)

\* Every variable has its type: what a statement computes is a value of the
\* type of its node, in locals, slots and outputs alike, and a spilled value
\* lies inside the spill buffer.
EvaluatorTypeOK ==
    /\ dfg \in Graphs
    /\ phase \in Generating \cup Built \cup {"loop", "unavailable", "unseeded", "thrown"}
    /\ at \in 1 .. dfg.size + 1
    /\ visit \in [Nodes(dfg) -> {"unvisited", "onStack", "done"}]
    /\ stack \in Seq([node : Nodes(dfg), next : Nat])
    /\ order \in Seq(Nodes(dfg))
    /\ cost \in Nat /\ chunk \in Nat /\ spillWords \in Nat
    /\ chunkOf \in [Nodes(dfg) -> Nat]
    /\ spillAt \in [Nodes(dfg) -> Nat \cup {NoSpill}]
    /\ \A n \in Nodes(dfg) : spillAt[n] # NoSpill => spillAt[n] + Size(n) <= spillWords
    /\ given = NoValue \/ IsAssignment(given, Inputs(dfg), dfg.type)
    /\ local = [n \in Nodes(dfg) |-> local[n]]
    /\ \A n \in Nodes(dfg) : local[n] = NoValue \/ local[n] \in Values(dfg.type[n])
    /\ DOMAIN spills = (IF phase \in Built \cup {"unseeded", "thrown"} THEN 0 .. spillWords - 1 ELSE {})
    /\ \A i \in DOMAIN spills : spills[i] \in Word
    /\ IsAssignment(slot, dfg.internal, dfg.type)
    /\ IsAssignment(dslot, dfg.flopD, dfg.type)
    /\ IsAssignment(outs, dfg.outputs, dfg.type)

\* The sort gives up on a graph exactly when the graph has a loop.  After it
\* every operand of an emitted statement is in scope, an origin or spilled, and
\* no selector reaches the default that throws.
FailsForCause ==
    /\ phase = "loop" => HasLoop(dfg)
    /\ phase = "chunk" => ~HasLoop(dfg)
    /\ phase \notin {"unavailable", "thrown"}

\* After an evaluation every output, every D and every slot of an observable
\* is what the graph means for the words the evaluation was given, whatever
\* the cut into chunks and whatever the evaluation before left behind.
EvaluatesTheGraph ==
    phase = "settled" =>
        LET meaning == Meaning(dfg, given)
        IN /\ \A n \in dfg.outputs : outs[n] = meaning[n]
           /\ \A n \in dfg.flopD : dslot[n] = meaning[n]
           /\ dfg.observables => \A n \in dfg.internal : slot[n] = meaning[n]
=============================================================================
