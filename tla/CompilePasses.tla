---------------------------- MODULE CompilePasses ----------------------------
(***************************************************************************)
(* The pipeline of systemverilog_pipeline.cpp: the module is elaborated,   *)
(* then the passes rewrite its graph, one after the other, each between    *)
(* two validations.  The passes that classify clock domains leave the      *)
(* graph alone and are not part of this module.                            *)
(***************************************************************************)
EXTENDS Hierarchy, FlopResolve
LOCAL INSTANCE SequencesExt
LOCAL INSTANCE FiniteSetsExt

CONSTANTS Passing(_, _),    \* what a pass makes of a module, nothing if it throws: PassResult
          Expected(_, _),   \* what a source does for some inputs and registers: SourceState
          Faults(_, _),     \* why a source may be rejected, as far as asked: SourceFaults
          Means(_, _, _)    \* after so many passes a module does what its source says: GraphMeans
VARIABLES ir, stage
allVars == <<source, pending, ctx, status, ir, stage>>

\* the registers of the whole tree, under the names that lead to them
RECURSIVE AllFlops(_)
AllFlops(m) ==
  LET Below(child, name) == [name EXCEPT ![1] = child.instance \o "." \o @]
      Renamed(child, t) == IF t = <<>> THEN t ELSE [t EXCEPT ![2] = child.instance \o "." \o @]
      Under(child, f) == [f EXCEPT !.name = Below(child, @), !.clock = Renamed(child, @), !.reset = {Renamed(child, t) : t \in @}]
      Of(child) == LET flops == AllFlops(child) IN [k \in DOMAIN flops |-> Under(child, flops[k])]
  IN FoldLeft(LAMBDA all, child : all \o Of(child), m.flops, m.children)
FlopNamed(m, name) == CHOOSE f \in ToSet(AllFlops(m)) : f.name = name

RECURSIVE Sorted(_, _)
Sorted(g, done) ==
  LET ready == {i \in DOMAIN g.nodes \ done : ToSet(g.nodes[i].ins) \subseteq done}
  IN IF ready = {} THEN done ELSE Sorted(g, done \cup ready)
\* Mutant of NoCombLoops: only a node that reads itself is a loop.
NoSelfLoops(g) == \A i \in DOMAIN g.nodes : i \notin ToSet(g.nodes[i].ins)
NoCombLoops(g) == Sorted(g, {}) = DOMAIN g.nodes

-----------------------------------------------------------------------------
(* the pipeline *)
Elaborate ==
  /\ ResolveModule \/ ResolveProceduralCombo \/ ResolveProceduralTiming \/ ResolveAssign \/ ResolveInstance
  /\ UNCHANGED <<ir, stage>>
WithTypes(src, types) == [src EXCEPT !.decls = [k \in DOMAIN @ |-> [src.decls[k] EXCEPT !.type = types[src.decls[k].name]]]]
FinishElaboration == Finish /\ ir' = ModuleOf(WithTypes(source, ctx.decl), ctx) /\ UNCHANGED stage

\* the graph a pass leaves
Rewritten(m, graph) == {[m EXCEPT !.graph = graph]}
PassResult(pass, m) ==
  LET g == m.graph
      internals == InternalRoots(m)
  IN CASE pass = "inline" -> {InlineDFGs(m)}
       [] pass = "fold" -> Rewritten(m, FoldConstants(g, internals))
       [] pass = "types" -> UNION {Rewritten(m, h) : h \in {h \in {PropagateTypes(g)} : FullyTyped(h)}}
       [] pass = "conditions" -> Rewritten(m, NormalizeConditions(g, internals))
       [] pass = "cse" -> Rewritten(m, EliminateCommonSubexpressions(g, internals))
       [] pass = "flops" -> UNION {Rewritten(r.mod, r.graph) : r \in {r \in {ResolveFlops(m, g)} : r.ok}}
       [] pass = "vectorize" -> Rewritten(m, VectorizeDFG(g, internals))
       [] pass = "dce" -> Rewritten(m, EliminateDeadCode(g, ModuleRoots(m)))
\* a pass that throws, or leaves a graph that is not valid, ends the compilation
RunPass(number, pass) ==
  /\ status = "elaborated" /\ stage = number
  /\ LET valid == {m \in Passing(pass, ir) : Validate(ir.graph) /\ Validate(m.graph)}
     IN \/ valid = {} /\ status' = "rejected" /\ UNCHANGED <<ir, stage>>
        \/ ir' \in valid /\ stage' = number + 1 /\ UNCHANGED status
  /\ UNCHANGED <<source, pending, ctx>>
DfgInline == RunPass(1, "inline")
ConstantFolding == RunPass(2, "fold")
TypePropagating == RunPass(3, "types")
ConditionNormalization == RunPass(4, "conditions")
TypedConstantFolding == RunPass(5, "fold")
Cse == RunPass(6, "cse")
FlopResolving == RunPass(7, "flops")
Vectorizing == RunPass(8, "vectorize")
Dce == RunPass(9, "dce")
FinalChecks ==
  /\ status = "elaborated" /\ stage = 10
  /\ status' = IF ValidateNoOrphans(ir.graph) /\ ValidateStrictLive(ir.graph) /\ NoCombLoops(ir.graph)
               THEN "compiled" ELSE "rejected"
  /\ UNCHANGED <<source, pending, ctx, ir, stage>>
Pass == \/ DfgInline \/ ConstantFolding \/ TypePropagating \/ ConditionNormalization \/ TypedConstantFolding
        \/ Cse \/ FlopResolving \/ Vectorizing \/ Dce
PipelineInit == Init /\ ir = [graph |-> [nodes |-> <<>>, outs |-> <<>>]] /\ stage = 1
PipelineNext == Elaborate \/ FinishElaboration \/ Pass \/ FinalChecks
PipelineSpec == PipelineInit /\ [][PipelineNext]_allVars

-----------------------------------------------------------------------------
(* the graph against the source *)
Meaning == INSTANCE SourceMeaning
\* an environment is a number, the bits of the inputs and registers one after the other
DrivenKinds == {"input", "flop", "register"}
Driven(src) == SelectSeq(src.decls, LAMBDA d : d.kind \in DrivenKinds)
DrivenWidth(src) == FoldLeft(LAMBDA w, d : w + BitstreamWidth(d.type), 0, Driven(src))
BitsUnder(src, env) ==
  LET ds == Driven(src)
      low[k \in DOMAIN ds] == IF k = 1 THEN 0 ELSE low[k - 1] + BitstreamWidth(ds[k - 1].type)
      At(name) == CHOOSE k \in DOMAIN ds : ds[k].name = name
  IN [name \in {d.name : d \in ToSet(ds)} |-> Meaning!BitsOf(env \div 2 ^ low[At(name)], BitstreamWidth(DeclOf(src, name).type))]
\* what the source gives to the variables and, at the clock, to the registers
SourceState(src, env) ==
  LET known == BitsUnder(src, env)
      types == TypesOf(src)
      InitialBits(n) == IF n \in DOMAIN known THEN known[n]
                        ELSE IF DeclOf(src, n).kind \in {"clock", "open"} THEN Meaning!Blank(BitstreamWidth(types[n]))
                        ELSE Meaning!Unassigned(BitstreamWidth(types[n]))
      start == [src.constants EXCEPT !.types = types @@ @, !.cur = [n \in DOMAIN types |-> InitialBits(n)] @@ @]
      Bodies(clocked) == LET hits == SelectSeq(src.timings, LAMBDA t : (t.triggers # <<>>) = clocked)
                         IN [k \in DOMAIN hits |-> hits[k].body]
      settled == Meaning!Settled(src.combs \o Bodies(FALSE) \o src.assigns, start)
      clocked == FoldLeft(LAMBDA st, body : Meaning!Exec(body, st),
                          [settled EXCEPT !.seq = TRUE, !.next = settled.cur], Bodies(TRUE))
  IN [settled EXCEPT !.next = clocked.next]

LeafBits(bits, leaf) == [b \in 0 .. leaf.type.width - 1 |-> bits[leaf.decl][leaf.low + b]]
AgreesWith(value, bits) == \A b \in DOMAIN bits : bits[b] \notin Meaning!Digits \/ (bits[b] = 1) = Bit(value, b)
\* undefined values, and inputs of children that are not connected
Unknowns(m, g) ==
  LET driven == {m.inputs[p] : p \in DOMAIN m.inputs} \cup {f.q : f \in ToSet(AllFlops(m))}
  IN {i \in DOMAIN g.nodes : g.nodes[i].op = "X" \/ (g.nodes[i].op = "INPUT" /\ i \notin driven)}
UnknownValues(g, unknowns, ones) ==
  [i \in unknowns |-> LET t == g.nodes[i].type IN IF ones THEN Inverted(Zero(t.width, t.signed)) ELSE Zero(t.width, t.signed)]
\* the nodes of the inputs and of the register outputs with what they hold
LeafValues(src, m, known) ==
  LET NodeOfLeaf(leaf) == IF leaf.name \in DOMAIN m.inputs THEN m.inputs[leaf.name] ELSE FlopNamed(m, leaf.name).q
      Held(leaf) == FromU64(Meaning!NumberOf(LeafBits(known, leaf)), leaf.type.width, leaf.type.signed)
      ports == [i \in {m.inputs[p] : p \in DOMAIN m.inputs} |-> FromBool(FALSE)]
  IN FoldLeft(LAMBDA f, leaf : (NodeOfLeaf(leaf) :> Held(leaf)) @@ f, ports, LeavesOf(src, DrivenKinds))
\* the value a register takes: while its reset is active the reset value
NextValue(flop, leaf, state, values) ==
  LET active == \E t \in flop.reset : state[t[2]][0] = ResetCode(t)
  IN IF active THEN FromI64(flop.resetValue, leaf.type.width, leaf.type.signed) ELSE values[flop.d]
Environments(src) == 0 .. 2 ^ DrivenWidth(src) - 1

\* no loop and nothing without a driver among what the observed nodes depend on
Computable(g, order) ==
  \A k \in DOMAIN order : /\ g.nodes[order[k]].ins = <<>> => Op(g, order[k]) \in Leaves
                         /\ \A i \in ToSet(g.nodes[order[k]].ins) : \E j \in 1 .. k - 1 : order[j] = i

\* Whatever the inputs and the registers hold.  Types are given by the third pass; registers drive
\* the outputs of their name from the seventh.
GraphMeans(given, m, done) ==
  LET src == Meaning!Meant(given)
      g == IF done < 3 THEN PropagateTypes(m.graph) ELSE m.graph
      outputs == LeavesOf(src, IF done < 7 THEN {"output"} ELSE {"output", "register"})
      registers == LeavesOf(src, {"flop", "register"})
      flops == AllFlops(m)
      order == PostOrder(g, [k \in DOMAIN outputs |-> m.outputs[outputs[k].name]] \o [k \in DOMAIN flops |-> flops[k].d])
      unknowns == Unknowns(m, g)
      Agree(values, expected) ==
        /\ \A leaf \in ToSet(outputs) : AgreesWith(values[m.outputs[leaf.name]], LeafBits(expected.cur, leaf))
        /\ \A leaf \in ToSet(registers) : AgreesWith(NextValue(FlopNamed(m, leaf.name), leaf, expected.cur, values), LeafBits(expected.next, leaf))
  IN Computable(g, order) =>
       \A env \in Environments(src) : \A ones \in IF unknowns = {} THEN {FALSE} ELSE BOOLEAN :
         LET known == BitsUnder(src, env)
         IN Agree(Evaluated(g, order, LeafValues(src, m, known) @@ UnknownValues(g, unknowns, ones)), Expected(src, env))
GraphMeansTheSource == Means(source, ir, stage - 1)

\* Of an elaborated module, with its instances in place, the graph gives each output the value that running the statements of
\* the source in order gives it, and each register the value it has after the clock edge.
ElaborationMeansTheSource == status = "elaborated" /\ stage = 2 => GraphMeansTheSource
\* before the registers are resolved, and at the end
Landmark == status = "compiled" \/ (status = "elaborated" /\ stage = 7)
\* The passes keep that: folding, typing, normalising, sharing, the extraction of the resets,
\* vectorizing and the removal of dead code leave every output and register what the source says.
PassesKeepTheMeaning == Landmark => GraphMeansTheSource

\* some bit has no value, or a statement assigns it on one path only
Undriven(src) ==
  \E env \in Environments(src) : \E cur \in {Expected(src, env).cur} : \E d \in ToSet(src.decls) :
    \E b \in DOMAIN cur[d.name] : cur[d.name][b] = Meaning!Unset
LeftOpen(src) == \E env \in Environments(src) : Expected(src, env).open
DrivenTwice(src) ==
  LET items == Items(src)
      Body(k) == IF items[k].kind = "timing" THEN items[k].body.body ELSE items[k].body
  IN \E j, k \in DOMAIN items : j < k /\ Meaning!Targets(Body(j)) \cap Meaning!Targets(Body(k)) # {}
SourceFaults(given, causes) ==
  LET src == Meaning!Meant(given)
      Found(fault, holds) == IF fault \in causes /\ holds THEN {fault} ELSE {}
  IN IF Meaning!Miswired(given) THEN {"a connection is no connection"}
     ELSE IF ~Meaning!Meaningful(given) THEN {"a parameter has no value"}
     ELSE Found("undriven", Undriven(src)) \cup Found("open", LeftOpen(src)) \cup Found("driven twice", DrivenTwice(src))
\* A module is rejected only for a cause: a connection is none, a parameter has no value, on some
\* path an output or a signal is not assigned before it is read or left, or two blocks assign one
\* variable.
RejectedForCause == status = "rejected" => Faults(source, {"undriven", "open", "driven twice"}) # {}
\* In a module that compiles every connection is one, every parameter has a value and every bit of every variable is
\* assigned, on every path.
AcceptedIsDriven == status = "compiled" => Faults(source, {"undriven"}) = {}
Tested(block) == Meaning!BaseName(block.body.args[1].args[1])
\* A register of a compiled module is triggered by the events of the block that writes it, and
\* of two events the one that its block tests is its reset.
KeepsItsEvents ==
  status = "compiled" =>
    \E timings \in {Meaning!Flat(source).timings} : \A k \in DOMAIN timings : \A flop \in ToSet(AllFlops(ir)) :
      LET block == timings[k]
      IN flop.name[1] \in Meaning!Targets(block.body) =>
           /\ {flop.clock} \cup flop.reset = ToSet(block.triggers)
           /\ flop.reset = IF Len(block.triggers) = 1 THEN {} ELSE {t \in ToSet(block.triggers) : t[2] = Tested(block)}
=============================================================================
