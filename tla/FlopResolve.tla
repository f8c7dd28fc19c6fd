---------------------------- MODULE FlopResolve ----------------------------
(***************************************************************************)
(* passes/dfg_inline.cpp and passes/flop_resolve.cpp over a module tree.   *)
(*                                                                         *)
(* A module is [instance, graph, inputs, outputs, internals, flops,        *)
(* children, bindings]: inputs and outputs map a port leaf to its node,    *)
(* internals list the driven internal nodes.  A flop is [name, d, q,       *)
(* triggers, clock, reset, resetValue], its triggers pairs of an edge and  *)
(* a local signal; reset is a set of at most one trigger.  A binding       *)
(* connects child k: [child, inputs, outputs], pairs of the name of a leaf *)
(* of the child and a node of the parent.  Node identities are unique over *)
(* the tree, as pointers are.                                              *)
(***************************************************************************)
EXTENDS Vectorize
LOCAL INSTANCE SequencesExt

ReplaceInputs(g, old, new) == [g EXCEPT !.nodes = [i \in DOMAIN @ |-> ReplaceInput(@[i], old, new)]]

RECURSIVE RebindInputs(_, _, _)
\* input leaves, of every descendant, that were wired to the replaced node
RebindInputs(mod, old, new) ==
  [mod EXCEPT !.inputs = [p \in DOMAIN @ |-> IF @[p] = old THEN new ELSE @[p]],
              !.children = [k \in DOMAIN @ |-> RebindInputs(@[k], old, new)]]

IsFlopD(g, i) == g.nodes[i].name # <<>> /\ g.nodes[i].name[Len(g.nodes[i].name)] = ".d"
\* the graph of the child moves into the parent's; its flops' .d nodes become roots there
InlineModuleNode(parent, binding) ==
  LET sub == parent.children[binding.child]
      Wire(m, b) == [RebindInputs(m, sub.inputs[b[1]], b[2]) EXCEPT !.graph = ReplaceInputs(@, sub.inputs[b[1]], b[2])]
      wired == FoldLeft(Wire, sub, binding.inputs)
      rewired == FoldLeft(LAMBDA g, b : RedirectConsumers(g, b[2], sub.outputs[b[1]]), parent.graph, binding.outputs)
  IN [parent EXCEPT
        !.graph = [nodes |-> rewired.nodes @@ wired.graph.nodes,
                   outs |-> rewired.outs \o SelectSeq(wired.graph.outs, LAMBDA i : IsFlopD(wired.graph, i))],
        !.children[binding.child] = wired]

RECURSIVE InlineDFGs(_)
InlineDFGs(mod) ==
  LET deep == [mod EXCEPT !.children = [k \in DOMAIN @ |-> InlineDFGs(@[k])]]
  IN [FoldLeft(InlineModuleNode, deep, deep.bindings) EXCEPT !.bindings = <<>>]

RECURSIVE InternalRoots(_)
InternalRoots(mod) == FoldLeft(LAMBDA r, child : r \o InternalRoots(child), mod.internals, mod.children)

RECURSIVE ModuleRoots(_)
\* what dead code elimination keeps: every port, internal node and flop leaf
ModuleRoots(mod) ==
  LET own == Ascending({mod.inputs[p] : p \in DOMAIN mod.inputs} \cup {mod.outputs[p] : p \in DOMAIN mod.outputs}
                       \cup ToSet(mod.internals) \cup {mod.flops[k].d : k \in DOMAIN mod.flops}
                       \cup {mod.flops[k].q : k \in DOMAIN mod.flops})
  IN FoldLeft(LAMBDA r, child : r \o ModuleRoots(child), own, mod.children)

-----------------------------------------------------------------------------
(* flop_resolve.cpp *)
QName(flop) == Append(flop.name, ".q")
IsFlopQValue(g, i, flop) ==
  LET n == IF Op(g, i) = "SLICE" THEN g.nodes[Lhs(g, i)] ELSE g.nodes[i] IN n.op = "INPUT" /\ n.name = QName(flop)

RECURSIVE ConstantValueOf(_, _)
\* the constant a reset branch assigns, read through slices and concatenations
ConstantValueOf(g, i) ==
  LET n == g.nodes[i]
      Sliced(v) == FoldLeft(LAMBDA r, j : r + ((v \div 2 ^ n.data[j]) % 2) * 2 ^ (j - 1), 0, Upto(1, Len(n.data)))
      parts == [k \in DOMAIN n.ins |-> ConstantValueOf(g, n.ins[k])]
      Packed == FoldLeft(LAMBDA r, k : LET w == Width(g, n.ins[k])
                                       IN r * 2 ^ w + ((CHOOSE v \in parts[k] : TRUE) % 2 ^ w),
                         0, Upto(1, Len(n.ins)))
  IN CASE n.op = "CONST" -> {n.data[1]}
       [] n.op = "SLICE" /\ \A k \in DOMAIN n.data : n.data[k] <= WordBits - 2 ->
            {Sliced(v) : v \in ConstantValueOf(g, n.ins[1])}
       [] n.op = "CONCAT" /\ \A k \in DOMAIN n.ins : parts[k] # {} /\ Width(g, n.ins[k]) \in 1 .. WordBits - 1 -> {Packed}
       [] OTHER -> {}

PortOf(trigger) == <<trigger[2]>>
\* the trigger whose input port is the selector is the reset, the other one the clock
ResetTriggers(mod, flop, selector) ==
  SelectSeq(<<1, 2>>, LAMBDA k : LET port == PortOf(flop.triggers[k])
                                 IN port \in DOMAIN mod.inputs /\ mod.inputs[port] = selector)
ResetCode(trigger) == IF trigger[1] = "posedge" THEN 1 ELSE 0
BranchOf(g, mux, code) == Arm(g.nodes[mux], ArmIndexFor(g.nodes[mux], code))
Unsupported(g) == [ok |-> FALSE, graph |-> g]
Extracted(g, flop, clock, resets, value, functional) ==
  [ok |-> TRUE, graph |-> g, functional |-> functional,
   flop |-> [flop EXCEPT !.clock = clock, !.reset = resets, !.resetValue = value]]

\* Mutant of ExtractResetFromMux: the trigger that selects is taken for the clock.
ExtractResetFromMuxSwapped(mod, g, flop, mux) ==
  LET hits == ResetTriggers(mod, flop, g.nodes[mux].ins[1])
      reset == flop.triggers[3 - Head(hits)]
      clock == flop.triggers[Head(hits)]
      assigned == BranchOf(g, mux, ResetCode(clock))
      functional == BranchOf(g, mux, 1 - ResetCode(clock))
      const == ConstantValueOf(g, assigned)
  IN IF ~IsBinaryMux(g.nodes[mux]) \/ hits = <<>> \/ const = {} THEN Unsupported(g)
     ELSE Extracted(g, flop, clock, {reset}, CHOOSE v \in const : TRUE, functional)

ExtractResetFromMux(mod, g, flop, mux) ==
  LET hits == ResetTriggers(mod, flop, g.nodes[mux].ins[1])
      reset == flop.triggers[Head(hits)]
      clock == flop.triggers[3 - Head(hits)]
      assigned == BranchOf(g, mux, ResetCode(reset))
      functional == BranchOf(g, mux, 1 - ResetCode(reset))
      const == ConstantValueOf(g, assigned)
  IN IF ~IsBinaryMux(g.nodes[mux]) \/ hits = <<>> THEN Unsupported(g)
     ELSE IF const # {} THEN Extracted(g, flop, clock, {reset}, CHOOSE v \in const : TRUE, functional)
     ELSE IF IsFlopQValue(g, assigned, flop) THEN Extracted(g, flop, clock, {}, 0, functional)
     ELSE Unsupported(g)
\* a flop written in slices: every part is a reset multiplexer on one selector
ExtractResetFromConcat(mod, g, flop, driver) ==
  LET n == g.nodes[driver]
      parts == n.ins
      muxes == \A k \in DOMAIN parts : IsBinaryMux(g.nodes[parts[k]])
      selector == g.nodes[parts[1]].ins[1]
      hits == ResetTriggers(mod, flop, selector)
      code == ResetCode(flop.triggers[Head(hits)])
      clock == flop.triggers[3 - Head(hits)]
      assigned == [k \in DOMAIN parts |-> BranchOf(g, parts[k], code)]
      const == [k \in DOMAIN parts |-> ConstantValueOf(g, assigned[k])]
      value == FoldLeft(LAMBDA v, k : LET w == Width(g, parts[k])
                                      IN v * 2 ^ w + ((CHOOSE c \in const[k] : TRUE) % 2 ^ w), 0, Upto(1, Len(parts)))
      functional == [k \in DOMAIN parts |-> BranchOf(g, parts[k], 1 - code)]
      joined == IF Len(parts) = 1 THEN [graph |-> g, id |-> functional[1]] ELSE With(g, ConcatOf(functional))
      typed == Set(joined.graph, joined.id, Typed(joined.graph.nodes[joined.id], n.type))
  IN IF ~muxes THEN Unsupported(g)
     ELSE IF hits = <<>> \/ \E k \in DOMAIN parts : g.nodes[parts[k]].ins[1] # selector THEN Unsupported(g)
     ELSE IF \A k \in DOMAIN parts : const[k] # {}
     THEN Extracted(typed, flop, clock, {flop.triggers[Head(hits)]}, value, joined.id)
     ELSE IF \A k \in DOMAIN parts : const[k] = {} /\ IsFlopQValue(g, assigned[k], flop)
     THEN Extracted(typed, flop, clock, {}, 0, joined.id)
     ELSE Unsupported(g)
ExtractFlopClockAndReset(mod, g, flop) ==
  LET driver == g.nodes[flop.d].ins
  IN IF driver = <<>> THEN Unsupported(g)
     ELSE IF Len(flop.triggers) = 1 THEN Extracted(g, flop, flop.triggers[1], {}, 0, driver[1])
     ELSE IF Len(flop.triggers) # 2 THEN Unsupported(g)
     ELSE IF Op(g, driver[1]) = "CONCAT" THEN ExtractResetFromConcat(mod, g, flop, driver[1])
     ELSE IF Op(g, driver[1]) = "MUX" THEN ExtractResetFromMux(mod, g, flop, driver[1])
     ELSE Unsupported(g)

RECURSIVE IsClockResetAlias(_, _, _, _)
IsClockResetAlias(g, i, names, seen) ==
  LET n == g.nodes[i]
  IN CASE n.op = "INPUT" -> n.name \in names
       [] n.op \in {"SIGNAL", "OUTPUT"} /\ n.ins # <<>> /\ i \notin seen -> IsClockResetAlias(g, n.ins[1], names, seen \cup {i})
       [] OTHER -> FALSE
LogicUses(g, root, names) ==
  \E i \in ToSet(PostOrder(g, <<root>>)) : Op(g, i) = "INPUT" /\ g.nodes[i].name \in names

\* result: [ok, graph, mod]
ConnectFlopOutputs(mod, g) ==
  FoldLeft(LAMBDA h, k : LET f == mod.flops[k]
                         IN IF f.name \in DOMAIN mod.outputs THEN ConnectDriver(h, mod.outputs[f.name], f.q) ELSE h,
           g, Upto(1, Len(mod.flops)))
ResolveFlop(mod, s, flop) ==
  LET e == ExtractFlopClockAndReset(mod, s.graph, flop)
      ports == {PortOf(e.flop.clock)} \cup {PortOf(t) : t \in e.flop.reset}
  IN IF ~s.ok \/ ~e.ok THEN [s EXCEPT !.ok = FALSE]
     ELSE IF ~(ports \subseteq DOMAIN mod.inputs) THEN [s EXCEPT !.ok = FALSE]
     ELSE [ok |-> TRUE, graph |-> ConnectDriver(e.graph, flop.d, e.functional), flops |-> Append(s.flops, e.flop)]
ResolveFlopsForModule(mod, g) ==
  LET s == FoldLeft(LAMBDA acc, flop : ResolveFlop(mod, acc, flop),
                    [ok |-> TRUE, graph |-> ConnectFlopOutputs(mod, g), flops |-> <<>>], mod.flops)
      names == UNION {{PortOf(t) : t \in {s.flops[k].clock} \cup s.flops[k].reset} : k \in DOMAIN s.flops}
      clean == /\ \A p \in DOMAIN mod.outputs : ~LogicUses(s.graph, mod.outputs[p], names)
               /\ \A k \in DOMAIN mod.internals : \/ IsClockResetAlias(s.graph, mod.internals[k], names, {})
                                                  \/ ~LogicUses(s.graph, mod.internals[k], names)
               /\ \A k \in DOMAIN s.flops : ~LogicUses(s.graph, s.flops[k].d, names)
  IN IF mod.flops = <<>> THEN [ok |-> TRUE, graph |-> g, mod |-> mod]
     ELSE IF ~s.ok \/ ~clean THEN [ok |-> FALSE, graph |-> g, mod |-> mod]
     ELSE [ok |-> TRUE, graph |-> s.graph, mod |-> [mod EXCEPT !.flops = s.flops]]

RECURSIVE ResolveFlops(_, _)
\* bottom-up over the tree; every module's nodes live in the one inlined graph
ResolveFlops(mod, g) ==
  LET below == FoldLeft(LAMBDA s, child :
                          LET r == IF s.ok THEN ResolveFlops(child, s.graph) ELSE [s EXCEPT !.ok = FALSE] @@ [mod |-> child]
                          IN [ok |-> r.ok, graph |-> r.graph, children |-> Append(s.children, r.mod)],
                        [ok |-> TRUE, graph |-> g, children |-> <<>>], mod.children)
  IN IF ~below.ok THEN [ok |-> FALSE, graph |-> g, mod |-> mod]
     ELSE ResolveFlopsForModule([mod EXCEPT !.children = below.children], below.graph)
=============================================================================
