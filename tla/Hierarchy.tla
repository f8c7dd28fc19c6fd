------------------------------ MODULE Hierarchy ------------------------------
(***************************************************************************)
(* The instances of a module (hierarchy_elaboration.cpp, the end of        *)
(* resolveModule).  Every instance elaborates its module anew, under the   *)
(* parameters it gives, and connects its ports after everything else of    *)
(* the parent.  Until the graphs are joined (dfg_inline.cpp) a binding     *)
(* relates leaves of the child, by name, to nodes of the parent: inputs    *)
(* to what drives them, outputs to placeholders that stand for them.       *)
(*                                                                         *)
(* An instance is [name, module, overrides, connections]: module a source, *)
(* an override [name, expr], a connection [kind, port, expr] of kind       *)
(* "named" `.a(e)', "open" `.a()', "implicit" `.a', "wildcard" `.*' or     *)
(* "ordered".                                                              *)
(***************************************************************************)
EXTENDS Elaboration
LOCAL INSTANCE SequencesExt
LOCAL INSTANCE FiniteSetsExt

-----------------------------------------------------------------------------
(* the module an elaboration leaves *)
\* the leaves of the variables of some kinds and where they lie, the last leaf of a variable least significant
LeavesOf(src, kinds) ==
  LET Of(d) == LET plan == LeafPlan(d.type)
                   low[k \in DOMAIN plan] == IF k = Len(plan) THEN 0 ELSE low[k + 1] + plan[k + 1].type.width
               IN [k \in DOMAIN plan |-> [name |-> LeafName(d, plan[k]), type |-> plan[k].type, decl |-> d.name, low |-> low[k]]]
      hits == SelectSeq(src.decls, LAMBDA d : d.kind \in kinds)
  IN FlattenSeq([j \in DOMAIN hits |-> Of(hits[j])])
NodesOf(src, c, kinds) ==
  LET leaves == LeavesOf(src, kinds) IN [name \in {leaves[k].name : k \in DOMAIN leaves} |-> c.nodes[name]]
\* one flop for every leaf; a register that no block wrote has no triggers
FlopOf(c, leaf) ==
  [name |-> leaf.name, d |-> c.nodes[Append(leaf.name, ".d")], q |-> c.nodes[Append(leaf.name, ".q")],
   triggers |-> IF leaf.decl \in DOMAIN c.facts THEN c.facts[leaf.decl] ELSE <<>>, clock |-> <<>>, reset |-> {}, resetValue |-> 0]
\* the nodes of a child come after those of its parent and of the children before it
RECURSIVE Shifted(_, _), LastNode(_)
Shifted(m, n) ==
  LET Moved(ids) == [k \in DOMAIN ids |-> ids[k] + n]
      Wires(pairs) == [k \in DOMAIN pairs |-> <<pairs[k][1], pairs[k][2] + n>>]
  IN [m EXCEPT !.graph = [nodes |-> [i \in {j + n : j \in DOMAIN m.graph.nodes} |-> [m.graph.nodes[i - n] EXCEPT !.ins = Moved(@)]],
                          outs |-> Moved(m.graph.outs)],
               !.inputs = Moved(@), !.outputs = Moved(@), !.internals = Moved(@),
               !.flops = [k \in DOMAIN @ |-> [@[k] EXCEPT !.d = @ + n, !.q = @ + n]],
               !.bindings = [k \in DOMAIN @ |-> [@[k] EXCEPT !.inputs = Wires(@), !.outputs = Wires(@)]],
               !.children = [k \in DOMAIN @ |-> Shifted(@[k], n)]]
LastNode(m) == IF m.children = <<>> THEN NextId(m.graph) - 1 ELSE LastNode(Last(m.children))
Apart(graph, children) ==
  FoldLeft(LAMBDA done, child : Append(done, Shifted(child, IF done = <<>> THEN NextId(graph) - 1 ELSE LastNode(Last(done)))),
           <<>>, children)
ModuleOf(src, c) ==
  LET Of(leaves, F(_)) == [k \in DOMAIN leaves |-> F(leaves[k])]
  IN [instance |-> "", graph |-> c.graph, inputs |-> NodesOf(src, c, {"input", "clock"}), outputs |-> NodesOf(src, c, {"output", "register"}),
      internals |-> Of(LeavesOf(src, {"signal"}), LAMBDA leaf : c.nodes[leaf.name]),
      flops |-> Of(LeavesOf(src, {"flop", "register"}), LAMBDA leaf : FlopOf(c, leaf)),
      children |-> Apart(c.graph, c.children), bindings |-> c.bindings]

-----------------------------------------------------------------------------
(* the parameters an instance gives *)
\* a name keeps the value it has, with its type; anything else is computed
OverrideValue(e, p) == IF e.k = "id" THEN {p[name] : name \in {e.v} \cap DOMAIN p} ELSE {IntegerConstant(x) : x \in Constants(e, p)}
ParameterAssignment(overrides, p) ==
  FoldLeft(LAMBDA done, o : {(o.name :> x) @@ given : given \in done, x \in OverrideValue(o.expr, p)}, {<<>>}, overrides)

-----------------------------------------------------------------------------
(* connections: a result is a context and the binding so far *)
\* the node of a scalar variable or parameter
NodeNamed(name, c) ==
  IF <<name>> \in DOMAIN c.nodes THEN Result(c, c.nodes[<<name>>])
  ELSE IF name \in DOMAIN c.params THEN {[r EXCEPT !.v = @.leaves[1]] : r \in IF IsScalarType(c.params[name].type) THEN ParameterNodes(name, c) ELSE {}}
  ELSE {}
BindInputLeaves(r, binding, port) ==
  LET plan == LeafPlan(port.type)
      wires == [k \in DOMAIN plan |-> <<LeafName(port, plan[k]), r.v.leaves[k]>>]
  IN IF IsScalarType(r.v.type) \/ Len(plan) # Len(r.v.leaves) THEN {} ELSE Result(r.ctx, [binding EXCEPT !.inputs = @ \o wires])
BindInput(c, binding, port, node) == Result(c, [binding EXCEPT !.inputs = Append(@, <<<<port.name>>, node>>)])
\* the expression is not converted to the type of the port
ConnectInput(r, port, conn) ==
  LET scalar == IsScalarType(port.type)
  IN CASE conn.kind = "open" -> {}
       [] conn.kind = "implicit" -> IF scalar THEN Bind(NodeNamed(port.name, r.ctx), LAMBDA s : BindInput(s.ctx, r.v, port, s.v)) ELSE {}
       [] scalar -> Bind(BuildNode(conn.expr, r.ctx), LAMBDA s : BindInput(s.ctx, r.v, port, s.v))
       [] OTHER -> Bind(BuildFor(conn.expr, port.type, FALSE, r.ctx), LAMBDA s : BindInputLeaves(s, r.v, port))

\* one placeholder for each leaf of an output, whatever is connected to it
OutputPlaceholder(r, leaf, type) ==
  LET hits == {k \in DOMAIN r.v.outputs : r.v.outputs[k][1] = leaf}
      fresh == NextId(r.ctx.graph)
  IN IF hits # {} THEN [r EXCEPT !.v = [binding |-> r.v, node |-> r.v.outputs[Min(hits)][2]]]
     ELSE [ctx |-> [r.ctx EXCEPT !.graph = Made(@, Typed(Node("SIGNAL", <<>>, <<>>, NoType), type))],
           v |-> [binding |-> [r.v EXCEPT !.outputs = Append(@, <<leaf, fresh>>)], node |-> fresh]]
\* a name that is no target is passed over
DriveTarget(c, name, driver) ==
  {IF IsTarget(d, name) THEN [d EXCEPT !.graph = ConnectDriver(@, d.nodes[name], driver)] ELSE d : d \in RecordFullWrite(c, name)}
ConnectOutputLeaves(r, port, parent) ==
  LET target == r.ctx.decl[parent]
      plan == LeafPlan(port.type)
      above == LeafPlan(target)
      Each(k, s) == LET p == OutputPlaceholder(s, LeafName(port, plan[k]), plan[k].type)
                        name == <<parent>> \o above[k].path
                    IN IF IsTarget(p.ctx, name) THEN {[ctx |-> c, v |-> p.v.binding] : c \in DriveTarget(p.ctx, name, p.v.node)} ELSE {}
  IN IF parent \notin DOMAIN r.ctx.decl THEN {}
     ELSE IF ~SameShape(target, port.type) \/ [k \in DOMAIN plan |-> plan[k].path] # [k \in DOMAIN above |-> above[k].path] THEN {}
     ELSE FoldLeft(LAMBDA done, k : Bind(done, LAMBDA s : Each(k, s)), {r}, Upto(1, Len(plan)))
ConnectOutputVariable(r, port) ==
  LET p == OutputPlaceholder(r, <<port.name>>, port.type)
  IN {[ctx |-> c, v |-> p.v.binding] : c \in DriveTarget(p.ctx, <<port.name>>, p.v.node)}
\* a vector into a packed struct drives its fields with slices
ConnectOutputVector(r, port, parent) ==
  LET p == OutputPlaceholder(r, <<port.name>>, port.type)
      structs == {t \in {p.ctx.decl[n] : n \in {parent} \cap DOMAIN p.ctx.decl} : IsStruct(t) /\ t.packed}
      Fields(t) ==
        LET plan == LeafPlan(t)
            Field(s, k) == {[s EXCEPT !.ctx = c] : c \in DriveTarget(s.ctx, <<parent>> \o plan[k].path, s.v.leaves[k])}
        IN Bind(LeavesFromScalar([ctx |-> p.ctx, v |-> Expr(port.type, <<p.v.node>>)], t),
                LAMBDA s : FoldLeft(LAMBDA done, k : Bind(done, LAMBDA q : Field(q, k)), {s}, Upto(1, Len(plan))))
      contexts == IF structs = {} THEN DriveTarget(p.ctx, <<parent>>, p.v.node) ELSE {s.ctx : s \in UNION {Fields(t) : t \in structs}}
  IN {[ctx |-> c, v |-> p.v.binding] : c \in contexts}
\* an element of an array as a whole; a bit of a vector as a slice, at the index as it is written
ConnectOutputBit(r, port, base, index) ==
  LET element == <<base, ToString(index)>>
      p == OutputPlaceholder(r, <<port.name>>, port.type)
      contexts == IF IsTarget(r.ctx, element) THEN DriveTarget(p.ctx, element, p.v.node)
                  ELSE WritePartialTargetSlice(p.ctx, <<base>>, index, index, p.v.node)
  IN {[ctx |-> c, v |-> p.v.binding] : c \in contexts}
ConnectOutput(r, port, conn) ==
  LET e == conn.expr
      Whole(parent) == IF IsScalarType(port.type) THEN ConnectOutputVector(r, port, parent) ELSE ConnectOutputLeaves(r, port, parent)
  IN CASE conn.kind = "open" -> {r}
       [] conn.kind = "implicit" ->
            IF IsScalarType(port.type) THEN ConnectOutputVariable(r, port) ELSE ConnectOutputLeaves(r, port, port.name)
       [] e.k = "id" -> Whole(e.v)
       [] e.k = "bit" /\ e.args[1].k = "id" -> UNION {ConnectOutputBit(r, port, e.args[1].v, i) : i \in Constants(e.args[2], r.ctx.params)}
       [] OTHER -> {}
\* each output of each instance is a writer of its own
WriteOutput(r, port, conn) ==
  LET before == r.ctx.origin
  IN {[s EXCEPT !.ctx.origin = before] : s \in ConnectOutput([r EXCEPT !.ctx.origin = Append(@, port.name)], port, conn)}
ConnectNamed(r, ports, conn) ==
  LET hits == {d \in ToSet(ports) : d.name = conn.port}
      input == {d \in hits : d.kind \in {"clock", "input"}}
  IN UNION ({ConnectInput(r, d, conn) : d \in input}
            \cup {WriteOutput(r, d, conn) : d \in hits \ input})
\* an input without a variable of its name stays open
ConnectWildcard(r, ports) ==
  LET Input(s, d) ==
        LET scalar == IsScalarType(d.type)
            bound == IF scalar THEN Bind(NodeNamed(d.name, s.ctx), LAMBDA x : BindInput(x.ctx, s.v, d, x.v))
                     ELSE Bind(ValueOfIdentifier(d.name, s.ctx), LAMBDA x : BindInputLeaves(x, s.v, d))
        IN IF bound = {} THEN {s} ELSE bound
      Output(s, d) == WriteOutput(s, d, [kind |-> "implicit", port |-> d.name, expr |-> E("id", <<>>, d.name)])
      All(kinds, Connecting(_, _), start) ==
        FoldLeft(LAMBDA done, d : Bind(done, LAMBDA s : Connecting(s, d)), start, SelectSeq(ports, LAMBDA d : d.kind \in kinds))
  IN All({"output", "register"}, Output, All({"clock", "input"}, Input, {r}))
PortConnection(r, ports, conn) ==
  CASE conn.kind = "wildcard" -> ConnectWildcard(r, ports)
    [] conn.kind = "ordered" -> {}
    [] OTHER -> ConnectNamed(r, ports, conn)

-----------------------------------------------------------------------------
(* instances *)
RECURSIVE LowerItem(_, _)
\* the module of an instance: its ports with their types, and what elaboration makes of it
Elaborated(src, overrides) ==
  LET Lowered(r) == FoldLeft(LAMBDA done, item : UNION {LowerItem(item, c) : c \in done}, {InitialContext(r)}, Items(r))
      Done(r) == {[ports |-> r.decls, module |-> ModuleOf(r, c)] : c \in {c \in Lowered(r) : PartialTargetsFullyDriven(c)}}
  IN UNION {Done(r) : r \in ResolveDeclarations(src, overrides)}
LowerInstance(instance, origin, c) ==
  LET Adopted(r, m) == [r.ctx EXCEPT !.children = Append(@, [m EXCEPT !.instance = instance.name]),
                                     !.bindings = Append(@, [child |-> Len(c.children) + 1, inputs |-> r.v.inputs, outputs |-> r.v.outputs])]
      Connect(sub) ==
        LET ports == SelectSeq(sub.ports, LAMBDA d : d.kind \in PortKinds)
            all == FoldLeft(LAMBDA done, conn : Bind(done, LAMBDA r : PortConnection(r, ports, conn)),
                            Result([c EXCEPT !.origin = origin], [inputs |-> <<>>, outputs |-> <<>>]), instance.connections)
        IN {Adopted(r, sub.module) : r \in all}
  IN UNION {UNION {Connect(sub) : sub \in Elaborated(instance.module, given)} : given \in ParameterAssignment(instance.overrides, c.params)}
LowerItem(item, c) ==
  LET instance == item.kind = "instance" IN IF instance THEN LowerInstance(item.body, item.origin, c) ELSE LowerBlock(item, c)
=============================================================================
