---------------------------- MODULE Elaboration ----------------------------
(***************************************************************************)
(* A module of the source language is elaborated (elaboration.cpp,         *)
(* hierarchy_elaboration.cpp, resolveModule): its boundary becomes nodes,  *)
(* its combinational blocks, its clocked blocks, its continuous assigns    *)
(* and its instances are lowered into one data flow graph, in this order   *)
(* whatever the order of the source, and the graph is checked.             *)
(*                                                                         *)
(* A source is [decls, params, localparams, overrides, combs, timings,     *)
(* assigns, instances]: decls a sequence of [kind, name, type], kind       *)
(* "clock", "input", "output", "register" (an output that a clocked block  *)
(* writes), "signal" or "flop"; overrides the numbers given for            *)
(* parameters; timings of [triggers, body]; an assign is a statement, of   *)
(* one or more assignments; for instances see Hierarchy.                   *)
(***************************************************************************)
EXTENDS StatementLowering, ParameterValues
LOCAL INSTANCE SequencesExt
LOCAL INSTANCE FiniteSetsExt

CONSTANTS Sources,          \* a sequence: statements of different kinds cannot be compared
          Resolving(_),     \* what a module starts from, nothing if it is rejected: ResolvedModule
          Lowering(_, _)    \* the contexts an item can leave, none if it is rejected: LowerItem of Hierarchy
VARIABLES source, pending, ctx, status
vars == <<source, pending, ctx, status>>

NamesOf(src, kinds) == {d.name : d \in {d \in ToSet(src.decls) : d.kind \in kinds}}
DeclOf(src, name) == CHOOSE d \in ToSet(src.decls) : d.name = name
TypesOf(src) == [name \in {d.name : d \in ToSet(src.decls)} |-> DeclOf(src, name).type]

-----------------------------------------------------------------------------
(* the boundary of the module *)
LeafName(d, leaf) == <<d.name>> \o leaf.path
AddNode(c, op, name, type) ==
  [c EXCEPT !.graph = Made(@, Named(Typed(Node(op, <<>>, <<>>, NoType), type), name)),
            !.nodes = Put(@, name, NextId(c.graph))]
AddOutput(c, name, type) == [AddNode(c, "OUTPUT", name, type) EXCEPT !.graph.outs = Append(@, NextId(c.graph))]
AddFlop(c, name, type) == AddNode(AddOutput(c, Append(name, ".d"), type), "INPUT", Append(name, ".q"), type)
\* the leaves of an internal struct start with a zero as their driver
AddSignal(c, d, name, type) ==
  LET added == AddNode(c, "SIGNAL", name, type)
      zero == Made(added.graph, Typed(Constant(0), type))
  IN IF HasStruct(d.type) THEN [added EXCEPT !.graph = ConnectDriver(zero, added.nodes[name], NextId(added.graph))] ELSE added
PrePopulate(c, d) ==
  FoldLeft(LAMBDA acc, leaf :
             LET name == LeafName(d, leaf)
             IN CASE d.kind \in {"input", "clock"} -> AddNode(acc, "INPUT", name, leaf.type)
                  [] d.kind = "output" -> AddOutput(acc, name, leaf.type)
                  [] d.kind = "register" -> AddFlop(AddOutput(acc, name, leaf.type), name, leaf.type)
                  [] d.kind = "signal" -> AddSignal(acc, d, name, leaf.type)
                  [] d.kind = "flop" -> AddFlop(acc, name, leaf.type),
           c, LeafPlan(d.type))
\* ports first, registers before the other signals
InitialContext(src) ==
  LET empty == [graph |-> [nodes |-> <<>>, outs |-> <<>>], seq |-> FALSE, comb |-> <<>>, decl |-> TypesOf(src),
                nodes |-> <<>>, flops |-> NamesOf(src, {"flop", "register"}), params |-> src.params, block |-> <<>>, partial |-> <<>>,
                writes |-> <<>>, origin |-> NoOrigin, inBlock |-> FALSE, triggers |-> <<>>, facts |-> <<>>,
                children |-> <<>>, bindings |-> <<>>]
      Kind(kind) == SelectSeq(src.decls, LAMBDA d : d.kind = kind)
  IN FoldLeft(PrePopulate, empty, Kind("clock") \o Kind("input") \o Kind("output") \o Kind("register") \o Kind("flop") \o Kind("signal"))

-----------------------------------------------------------------------------
(* blocks and assigns *)
InBlock(c, origin, seq, triggers) ==
  [c EXCEPT !.seq = seq, !.comb = IF seq THEN @ ELSE <<>>, !.origin = origin, !.triggers = triggers,
            !.inBlock = TRUE, !.block = <<>>]
LowerCombo(body, origin, c) ==
  IF body.k # "begin" THEN {}
  ELSE Bind(Lower(body, InBlock(c, origin, FALSE, <<>>)), LAMBDA done : {CommitBlockDrivers(done)})
\* without edges, `@*', the block is combinational
LowerTiming(block, origin, c) ==
  Bind(Lower(block.body, InBlock(c, origin, block.triggers # <<>>, block.triggers)),
       LAMBDA done : {CommitBlockDrivers(done)})
LowerAssign(assign, origin, c) ==
  FoldLeft(LAMBDA done, s : Bind(done, LAMBDA d : Lower(s, d)),
           {[c EXCEPT !.seq = FALSE, !.comb = <<>>, !.origin = origin, !.inBlock = FALSE]}, assign.args)
LowerBlock(item, c) ==
  LET origin == item.origin
  IN CASE item.kind = "combo" -> LowerCombo(item.body, origin, c)
       [] item.kind = "timing" -> LowerTiming(item.body, origin, c)
       [] item.kind = "assign" -> LowerAssign(item.body, origin, c)
Items(src) ==
  LET Of(kind, bodies) == [k \in DOMAIN bodies |-> [kind |-> kind, body |-> bodies[k]]]
      all == Of("combo", src.combs) \o Of("timing", src.timings) \o Of("assign", src.assigns) \o Of("instance", src.instances)
  IN [k \in DOMAIN all |-> [kind |-> all[k].kind, body |-> all[k].body, origin |-> <<k>>]]

-----------------------------------------------------------------------------
(* elaboration of one module *)
Init ==
  /\ \E k \in DOMAIN Sources : source = Sources[k]
  /\ pending = <<>>
  /\ ctx = [params |-> <<>>]
  /\ status = "declared"

\* the numbers of the command line
TopParameters(src) == [name \in DOMAIN src.overrides |-> IntegerConstant(src.overrides[name])]
ResolvedModule(src) ==
  LET results == ResolveDeclarations(src, TopParameters(src))
  IN {[ctx |-> InitialContext(r), items |-> Items(r)] : r \in results}
ResolveModule ==
  /\ status = "declared"
  /\ UNCHANGED source
  /\ \/ \E r \in Resolving(source) : ctx' = r.ctx /\ pending' = r.items /\ status' = "elaborating"
     \/ Resolving(source) = {} /\ status' = "rejected" /\ UNCHANGED <<pending, ctx>>
\* an item that cannot be lowered ends the compilation
Resolve(kind) ==
  /\ status = "elaborating" /\ pending # <<>> /\ Head(pending).kind = kind
  /\ UNCHANGED source
  /\ LET results == Lowering(Head(pending), ctx)
     IN \/ results = {} /\ status' = "rejected" /\ UNCHANGED <<pending, ctx>>
        \/ ctx' \in results /\ pending' = Tail(pending) /\ UNCHANGED status
ResolveProceduralCombo == Resolve("combo")
ResolveProceduralTiming == Resolve("timing")
ResolveAssign == Resolve("assign")
ResolveInstance == Resolve("instance")
\* every bit of a target that was written in slices has a driver
Finish ==
  /\ status = "elaborating" /\ pending = <<>>
  /\ status' = IF PartialTargetsFullyDriven(ctx) THEN "elaborated" ELSE "rejected"
  /\ UNCHANGED <<source, pending, ctx>>
=============================================================================
