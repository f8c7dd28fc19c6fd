------------------------- MODULE StatementLowering -------------------------
(***************************************************************************)
(* elaboration.cpp: statements become drivers of the data flow graph.      *)
(*                                                                         *)
(* The context of ExprBuild has, in addition, block (the drivers a         *)
(* procedural block has assigned so far), partial (targets written in      *)
(* slices: [type, slices], a slice [low, high, expr, origin]), writes (who *)
(* wrote a target as a whole), origin (the item being lowered, its place), *)
(* inBlock, triggers, and facts (the triggers of every register written).  *)
(* The empty origin is a slice nobody has written.                         *)
(*                                                                         *)
(* A statement has the shape of an expression, [k, args, v].               *)
(***************************************************************************)
EXTENDS ExprBuild, TypePropagation
LOCAL INSTANCE SequencesExt
LOCAL INSTANCE FiniteSetsExt
LOCAL INSTANCE Functions

Assign(lhs, rhs) == E("=", <<lhs, rhs>>, "")
NonBlocking(lhs, rhs) == E("<=", <<lhs, rhs>>, "")
Compound(op, lhs, rhs) == E("op=", <<lhs, rhs>>, op)
Block(items) == E("begin", items, "")
If(c, x) == E("if", <<c, x>>, "")
IfElse(c, x, y) == E("if", <<c, x, y>>, "")
For(var, init, stop, step, body) == E("for", <<init, stop, step, body>>, var)
\* items are [labels, body]; default is empty or one statement, after the first `at' items
Case(selector, items, default, unique, z) ==
  E("case", <<selector>>, [items |-> items, default |-> default, at |-> Len(items), unique |-> unique, z |-> z])
DefaultAt(case, k) == [case EXCEPT !.v.at = k]
\* a casez label with ? in the bits of the mask
Wild(value, mask) == E("wild", <<>>, [value |-> value, mask |-> mask])

Put(f, k, v) == (k :> v) @@ f
NoOrigin == <<>>
PartSlice(low, high, expr, origin) == [low |-> low, high |-> high, expr |-> expr, origin |-> origin]
Descending(slices) == SortSeq(slices, LAMBDA a, b : a.high > b.high)
Delta(drivers, partials) == [drivers |-> drivers, partials |-> partials]

-----------------------------------------------------------------------------
(* targets *)
IsTarget(ctx, name) == name \in DOMAIN ctx.nodes /\ ctx.graph.nodes[ctx.nodes[name]].op \in {"SIGNAL", "OUTPUT"}
TargetType(ctx, name) == TypeOfNode(ctx.graph, ctx.nodes[name])
QNameOf(name) == IF name[Len(name)] = ".d" THEN [name EXCEPT ![Len(name)] = ".q"] ELSE name
Committed(ctx, name) == ToSet(ctx.graph.nodes[ctx.nodes[name]].ins)
\* the driver a target has at this point of the block, none or one
EnvDriver(ctx, name) ==
  IF ctx.inBlock /\ name \in DOMAIN ctx.block THEN {ctx.block[name]} ELSE Committed(ctx, name)
CurrentWholeDriver(ctx, name) ==
  IF EnvDriver(ctx, name) # {} THEN EnvDriver(ctx, name) ELSE IF ctx.seq THEN {ctx.nodes[QNameOf(name)]} ELSE {}
Connected(ctx, name, driver) ==
  IF ctx.inBlock THEN [ctx EXCEPT !.block = Put(@, name, driver)]
  ELSE [ctx EXCEPT !.graph = ConnectDriver(@, ctx.nodes[name], driver)]
Cached(ctx, name, driver) == IF ctx.seq THEN ctx ELSE [ctx EXCEPT !.comb = Put(@, name, driver)]
CommitBlockDrivers(ctx) ==
  [ctx EXCEPT !.inBlock = FALSE, !.block = <<>>,
              !.graph.nodes = [i \in DOMAIN @ |->
                 LET hits == {n \in DOMAIN ctx.block : ctx.nodes[n] = i}
                 IN IF hits = {} THEN @[i] ELSE [@[i] EXCEPT !.ins = <<ctx.block[CHOOSE n \in hits : TRUE]>>]]]

\* two origins never write one target, of which one writes all of it
RecordFullWrite(ctx, name) ==
  LET others == /\ name \in DOMAIN ctx.partial
                /\ \E s \in ToSet(ctx.partial[name].slices) : s.origin \notin {NoOrigin, ctx.origin}
      first == IF name \in DOMAIN ctx.writes THEN ctx.writes[name] ELSE ctx.origin
  IN IF first # ctx.origin \/ others THEN {} ELSE {[ctx EXCEPT !.writes = Put(@, name, ctx.origin)]}

-----------------------------------------------------------------------------
(* partial writes *)
RelativeSlice(ctx, s, low, high) ==
  IF low = s.low /\ high = s.high THEN Result(ctx, s.expr)
  ELSE Emit(ctx, SliceOf(s.expr, Upto(low - s.low, high - s.low)))
WholeState(type, driver) == [type |-> type, slices |-> <<PartSlice(0, type.width - 1, driver, NoOrigin)>>]
\* the target becomes the concatenation of its slices; a gap reads the target itself
MaterializePartialTarget(ctx, name) ==
  LET state == ctx.partial[name]
      Gap(c, low, high) == Emit(c, Typed(SliceOf(c.nodes[name], Upto(low, high)), Integer(high - low + 1, state.type.signed)))
      Filled(r, s) ==
        LET before == IF s.high < r.v.next
                      THEN Bind(Gap(r.ctx, s.high + 1, r.v.next), LAMBDA g : Result(g.ctx, Append(r.v.parts, g.v)))
                      ELSE Result(r.ctx, r.v.parts)
        IN IF s.high < 0 \/ s.low > r.v.next THEN {r}
           ELSE Bind(before, LAMBDA b : Result(b.ctx, [next |-> s.low - 1, parts |-> Append(b.v, s.expr)]))
      all == FoldLeft(LAMBDA done, s : Bind(done, LAMBDA r : Filled(r, s)),
                      Result(ctx, [next |-> state.type.width - 1, parts |-> <<>>]), state.slices)
      Closed(r) == IF r.v.next < 0 THEN Result(r.ctx, r.v.parts)
                   ELSE Bind(Gap(r.ctx, 0, r.v.next), LAMBDA g : Result(g.ctx, Append(r.v.parts, g.v)))
  IN Bind(Bind(all, Closed), LAMBDA r :
       Bind(Emit(r.ctx, Typed(ConcatOf(r.v), state.type)), LAMBDA c : {Connected(c.ctx, name, c.v)}))
EnsurePartialState(ctx, name) ==
  LET slices == {PartSlice(0, TargetType(ctx, name).width - 1, d, NoOrigin) : d \in CurrentWholeDriver(ctx, name)}
  IN IF name \in DOMAIN ctx.partial THEN ctx
     ELSE [ctx EXCEPT !.partial = Put(@, name, [type |-> TargetType(ctx, name), slices |-> SetToSeq(slices)])]
\* what is left of a slice on either side of the written range
SetPartialSlice(ctx, name, low, high, expr) ==
  LET Cut(r, s) ==
        LET Rest(q, from, to) ==
              IF from > to THEN {q}
              ELSE Bind(RelativeSlice(q.ctx, s, from, to), LAMBDA x :
                     Result(x.ctx, Append(q.v, PartSlice(from, to, x.v, s.origin))))
        IN IF s.high < low \/ s.low > high THEN Result(r.ctx, Append(r.v, s))
           ELSE IF s.origin \notin {NoOrigin, ctx.origin} THEN {}
           ELSE Bind(Rest(r, high + 1, s.high), LAMBDA q : Rest(q, s.low, low - 1))
  IN Bind(FoldLeft(LAMBDA done, s : Bind(done, LAMBDA r : Cut(r, s)), Result(ctx, <<>>), ctx.partial[name].slices),
          LAMBDA r : {[r.ctx EXCEPT !.partial[name].slices =
                         Descending(Append(r.v, PartSlice(low, high, expr, ctx.origin)))]})
WritePartialTargetSlice(ctx, name, low, high, expr) ==
  LET foreign == name \in DOMAIN ctx.writes /\ ctx.writes[name] # ctx.origin
  IN IF foreign \/ ~IsTarget(ctx, name) THEN {}
     ELSE Bind(SetPartialSlice(EnsurePartialState(ctx, name), name, low, high, expr),
               LAMBDA c : MaterializePartialTarget(c, name))
WriteWholeTargetAsPartial(ctx, name, expr) ==
  MaterializePartialTarget([ctx EXCEPT !.partial[name].slices =
                              <<PartSlice(0, ctx.partial[name].type.width - 1, expr, ctx.origin)>>], name)
CachedEnv(ctx, name) == {Cached(ctx, name, d) : d \in EnvDriver(ctx, name)}
\* a whole write also replaces the slices the target is known by
WriteTarget(ctx, name, driver) ==
  IF ~IsTarget(ctx, name) THEN {}
  ELSE Bind(RecordFullWrite(ctx, name), LAMBDA c :
         IF name \in DOMAIN c.partial
         THEN Bind(WriteWholeTargetAsPartial(c, name, driver), LAMBDA d : CachedEnv(d, name))
         ELSE {Cached(Connected(c, name, driver), name, driver)})
\* at the end of the module every bit of a target written in slices has a driver
PartialTargetsFullyDriven(ctx) ==
  \A name \in DOMAIN ctx.partial :
    LET state == ctx.partial[name]
    IN /\ \A s \in ToSet(state.slices) : 0 <= s.low /\ s.low <= s.high /\ s.high < state.type.width
       /\ \A b \in 0 .. state.type.width - 1 : \E s \in ToSet(state.slices) : b \in s.low .. s.high

-----------------------------------------------------------------------------
(* branches: `base' is the context before the statement *)
Restored(ctx, base) == [base EXCEPT !.graph = ctx.graph, !.writes = ctx.writes, !.facts = ctx.facts]
\* what an arm did to targets, relative to the base
ModifiedSince(ctx, base) ==
  LET NewDriver(n) == n \notin DOMAIN ctx.partial /\ (n \notin DOMAIN base.block \/ base.block[n] # ctx.block[n])
      NewState(n) == n \notin DOMAIN base.partial \/ base.partial[n] # ctx.partial[n]
  IN Delta(Restrict(ctx.block, {n \in DOMAIN ctx.block : NewDriver(n)}),
           Restrict(ctx.partial, {n \in DOMAIN ctx.partial : NewState(n)}))
\* Mutant of RetainedDriver: only what the target had before the block is retained.
RetainedDriverOfModule(ctx, name, base) ==
  IF name \notin DOMAIN base.partial /\ Committed(ctx, name) # {} THEN Committed(ctx, name)
  ELSE IF ctx.seq THEN {ctx.nodes[QNameOf(name)]} ELSE {}
RetainedDriver(ctx, name, base) ==
  LET before == IF name \in DOMAIN base.partial THEN {}
                ELSE IF name \in DOMAIN base.block THEN {base.block[name]} ELSE Committed(ctx, name)
  IN IF before # {} THEN before ELSE IF ctx.seq THEN {ctx.nodes[QNameOf(name)]} ELSE {}
RetainedState(ctx, name, base) ==
  IF name \in DOMAIN base.partial THEN {base.partial[name]}
  ELSE {WholeState(TargetType(ctx, name), d) : d \in RetainedDriver(ctx, name, base)}
DriverAfter(delta, name, retained) == IF name \in DOMAIN delta.drivers THEN {delta.drivers[name]} ELSE retained
StateAfter(ctx, delta, name, retained) ==
  IF name \in DOMAIN delta.partials THEN {delta.partials[name]}
  ELSE IF name \in DOMAIN delta.drivers THEN {WholeState(TargetType(ctx, name), delta.drivers[name])} ELSE retained
UnknownFor(ctx, name) == Emit(ctx, Typed(Node("X", <<>>, <<>>, NoType), TargetType(ctx, name)))

\* the slices of all states cut at the bounds of each other, most significant first
Intervals(states) ==
  LET slices == UNION {ToSet(s.slices) : s \in states}
      cuts == {s.low : s \in slices} \cup {s.high + 1 : s \in slices}
      lows == Reverse(Ascending(cuts))
  IN [k \in 1 .. Len(lows) - 1 |-> <<lows[k + 1], lows[k] - 1>>]
\* the node for the interval in the state, 0 where the state says nothing of it
ExprForInterval(ctx, states, interval) ==
  LET hits == {s \in UNION {ToSet(st.slices) : st \in states} : s.low <= interval[1] /\ s.high >= interval[2]}
  IN IF hits = {} THEN Result(ctx, 0) ELSE UNION {RelativeSlice(ctx, s, interval[1], interval[2]) : s \in hits}
ApplyMergedPartial(ctx, name, state) ==
  LET stamped == [state EXCEPT !.slices = [k \in DOMAIN @ |-> [@[k] EXCEPT !.origin = ctx.origin]]]
  IN Bind(MaterializePartialTarget([ctx EXCEPT !.partial = Put(@, name, stamped)], name), LAMBDA c : CachedEnv(c, name))
ApplyMergedWhole(ctx, name, driver) == {Cached(Connected(ctx, name, driver), name, driver)}

\* one interval at a time: Value(ctx, interval) is the node of the merge, 0 for none
MergeIntervals(ctx, name, states, ValueOf(_, _)) ==
  LET Merged(r, interval) ==
        Bind(ValueOf(r.ctx, interval), LAMBDA x :
          Result(x.ctx, IF x.v = 0 THEN r.v ELSE Append(r.v, PartSlice(interval[1], interval[2], x.v, NoOrigin))))
      all == FoldLeft(LAMBDA done, i : Bind(done, LAMBDA r : Merged(r, i)), Result(ctx, <<>>), Intervals(states))
  IN Bind(all, LAMBDA r : ApplyMergedPartial(r.ctx, name, [type |-> TargetType(ctx, name), slices |-> r.v]))
\* every target an arm assigned, through its slices when the base or an arm has slices of it
CollectAssignedSignals(deltas) == UNION {DOMAIN d.drivers \cup DOMAIN d.partials : d \in deltas}
IsPartialMergeTarget(name, deltas, base) ==
  name \in DOMAIN base.partial \/ \E d \in deltas : name \in DOMAIN d.partials
MergeTargets(ctx, deltas, base, MergePartial(_, _), MergeWhole(_, _)) ==
  LET Merge(c, name) ==
        IF IsPartialMergeTarget(name, deltas, base) THEN MergePartial(c, name) ELSE MergeWhole(c, name)
  IN FoldSet(LAMBDA name, done : Bind(done, LAMBDA c : Merge(c, name)), {ctx}, CollectAssignedSignals(deltas))

\* if: `fallback' is the delta of the else branch, empty without one
MuxIfDifferent(ctx, condition, x, y, type) ==
  IF x = y THEN Result(ctx, x) ELSE BuildMux(condition, x, y, type, ctx)
MergeIfDrivers(ctx, name, condition, branch, fallback, base) ==
  LET retained == RetainedDriver(ctx, name, base)
      other == IF fallback = {} THEN retained ELSE UNION {DriverAfter(d, name, retained) : d \in fallback}
  IN UNION {MuxIfDifferent(ctx, condition, x, y, TargetType(ctx, name)) : x \in DriverAfter(branch, name, retained), y \in other}
\* an interval one side says nothing of has no value to merge
MergeIfSlices(ctx, name, condition, branch, fallback, base) ==
  LET retained == RetainedState(ctx, name, base)
      other == IF fallback = {} THEN retained ELSE UNION {StateAfter(ctx, d, name, retained) : d \in fallback}
      taken == StateAfter(ctx, branch, name, retained)
      ValueOf(c, interval) ==
        Bind(ExprForInterval(c, other, interval), LAMBDA y : Bind(ExprForInterval(y.ctx, taken, interval), LAMBDA x :
          IF x.v = 0 /\ y.v = 0 THEN Result(x.ctx, 0)
          ELSE IF x.v = 0 \/ y.v = 0 THEN {} ELSE MuxIfDifferent(x.ctx, condition, x.v, y.v, NoType)))
  IN MergeIntervals(ctx, name, other \cup taken, ValueOf)
MergeIfBranches(ctx, condition, branch, fallback, base) ==
  MergeTargets(ctx, {branch} \cup fallback, base,
    LAMBDA c, name : MergeIfSlices(c, name, condition, branch, fallback, base),
    LAMBDA c, name : Bind(MergeIfDrivers(c, name, condition, branch, fallback, base),
                          LAMBDA m : ApplyMergedWhole(m.ctx, name, m.v)))

\* case: `chosen' maps a selector code to the index of its arm, 0 to the fallback, -1 to an unknown
MergeCaseBranches(ctx, selector, chosen, branches, fallback, toX, base) ==
  LET codes == Upto(0, Cardinality(DOMAIN chosen) - 1)
      Select(c, values) == Emit(c, MuxOf(selector, codes, values))
      Unknown(c, name, uncovered) ==
        IF uncovered \/ \E k \in DOMAIN chosen : chosen[k] = -1 THEN UnknownFor(c, name) ELSE Result(c, 0)
      ForCode(k, After(_), otherwise, x) ==
        CASE chosen[k] = 0 -> IF fallback = {} THEN otherwise ELSE UNION {After(d) : d \in fallback}
          [] chosen[k] = -1 -> x
          [] OTHER -> After(branches[chosen[k]])
      Whole(c, name) ==
        LET retained == RetainedDriver(c, name, base)
            Values(x) == [k \in DOMAIN codes |-> ForCode(codes[k], LAMBDA d : DriverAfter(d, name, retained),
                                                         IF toX THEN {x} ELSE retained, {x})]
        IN Bind(Unknown(c, name, toX), LAMBDA x :
             IF \E k \in DOMAIN codes : Values(x.v)[k] = {} THEN {}
             ELSE Bind(Select(x.ctx, [k \in DOMAIN codes |-> CHOOSE d \in Values(x.v)[k] : TRUE]),
                       LAMBDA m : ApplyMergedWhole(m.ctx, name, m.v)))
      \* in slices, a code that no item names is unknown only when the target has nothing to retain
      Partial(c, name) ==
        LET retained == RetainedState(c, name, base)
            uncovered == toX /\ retained = {}
            States(k, x) == LET unknown == {WholeState(TargetType(c, name), x)}
                            IN ForCode(k, LAMBDA d : StateAfter(c, d, name, retained),
                                       IF uncovered THEN unknown ELSE retained, unknown)
            ValueOf(cc, interval, x) ==
              Bind(AllBuilt(codes, LAMBDA k, q : Bind(ExprForInterval(q, States(k, x), interval),
                                                      LAMBDA r : IF r.v = 0 THEN {} ELSE {r}), cc),
                   LAMBDA r : Select(r.ctx, r.v))
        IN Bind(Unknown(c, name, uncovered), LAMBDA x :
             MergeIntervals(x.ctx, name, UNION {States(codes[k], x.v) : k \in DOMAIN codes},
                            LAMBDA cc, interval : ValueOf(cc, interval, x.v)))
  IN MergeTargets(ctx, ToSet(branches) \cup fallback, base, Partial, Whole)

-----------------------------------------------------------------------------
(* the left hand side of an assignment *)
RECURSIVE Normalized(_)
\* the base name, its selectors and, after all of them, its fields
Normalized(e) ==
  CASE e.k = "id" -> [base |-> e.v, selectors |-> <<>>, fields |-> <<>>]
    [] e.k = "field" -> [Normalized(e.args[1]) EXCEPT !.fields = Append(@, e.v)]
    [] OTHER -> [Normalized(e.args[1]) EXCEPT !.selectors = Append(@, e)]
DimsOf(t) == IF IsScalarType(t) THEN t.dims ELSE <<>>
\* what a left hand side denotes: the leaf, its type and the bits of it; `dynamic' if an index varies
Place(path, type) == [path |-> path, type |-> type, range |-> <<>>, dynamic |-> <<>>]
BaseLow(place) == IF place.range = <<>> THEN 0 ELSE Least(place.range[1], place.range[2])
Ranged(place, low, high) == [place EXCEPT !.range = <<low, high>>]
\* the kind, the node that selects, the bound of the dimension and the width of the part
Varying(r, s, kind, width) ==
  Result(s.ctx, [r.v EXCEPT !.dynamic = <<kind, s.v, DimsOf(r.v.type)[1], width>>])
PlaceBit(r, index) ==
  LET t == r.v.type
      dims == DimsOf(t)
      constants == Constants(index, r.ctx.params)
      Element(k) == LET low == BaseLow(r.v) + OffsetFromLsb(dims[1], k) * ElementType(t).width
                    IN [Ranged(r.v, low, low + ElementType(t).width - 1) EXCEPT !.type = ElementType(t)]
      Static(k) == [r.v EXCEPT !.path = Append(@, ToString(k)), !.type = IF IsArray(t) THEN t.elem ELSE NoType]
      Dynamic == IF dims = <<>> \/ ElementType(t).width # 1 THEN {}
                 ELSE Bind(BuildNode(index, r.ctx), LAMBDA s : Varying(r, s, "bit", 1))
  IN IF constants = {} THEN IF dims = <<>> THEN {} ELSE Dynamic
     ELSE UNION {IF dims = <<>> THEN Result(r.ctx, Static(k))
                 ELSE IF InDim(dims[1], k) THEN Result(r.ctx, Element(k)) ELSE Dynamic : k \in constants}
\* the bounds count in elements of the first dimension
PlaceRange(r, left, right) ==
  LET dims == DimsOf(r.v.type)
      w == ElementType(r.v.type).width
      x == OffsetFromLsb(dims[1], left)
      y == OffsetFromLsb(dims[1], right)
  IN IF dims = <<>> THEN Result(r.ctx, Ranged(r.v, right, left))
     ELSE IF ~InDim(dims[1], left) \/ ~InDim(dims[1], right) THEN {}
     ELSE Result(r.ctx, Ranged(r.v, BaseLow(r.v) + Least(x, y) * w, BaseLow(r.v) + (Most(x, y) + 1) * w - 1))
\* a constant base counts in bits; a base that varies needs a descending vector of bits
PlacePart(r, e, last) ==
  LET dims == DimsOf(r.v.type)
      up == e.k = "up"
      bases == Constants(e.args[2], r.ctx.params)
      Based(s) == IF dims[1][2] = 0 THEN {s}
                  ELSE Bind(Emit(s.ctx, Constant(dims[1][2])), LAMBDA c : Emit(c.ctx, BinaryOp("SUB", s.v, c.v)))
      fits == dims # <<>> /\ ElementType(r.v.type).width = 1 /\ r.v.range = <<>> /\ last /\ dims[1][1] >= dims[1][2]
      Dynamic(w) == IF ~fits \/ w \notin 1 .. r.v.type.width THEN {}
                    ELSE Bind(Bind(BuildNode(e.args[2], r.ctx), Based), LAMBDA s : Varying(r, s, e.k, w))
      Static(b, w) == Result(r.ctx, IF up THEN Ranged(r.v, b, b + w - 1) ELSE Ranged(r.v, b - w + 1, b))
  IN UNION {IF bases = {} THEN Dynamic(w) ELSE UNION {Static(b, w) : b \in bases} : w \in Constants(e.args[3], r.ctx.params)}
PlaceField(r, field) ==
  IF ~IsStruct(r.v.type) THEN {}
  ELSE {[r EXCEPT !.v.path = Append(@, field), !.v.type = f.type] : f \in {f \in ToSet(r.v.type.fields) : f.name = field}}
ResolvePlace(lhs, ctx) ==
  LET Selected(r, k) ==
        LET e == lhs.selectors[k]
            p == r.ctx.params
        IN CASE e.k = "bit" -> PlaceBit(r, e.args[2])
             [] e.k = "range" -> UNION {PlaceRange(r, x, y) : x \in Constants(e.args[2], p), y \in Constants(e.args[3], p)}
             [] OTHER -> PlacePart(r, e, k = Len(lhs.selectors))
      selected == FoldLeft(LAMBDA done, k : Bind(done, LAMBDA r : Selected(r, k)),
                           Result(ctx, Place(<<>>, ctx.decl[lhs.base])), Upto(1, Len(lhs.selectors)))
  IN FoldLeft(LAMBDA done, f : Bind(done, LAMBDA r : PlaceField(r, f)), selected, lhs.fields)
\* the type the right hand side is fitted to
PlaceType(place) ==
  IF place.dynamic # <<>> THEN Integer(place.dynamic[4], FALSE)
  ELSE IF place.range # <<>> THEN [place.type EXCEPT !.width = SizeOf(place.range)]
  ELSE place.type

-----------------------------------------------------------------------------
(* assignments *)
WriteName(ctx, leaf) == IF ctx.seq THEN Append(leaf, ".d") ELSE leaf
MayWrite(ctx, base) == ctx.seq => base \in ctx.flops
Triggered(ctx, base) == IF ctx.seq THEN [ctx EXCEPT !.facts = Put(@, base, ctx.triggers)] ELSE ctx
\* every leaf of the target takes the leaf of the value that is in its place
WriteLeaves(ctx, base, path, type, leaves) ==
  LET plan == LeafPlan(type)
      Written(c, k) ==
        Bind(Coerced([ctx |-> c, v |-> Expr(plan[k].type, <<leaves[k]>>)], plan[k].type), LAMBDA r :
          WriteTarget(r.ctx, WriteName(c, <<base>> \o path \o plan[k].path), NodeOf(r)))
  IN IF Len(leaves) # Len(plan) \/ ~MayWrite(ctx, base) THEN {}
     ELSE Bind(FoldLeft(LAMBDA done, k : Bind(done, LAMBDA c : Written(c, k)), {ctx}, Upto(1, Len(plan))),
               LAMBDA c : {Triggered(c, base)})
\* a scalar is cut into the fields of the struct, the last one least significant
AssignStruct(r, base, place) ==
  LET scalar == IF IsScalarType(r.v.type) THEN LeavesFromScalar([r EXCEPT !.v.type = NoType], place.type) ELSE {}
      fitted == IF SameShape(place.type, r.v.type) THEN {r} ELSE IF HasStruct(r.v.type) THEN {} ELSE scalar
  IN Bind(fitted, LAMBDA s : WriteLeaves(s.ctx, base, place.path, place.type, s.v.leaves))
AssignArray(r, base, type) ==
  IF IsArray(r.v.type) /\ r.v.type.dim = type.dim THEN WriteLeaves(r.ctx, base, <<>>, type, r.v.leaves) ELSE {}
\* one node per scalar element, in declaration order
ArrayPatternNodes(e, t, ctx) ==
  LET keyed == [k \in KeyedItems(e) |-> CHOOSE x \in Constants(e.v[k], ctx.params) : TRUE]
  IN IF Keyed(e) /\ IsArray(t.elem) THEN {}
     ELSE IF Keyed(e)
     THEN Bind(BuildNodes(e.args, ctx), LAMBDA r :
            {[r EXCEPT !.v = nodes] : nodes \in ItemsFor([e EXCEPT !.args = r.v], IndexesOf(t.dim), keyed)})
     ELSE IF Len(e.args) # SizeOf(t.dim) THEN {}
     ELSE Bind(BuildItems(e.args, [k \in DOMAIN e.args |-> t.elem], FALSE, t, ctx),
               LAMBDA r : Result(r.ctx, r.v.leaves))
\* {x, y} = value: the elements are whole names, the first one most significant
AssignConcat(r, names) ==
  LET Width(n) == TypeOfNode(r.ctx.graph, r.ctx.nodes[WriteName(r.ctx, <<n>>)]).width
      known == \A n \in ToSet(names) : WriteName(r.ctx, <<n>>) \in DOMAIN r.ctx.nodes
      low[k \in DOMAIN names] == IF k = Len(names) THEN 0 ELSE low[k + 1] + Width(names[k + 1])
      Written(c, k) ==
        Bind(Emit(c, SliceOf(NodeOf(r), Upto(low[k], low[k] + Width(names[k]) - 1))), LAMBDA s :
          Bind(WriteTarget(s.ctx, WriteName(c, <<names[k]>>), s.v), LAMBDA d : {Triggered(d, names[k])}))
  IN IF ~known \/ \E n \in ToSet(names) : ~MayWrite(r.ctx, n) THEN {}
     ELSE FoldLeft(LAMBDA done, k : Bind(done, LAMBDA c : Written(c, k)), {r.ctx}, Upto(1, Len(names)))
\* every bit takes `Chosen(ctx, bit, previous)', most significant first
PerBit(ctx, driver, type, Chosen(_, _, _)) ==
  LET One(b, c) == Bind(Emit(c, Typed(SliceOf(driver, <<b>>), OneBit)), LAMBDA prev :
                     Bind(Chosen(prev.ctx, b, prev.v), LAMBDA pair :
                       Emit(pair.ctx, Typed(MuxOf(pair.v[1], <<1, 0>>, <<pair.v[2], prev.v>>), OneBit))))
  IN Bind(AllBuilt(Reverse(Upto(0, type.width - 1)), One, ctx), LAMBDA r : Emit(r.ctx, Typed(ConcatOf(r.v), type)))
IndexAtOffset(dim, offset) == IF dim[1] >= dim[2] THEN dim[2] + offset ELSE dim[2] - offset
\* target[index] = bit: the result is the driver, whatever slices the target is known by
AssignDynamicBit(r, base, place, name) ==
  LET Chosen(c, b, prev) ==
        Bind(Emit(c, Constant(IndexAtOffset(place.dynamic[3], b))), LAMBDA k :
          Bind(Emit(k.ctx, Typed(BinaryOp("EQ", place.dynamic[2], k.v), OneBit)),
               LAMBDA eq : Result(eq.ctx, <<eq.v, NodeOf(r)>>)))
      Driven(c) == UNION {Bind(PerBit(c, d, place.type, Chosen),
                               LAMBDA s : {Triggered(Cached(Connected(s.ctx, name, s.v), name, s.v), base)}) :
                            d \in CurrentWholeDriver(c, name)}
  IN IF IsTarget(r.ctx, name) THEN Bind(RecordFullWrite(r.ctx, name), Driven) ELSE {}
\* target[base +: width] = part: a whole write of shifted bits inside the window, the previous ones outside
AssignDynamicPart(r, base, place, name) ==
  LET selector == place.dynamic[2]
      width == place.dynamic[4]
      wide == Integer(place.type.width + width - 1, FALSE)
      up == place.dynamic[1] = "up"
      Padded == IF wide.width = width THEN Result(r.ctx, NodeOf(r))
                ELSE Bind(Emit(r.ctx, Typed(Constant(0), Integer(wide.width - width, FALSE))), LAMBDA z :
                       Emit(z.ctx, Typed(ConcatOf(<<z.v, NodeOf(r)>>), wide)))
      Back(s) == IF up \/ width = 1 THEN {s}
                 ELSE Bind(Emit(s.ctx, Constant(width - 1)), LAMBDA k : Emit(k.ctx, Typed(BinaryOp("SHR", s.v, k.v), wide)))
      Shifted == Bind(Bind(Padded, LAMBDA w : Emit(w.ctx, Typed(BinaryOp("SHL", w.v, selector), wide))), Back)
      End(c) == IF up THEN Bind(Emit(c, Constant(width)), LAMBDA k : Emit(k.ctx, BinaryOp("ADD", selector, k.v)))
                ELSE Result(c, 0)
      Inside(c, b, end) ==
        Bind(Emit(c, Constant(b)), LAMBDA i :
          Bind(Emit(i.ctx, Typed(IF up THEN BinaryOp("GE", i.v, selector) ELSE BinaryOp("GE", selector, i.v), OneBit)), LAMBDA x :
            Bind(IF up THEN Emit(x.ctx, Typed(BinaryOp("LT", i.v, end), OneBit))
                 ELSE Bind(Emit(x.ctx, Constant(b + width)), LAMBDA k : Emit(k.ctx, Typed(BinaryOp("LT", selector, k.v), OneBit))), LAMBDA y :
              Emit(y.ctx, Typed(BinaryOp("BITWISE_AND", x.v, y.v), OneBit)))))
      Chosen(c, b, shifted, end) ==
        Bind(Inside(c, b, end), LAMBDA in : Bind(Emit(in.ctx, Typed(SliceOf(shifted, <<b>>), OneBit)),
                                                 LAMBDA new : Result(new.ctx, <<in.v, new.v>>)))
      Driven(d, s, e) == Bind(PerBit(e.ctx, d, place.type, LAMBDA c, b, prev : Chosen(c, b, s.v, e.v)),
                              LAMBDA w : Bind(WriteTarget(w.ctx, name, w.v), LAMBDA c : {Triggered(c, base)}))
  IN UNION {Bind(Shifted, LAMBDA s : Bind(End(s.ctx), LAMBDA e : Driven(d, s, e))) : d \in CurrentWholeDriver(r.ctx, name)}
\* a struct is the concatenation of its leaves
ScalarValue(r) ==
  LET flat == Integer(BitstreamWidth(r.v.type), FALSE)
  IN IF IsScalarType(r.v.type) THEN {r}
     ELSE IF IsArray(r.v.type) THEN {}
     ELSE Bind(Emit(r.ctx, Typed(ConcatOf(r.v.leaves), flat)), LAMBDA s : Result(s.ctx, Expr(flat, <<s.v>>)))
AssignScalar(r, base, place) ==
  LET name == WriteName(r.ctx, <<base>> \o place.path)
      t == PlaceType(place)
      Fitted(s) == IF t.width > 0 THEN Coerced(s, t) ELSE {s}
      Written(s) ==
        IF place.dynamic # <<>> THEN IF place.dynamic[1] = "bit" THEN AssignDynamicBit(s, base, place, name)
                                     ELSE AssignDynamicPart(s, base, place, name)
        ELSE Bind(IF place.range = <<>> THEN WriteTarget(s.ctx, name, NodeOf(s))
                  ELSE Bind(WritePartialTargetSlice(s.ctx, name, Least(place.range[1], place.range[2]),
                                                    Most(place.range[1], place.range[2]), NodeOf(s)),
                            LAMBDA c : CachedEnv(c, name)),
                  LAMBDA c : {Triggered(c, base)})
  IN IF MayWrite(r.ctx, base) THEN Bind(Bind(ScalarValue(r), Fitted), Written) ELSE {}
RECURSIVE NeedsPatternContext(_)
NeedsPatternContext(e) ==
  e.k = "pattern" \/ (e.k = "cond" /\ (NeedsPatternContext(e.args[2]) \/ NeedsPatternContext(e.args[3])))
\* lhs = the value that Value(place type) gives: it is built before the indices of the left hand side
ResolveAssignExpression(lhs, rhs, ctx) ==
  LET place == Normalized(lhs)
      t == ctx.decl[place.base]
      whole == place.selectors = <<>> /\ IsArray(t)
      deferred == NeedsPatternContext(rhs)
      Late(r) ==
        LET target == PlaceType(r.v)
            shaped == r.v.range = <<>> /\ (HasStruct(target) \/ DimsOf(target) # <<>>)
        IN IF shaped THEN BuildFor(rhs, target, FALSE, r.ctx) ELSE IF rhs.k = "pattern" THEN {} ELSE Build(rhs, r.ctx)
      Assigned(r, at) == IF at.range = <<>> /\ HasStruct(PlaceType(at)) THEN AssignStruct(r, place.base, at)
                         ELSE IF IsArray(PlaceType(at)) THEN {} ELSE AssignScalar(r, place.base, at)
  IN IF lhs.k = "concat" THEN Bind(Build(rhs, ctx), LAMBDA r : AssignConcat(r, [k \in DOMAIN lhs.args |-> lhs.args[k].v]))
     ELSE IF place.base \notin DOMAIN ctx.decl THEN {}
     ELSE IF whole /\ rhs.k = "pattern" /\ lhs.k = "id" /\ ~HasStruct(t)
     THEN Bind(ArrayPatternNodes(rhs, t, ctx), LAMBDA r : WriteLeaves(r.ctx, place.base, <<>>, t, r.v))
     ELSE IF whole
     THEN Bind(IF deferred THEN BuildFor(rhs, t, FALSE, ctx) ELSE Build(rhs, ctx), LAMBDA r : AssignArray(r, place.base, t))
     ELSE IF deferred
     THEN Bind(ResolvePlace(place, ctx), LAMBDA at : Bind(Late(at), LAMBDA r : Assigned(r, at.v)))
     ELSE Bind(Build(rhs, ctx), LAMBDA r : Bind(ResolvePlace(place, r.ctx), LAMBDA at :
            Assigned([r EXCEPT !.ctx = at.ctx], at.v)))
\* x op= y in either kind of block: the node is the value, with no type of its own
ResolveCompound(op, lhs, rhs, ctx) ==
  LET place == Normalized(lhs)
  IN Bind(BuildNodes(<<lhs, rhs>>, ctx), LAMBDA r : Bind(Emit(r.ctx, BinaryOp(op, r.v[1], r.v[2])), LAMBDA s :
       Bind(ResolvePlace(place, s.ctx), LAMBDA at :
         IF ~IsScalarType(PlaceType(at.v)) THEN {}
         ELSE AssignScalar([ctx |-> at.ctx, v |-> Expr(NoType, <<s.v>>)], place.base, at.v))))

-----------------------------------------------------------------------------
(* the codes of a case statement *)
IsConstant(e, ctx) == Constants(e, ctx.params) # {}
\* a label with don't-care bits stands for every value of them
LabelValues(label, z, ctx) ==
  IF label.k = "wild"
  THEN IF z THEN {label.v.value + m : m \in {m \in 0 .. label.v.mask : m & label.v.mask = m}} ELSE {}
  ELSE Constants(label, ctx.params)
\* the items of every code, in order; a selector of w bits sees the labels modulo 2^w
Claims(items, w, z, ctx) ==
  [code \in 0 .. 2 ^ w - 1 |->
     SelectSeq(Upto(1, Len(items)), LAMBDA k : \E j \in DOMAIN items[k].labels :
                 \E x \in LabelValues(items[k].labels[j], z, ctx) : x % 2 ^ w = code)]
\* without wildcards a code that is named twice, even by one item, is an error
NamedTwice(items, w, ctx) ==
  LET labels == FlattenSeq([k \in DOMAIN items |-> items[k].labels])
      Code(j) == {x % 2 ^ w : x \in Constants(labels[j], ctx.params)}
  IN \E i, j \in DOMAIN labels : i < j /\ Code(i) = Code(j)
FirstClaim(claims, conflict) ==
  [code \in DOMAIN claims |-> IF claims[code] = <<>> THEN 0
                              ELSE IF conflict /\ Len(claims[code]) > 1 THEN -1 ELSE claims[code][1]]
SelectorWidthFits(w) == w \in 1 .. WordBits - 2

-----------------------------------------------------------------------------
(* statements *)
RECURSIVE Lower(_, _)
\* the arm from the drivers at the start of the statement: [ctx, v], v what it did to targets
LowerArm(statement, ctx, base) ==
  Bind(Lower(statement, Restored(ctx, base)), LAMBDA c : Result(c, ModifiedSince(c, base)))
LowerArms(bodies, ctx, base) == AllBuilt(bodies, LAMBDA body, c : LowerArm(body, c, base), ctx)
\* none or one delta: the arm that may be missing
LowerOptional(bodies, ctx, base) == Bind(LowerArms(bodies, ctx, base), LAMBDA r : Result(r.ctx, ToSet(r.v)))
\* a constant condition leaves one branch; when it does not evaluate, or when lowering that branch
\* throws, both branches are merged (what the branch had written before it threw is not kept here)
LowerIf(s, ctx) ==
  LET taken(x) == IF x # 0 THEN {2} ELSE {3} \cap DOMAIN s.args
      constant == Constants(s.args[1], ctx.params)
      Merge(c) ==
        Bind(LowerOptional(SubSeq(s.args, 3, Len(s.args)), c.ctx, c.ctx), LAMBDA other :
          Bind(LowerArm(s.args[2], other.ctx, c.ctx), LAMBDA branch :
            MergeIfBranches(Restored(branch.ctx, c.ctx), c.v, branch.v, other.v, c.ctx)))
      static == UNION {IF taken(x) = {} THEN {ctx} ELSE UNION {Lower(s.args[k], ctx) : k \in taken(x)} : x \in constant}
  IN IF static # {} THEN static ELSE Bind(BuildCondition(s.args[1], ctx), Merge)
\* the items in source order, the default among them as an item without labels
InSourceOrder(s) ==
  IF s.v.default = <<>> THEN s.v.items
  ELSE InsertAt(s.v.items, s.v.at + 1, [labels |-> <<>>, body |-> s.v.default[1]])
\* what was made of them: of the labelled ones, in order, and of the default, none or one
OfItems(s, made) == IF s.v.default = <<>> THEN made ELSE RemoveAt(made, s.v.at + 1)
OfDefault(s, made) == IF s.v.default = <<>> THEN {} ELSE {made[s.v.at + 1]}
\* the selector is built where the last arm has left the drivers
LowerCaseOfLabels(s, ctx) ==
  LET items == s.v.items
      fits == \A k \in DOMAIN items : items[k].labels # <<>> /\
                \A j \in DOMAIN items[k].labels : LabelValues(items[k].labels[j], s.v.z, ctx) # {}
      Merge(arms, other, r) ==
        LET w == TypeOfNode(r.ctx.graph, r.v).width
            claims == Claims(items, w, s.v.z, ctx)
            chosen == FirstClaim(claims, s.v.z /\ s.v.unique)
        IN IF ~SelectorWidthFits(w) \/ (~s.v.z /\ NamedTwice(items, w, ctx)) THEN {}
           ELSE MergeCaseBranches(Restored(r.ctx, ctx), r.v, chosen, arms, other, s.v.unique /\ other = {}, ctx)
      Selected(c) == Bind(BuildNode(s.args[1], c), LAMBDA r :
                       {[r EXCEPT !.ctx.graph = g] : g \in ResolveNodeTypeNow(r.ctx.graph, r.v)})
      bodies == LET arms == InSourceOrder(s) IN [k \in DOMAIN arms |-> arms[k].body]
  IN IF ~fits THEN {}
     ELSE Bind(LowerArms(bodies, ctx, ctx), LAMBDA arms :
            Bind(Selected(arms.ctx), LAMBDA r : Merge(OfItems(s, arms.v), OfDefault(s, arms.v), r)))
\* one bit for each item, of which the first that is set chooses; case (1'b0) matches what is false;
\* the labels are built where the arm before has left the drivers
LowerCaseOfConditions(s, ctx, constant) ==
  LET items == s.v.items
      n == Len(items)
      Match(label, c) ==
        Bind(BuildNode(label, c), LAMBDA r : UNION {
          IF TypeOfNode(g, r.v).width # 1 THEN {}
          ELSE IF constant = 0 THEN LowerNot([r.ctx EXCEPT !.graph = g], r.v) ELSE LowerTruth([r.ctx EXCEPT !.graph = g], r.v) :
          g \in ResolveNodeTypeNow(r.ctx.graph, r.v)})
      Either(r) == IF r.v = <<>> THEN Result(r.ctx, 0)
                   ELSE FoldLeft(LAMBDA done, x : Bind(done, LAMBDA d : LowerLogical(d.ctx, "BITWISE_OR", d.v, x)),
                                 Result(r.ctx, r.v[1]), Tail(r.v))
      ItemArm(item, c) == Bind(Bind(AllBuilt(item.labels, Match, c), Either), LAMBDA m :
                        Bind(LowerArm(item.body, m.ctx, ctx), LAMBDA d : Result(d.ctx, [match |-> m.v, delta |-> d.v])))
      Selector(c, arms) == IF n = 0 THEN Emit(c, Typed(Constant(0), OneBit))
                           ELSE IF n = 1 THEN Result(c, arms[1].match)
                           ELSE Emit(c, ConcatOf([k \in 1 .. n |-> arms[k].match]))
      claims == [code \in 0 .. 2 ^ Most(n, 1) - 1 |-> SelectSeq(Upto(1, n), LAMBDA k : (code \div 2 ^ (n - k)) % 2 = 1)]
      Merge(arms, other, r) ==
        MergeCaseBranches(Restored(r.ctx, ctx), r.v, FirstClaim(claims, s.v.unique), [k \in 1 .. n |-> arms[k].delta],
                          {d.delta : d \in other}, s.v.unique /\ other = {}, ctx)
      variable == \A k \in DOMAIN items : items[k].labels # <<>> /\
                    \A j \in DOMAIN items[k].labels : ~IsConstant(items[k].labels[j], ctx)
  IN IF s.v.z \/ ~variable \/ constant \notin {0, 1} \/ ConstantWidth(s.args[1], ctx.params) # {1} THEN {}
     ELSE Bind(AllBuilt(InSourceOrder(s), ItemArm, ctx), LAMBDA made :
            Bind(Selector(made.ctx, OfItems(s, made.v)), LAMBDA r : Merge(OfItems(s, made.v), OfDefault(s, made.v), r)))
\* the body once for every value of the loop variable, a parameter while it lasts
RECURSIVE LowerIterations(_, _, _)
LowerIterations(s, params, ctx) ==
  LET more == UNION {IF x = 0 THEN {FALSE} ELSE {TRUE} : x \in Constants(s.args[2], params)}
      Next(c) == UNION {LowerIterations(s, Put(params, s.v, IntegerConstant(x)), c) :
                          x \in Constants(s.args[3], params)}
  IN UNION {IF m THEN Bind(Lower(s.args[4], [ctx EXCEPT !.params = params]), Next) ELSE {ctx} : m \in more}
LowerFor(s, ctx) ==
  UNION {Bind(LowerIterations(s, Put(ctx.params, s.v, IntegerConstant(x)), ctx),
              LAMBDA c : {[c EXCEPT !.params = ctx.params]}) : x \in Constants(s.args[1], ctx.params)}
Lower(s, ctx) ==
  CASE s.k = "begin" -> FoldLeft(LAMBDA done, t : Bind(done, LAMBDA c : Lower(t, c)), {ctx}, s.args)
    [] s.k = "=" -> IF ctx.seq THEN {} ELSE ResolveAssignExpression(s.args[1], s.args[2], ctx)
    [] s.k = "<=" -> IF ctx.seq THEN ResolveAssignExpression(s.args[1], s.args[2], ctx) ELSE {}
    [] s.k = "op=" -> ResolveCompound(s.v, s.args[1], s.args[2], ctx)
    [] s.k = "if" -> LowerIf(s, ctx)
    [] s.k = "case" -> IF IsConstant(s.args[1], ctx)
                       THEN UNION {LowerCaseOfConditions(s, ctx, x) : x \in Constants(s.args[1], ctx.params)}
                       ELSE LowerCaseOfLabels(s, ctx)
    [] s.k = "for" -> LowerFor(s, ctx)
=============================================================================
