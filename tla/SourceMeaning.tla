--------------------------- MODULE SourceMeaning ---------------------------
(***************************************************************************)
(* What a module of the source language means, executed statement by       *)
(* statement: the reference that the data flow graph is compared with.     *)
(*                                                                         *)
(* A variable is a vector of bits, a function on 0 .. width - 1; the first *)
(* field of a struct and the first element of an array are its most        *)
(* significant.  A bit is 0, 1, Unset (not assigned) or Unknown (not       *)
(* defined by the language).  A state is [types, params, cur, next, seq,   *)
(* open]:                                                                  *)
(* blocking assignments write `cur', the assignments of a clocked block    *)
(* `next'; `open' once an arm of a statement has left a bit unassigned     *)
(* that another arm assigns, or a case has named a value twice.            *)
(***************************************************************************)
EXTENDS ConstantEval
LOCAL INSTANCE SequencesExt
LOCAL INSTANCE FiniteSetsExt

Unknown == 2
Unset == 3
Digits == {0, 1}
BitsOf(n, w) == [b \in 0 .. w - 1 |-> (n \div 2 ^ b) % 2]
Width(bits) == Cardinality(DOMAIN bits)
Lost(digits) == IF Unset \in digits THEN Unset ELSE Unknown
ValuesIn(bits) == {bits[b] : b \in DOMAIN bits}
IsKnown(bits) == \A b \in DOMAIN bits : bits[b] \in Digits
NumberOf(bits) == FoldSet(LAMBDA b, n : n + bits[b] * 2 ^ b, 0, DOMAIN bits)
Blank(w) == [b \in 0 .. w - 1 |-> Unknown]
Unassigned(w) == [b \in 0 .. w - 1 |-> Unset]
Fit(bits, w) == [b \in 0 .. w - 1 |-> IF b \in DOMAIN bits THEN bits[b] ELSE 0]
\* most significant first
Join(parts) ==
  FoldLeft(LAMBDA acc, p : [b \in 0 .. Width(acc) + Width(p) - 1 |-> IF b < Width(p) THEN p[b] ELSE acc[b - Width(p)]],
           <<>>, parts)
BitwiseOf(Op(_, _), x, y) ==
  LET w == Most(Width(x), Width(y))
      Both(p, q) == IF {p, q} \subseteq Digits THEN Op(p, q) ELSE Lost({p, q})
  IN [b \in 0 .. w - 1 |-> Both(Fit(x, w)[b], Fit(y, w)[b])]
Agreed(f, g) == [n \in DOMAIN f |-> [b \in DOMAIN f[n] |-> IF f[n][b] = g[n][b] THEN f[n][b] ELSE Unknown]]
Truth(bits) == IF \E b \in DOMAIN bits : bits[b] = 1 THEN 1 ELSE IF IsKnown(bits) THEN 0 ELSE Lost(ValuesIn(bits))
OneBitOf(x) == [b \in {0} |-> x]
IntOf(n) == ConstantOf(Integer(IntBits, TRUE), n % 2 ^ IntBits)

-----------------------------------------------------------------------------
(* expressions *)
FieldIndex(t, field) == CHOOSE k \in DOMAIN t.fields : t.fields[k].name = field
BitOffset(dim, i) == IF dim[1] >= dim[2] THEN i - dim[2] ELSE dim[2] - i
Nowhere == 64
RECURSIVE Eval(_, _), Window(_, _), EvalIn(_, _, _), EvalFor(_, _, _)
\* the place of a selection in its variable, `low' may lie outside
Window(e, st) ==
  LET inner == Window(e.args[1], st)
      t == inner.type
      dim == IF IsArray(t) THEN t.dim ELSE IF t.dims = <<>> THEN <<t.width - 1, 0>> ELSE t.dims[1]
      elem == IF IsArray(t) THEN t.elem
              ELSE [width |-> t.width \div SizeOf(dim), signed |-> FALSE, dims |-> IF t.dims = <<>> THEN <<>> ELSE Tail(t.dims)]
      w == BitstreamWidth(elem)
      IndexOf(x) == LET bits == Eval(x, st) IN IF IsKnown(bits) THEN {NumberOf(bits)} ELSE {}
      \* elements of an array from the left, those of a vector from the right
      At(i) == inner.low + (IF IsArray(t) THEN SizeOf(dim) - 1 - PositionOf(dim, i) ELSE BitOffset(dim, i)) * w
      Part(low, n) == [base |-> inner.base, low |-> low, type |-> Integer(n * w, FALSE)]
  IN CASE e.k = "id" -> [base |-> e.v, low |-> 0, type |-> st.types[e.v]]
       [] e.k = "bit" -> LET hits == {i \in IndexOf(e.args[2]) : InDim(dim, i)}
                         IN [base |-> inner.base, type |-> elem, low |-> IF hits = {} THEN Nowhere ELSE At(Min(hits))]
       [] e.k = "range" -> LET x == NumberOf(Eval(e.args[2], st))
                               y == NumberOf(Eval(e.args[3], st))
                           IN Part(Least(At(x), At(y)), SizeOf(<<x, y>>))
       [] e.k \in {"up", "down"} ->
            LET n == NumberOf(Eval(e.args[3], st))
                hits == IndexOf(e.args[2])
            IN Part(IF hits = {} THEN Nowhere ELSE IF e.k = "up" THEN At(Min(hits)) ELSE At(Min(hits) - n + 1), n)
       [] e.k = "field" ->
            LET k == FieldIndex(t, e.v)
            IN [base |-> inner.base, type |-> t.fields[k].type,
                low |-> inner.low + BitstreamWidth([t EXCEPT !.fields = SubSeq(@, k + 1, Len(@))])]
\* a part that is not wholly inside its variable has no value
Read(bits, low, w) == IF low .. low + w - 1 \subseteq DOMAIN bits THEN [b \in 0 .. w - 1 |-> bits[low + b]] ELSE Blank(w)
Holds(op, x, y) ==
  CASE op = "EQ" -> x = y [] op = "NEQ" -> x # y [] op = "LT" -> x < y [] op = "LE" -> x <= y
    [] op = "GT" -> x > y [] op = "GE" -> x >= y
Compute(op, x, y, w) ==
  CASE op = "ADD" -> (x + y) % 2 ^ w [] op = "SUB" -> (x - y) % 2 ^ w [] op = "MUL" -> (x * y) % 2 ^ w
    [] op = "SHL" -> (x * 2 ^ y) % 2 ^ w [] op = "SHR" -> x \div 2 ^ y
    [] op = "DIV" -> x \div y [] op = "MOD" -> x % y [] op = "POWER" -> (x ^ y) % 2 ^ w
Computed == Arithmetic \cup Shifts \cup {"DIV", "MOD", "POWER"}
EvalBinary(op, x, y) ==
  LET w == IF op \in {"SHL", "SHR"} THEN Width(x) ELSE Most(Width(x), Width(y))
      p == NumberOf(x)
      q == NumberOf(y)
  IN CASE op = "BITWISE_AND" -> BitwiseOf(LAMBDA b, c : b * c, x, y)
       [] op = "BITWISE_OR" -> BitwiseOf(LAMBDA b, c : b + c - b * c, x, y)
       [] op = "BITWISE_XOR" -> BitwiseOf(LAMBDA b, c : (b + c) % 2, x, y)
       [] op = "BITWISE_XNOR" -> BitwiseOf(LAMBDA b, c : (b + c + 1) % 2, x, y)
       [] ~(IsKnown(x) /\ IsKnown(y)) -> [b \in 0 .. (IF op \in Computed THEN w ELSE 1) - 1 |-> Lost(ValuesIn(x) \cup ValuesIn(y))]
       [] op \in Computed -> BitsOf(Compute(op, p, q, w), w)
       [] OTHER -> BitsOf(IF Holds(op, p, q) THEN 1 ELSE 0, 1)
EvalUnary(op, x) ==
  LET ones == Cardinality({b \in DOMAIN x : x[b] = 1})
      all == ones = Width(x)
      Is(b) == BitsOf(IF b THEN 1 ELSE 0, 1)
  IN CASE ~IsKnown(x) -> [b \in 0 .. (IF op \in Reductions THEN 1 ELSE Width(x)) - 1 |-> Lost(ValuesIn(x))]
       [] op = "BITWISE_NOT" -> [b \in DOMAIN x |-> 1 - x[b]]
       [] op = "UNARY_NEGATE" -> BitsOf((-NumberOf(x)) % 2 ^ Width(x), Width(x))
       [] op = "REDUCTION_AND" -> Is(all)
       [] op = "REDUCTION_NAND" -> Is(~all)
       [] op = "REDUCTION_OR" -> Is(ones > 0)
       [] op = "REDUCTION_NOR" -> Is(ones = 0)
       [] op = "REDUCTION_XOR" -> Is(ones % 2 = 1)
       [] op = "REDUCTION_XNOR" -> Is(ones % 2 = 0)
Choose(c, x, y) ==
  LET w == Most(Width(x), Width(y))
      p == Fit(x, w)
      q == Fit(y, w)
  IN IF c = 1 THEN p ELSE IF c = 0 THEN q ELSE [b \in 0 .. w - 1 |-> IF p[b] = q[b] THEN p[b] ELSE Lost({c, p[b], q[b]})]
And3(p, q) == IF p = 0 \/ q = 0 THEN 0 ELSE IF p = 1 /\ q = 1 THEN 1 ELSE Lost({p, q})
Not3(p) == IF p \in Digits THEN 1 - p ELSE p
Or3(p, q) == Not3(And3(Not3(p), Not3(q)))
EvalInside(e, st) ==
  LET x == Eval(e.args[1], st)
      Match(item) ==
        IF item.k = "span" THEN And3(EvalBinary("GE", x, Eval(item.args[1], st))[0], EvalBinary("LE", x, Eval(item.args[2], st))[0])
        ELSE EvalBinary("EQ", x, Eval(item, st))[0]
  IN OneBitOf(FoldLeft(LAMBDA acc, item : Or3(acc, Match(item)), 0, Tail(e.args)))
Eval(e, st) ==
  LET Of(k) == Eval(e.args[k], st)
      T(k) == Truth(Of(k))
      window == Window(e, st)
  IN CASE e.k \in {"int", "fill"} -> BitsOf(e.v, IntBits)
       [] e.k = "sized" -> BitsOf(e.v.value, e.v.type.width)
       [] e.k = "id" /\ e.v \in DOMAIN st.params -> BitsOf(st.params[e.v].value, st.params[e.v].type.width)
       [] e.k \in {"id", "bit", "range", "up", "down", "field"} ->
            Read(st.cur[window.base], window.low, BitstreamWidth(window.type))
       [] e.k = "binary" -> EvalBinary(e.v, Of(1), Of(2))
       [] e.k = "unary" -> EvalUnary(e.v, Of(1))
       [] e.k = "not" -> OneBitOf(Not3(T(1)))
       [] e.k = "land" -> OneBitOf(And3(T(1), T(2)))
       [] e.k = "lor" -> OneBitOf(Or3(T(1), T(2)))
       [] e.k = "cond" -> Choose(T(1), Of(2), Of(3))
       [] e.k = "concat" -> Join([k \in DOMAIN e.args |-> Of(k)])
       [] e.k = "repeat" -> Join([k \in 1 .. NumberOf(Of(1)) * (Len(e.args) - 1) |-> Of(2 + ((k - 1) % (Len(e.args) - 1)))])
       [] e.k \in {"cast", "named"} -> Fit(Of(1), BitstreamWidth(e.v))
       [] e.k = "sign" -> Of(1)
       [] e.k = "inside" -> EvalInside(e, st)
       [] e.k = "bits" -> BitsOf(BitstreamWidth(Window(e.args[1], st).type), IntBits)
       [] e.k = "literal" -> EvalFor(e, e.v, st)
\* in a context of w bits the operands are extended before the operation
EvalIn(e, w, st) ==
  LET self == Eval(e, st)
      n == Most(w, Width(self))
      Of(k) == EvalIn(e.args[k], n, st)
  IN IF Width(self) >= w THEN self
     ELSE CASE e.k = "fill" -> BitsOf(e.v, n)
            [] e.k = "binary" /\ e.v \in {"SHL", "SHR"} -> EvalBinary(e.v, Of(1), Eval(e.args[2], st))
            [] e.k = "binary" /\ e.v \in Computed \cup Bitwises -> EvalBinary(e.v, Fit(Of(1), n), Fit(Of(2), n))
            [] e.k = "unary" /\ e.v \in {"BITWISE_NOT", "UNARY_NEGATE"} -> EvalUnary(e.v, Fit(Of(1), n))
            [] e.k = "cond" -> Choose(Truth(Eval(e.args[1], st)), Of(2), Of(3))
            [] OTHER -> Fit(self, n)
\* a pattern has the type of its target
EvalFor(e, t, st) ==
  LET pattern == IF e.k = "literal" THEN e.args[1] ELSE e
      parts == IF IsArray(t) THEN [k \in 1 .. SizeOf(t.dim) |-> t.elem]
               ELSE IF IsStruct(t) THEN [k \in DOMAIN t.fields |-> t.fields[k].type]
               ELSE [k \in 1 .. SizeOf(t.dims[1]) |-> Integer(t.width \div SizeOf(t.dims[1]), FALSE)]
      Key(k) == IF IsStruct(t) THEN t.fields[k].name ELSE IndexesOf(IF IsArray(t) THEN t.dim ELSE t.dims[1])[k]
      KeyOf(key) == IF IsStruct(t) THEN key.v ELSE NumberOf(Eval(key, st))
      ItemOf(k) == IF pattern.v = <<>> THEN pattern.args[k]
                   ELSE LET hits == {j \in DOMAIN pattern.v : pattern.v[j].k # "default" /\ KeyOf(pattern.v[j]) = Key(k)}
                        IN pattern.args[CHOOSE j \in DOMAIN pattern.v :
                                          IF hits = {} THEN pattern.v[j].k = "default" ELSE j \in hits]
  IN IF pattern.k = "pattern" THEN Join([k \in DOMAIN parts |-> Fit(EvalFor(ItemOf(k), parts[k], st), BitstreamWidth(parts[k]))])
     ELSE IF e.k = "cond" /\ ~IsScalarType(t) THEN Choose(Truth(Eval(e.args[1], st)), EvalFor(e.args[2], t, st), EvalFor(e.args[3], t, st))
     ELSE IF pattern.k = "literal" THEN EvalFor(pattern, t, st)
     ELSE EvalIn(e, BitstreamWidth(t), st)

-----------------------------------------------------------------------------
(* statements *)
Written(bits, low, value) == [b \in {b \in DOMAIN bits : b - low \in DOMAIN value} |-> value[b - low]] @@ bits
Store(st, window, value) ==
  LET In(f) == (window.base :> Written(f[window.base], window.low, value)) @@ f
  IN IF st.seq THEN [st EXCEPT !.next = In(@)] ELSE [st EXCEPT !.cur = In(@)]
StoreConcat(st, names, value) ==
  LET W(n) == BitstreamWidth(st.types[n])
      low[k \in DOMAIN names] == IF k = Len(names) THEN 0 ELSE low[k + 1] + W(names[k + 1])
      Part(k) == [b \in 0 .. W(names[k]) - 1 |-> Fit(value, low[1] + W(names[1]))[low[k] + b]]
  IN FoldLeft(LAMBDA s, k : Store(s, [base |-> names[k], low |-> 0], Part(k)), st, Upto(1, Len(names)))
ExecAssign(lhs, rhs, st) ==
  LET window == Window(lhs, st)
  IN IF lhs.k = "concat" THEN StoreConcat(st, [k \in DOMAIN lhs.args |-> lhs.args[k].v], Eval(rhs, st))
     ELSE Store(st, window, Fit(EvalFor(rhs, window.type, st), BitstreamWidth(window.type)))
RECURSIVE BaseName(_), Targets(_), Exec(_, _)
BaseName(e) == IF e.k = "id" THEN e.v ELSE BaseName(e.args[1])
Targets(s) ==
  CASE s.k \in {"=", "<=", "op="} -> IF s.args[1].k = "concat" THEN {s.args[1].args[k].v : k \in DOMAIN s.args[1].args} ELSE {BaseName(s.args[1])}
    [] s.k = "begin" -> UNION {Targets(s.args[k]) : k \in DOMAIN s.args}
    [] s.k = "if" -> UNION {Targets(s.args[k]) : k \in 2 .. Len(s.args)}
    [] s.k = "case" -> UNION ({Targets(s.v.items[k].body) : k \in DOMAIN s.v.items} \cup {Targets(s.v.default[k]) : k \in DOMAIN s.v.default})
    [] s.k = "for" -> Targets(s.args[4])
With(st, names, Filling(_)) ==
  LET Blur(f) == [n \in names |-> Filling(Width(f[n]))] @@ f
  IN IF st.seq THEN [st EXCEPT !.next = Blur(@)] ELSE [st EXCEPT !.cur = Blur(@)]
Matches(x, label, st) ==
  LET value == IF label.k = "wild" THEN label.v.value ELSE NumberOf(Eval(label, st))
      mask == IF label.k = "wild" THEN label.v.mask ELSE 0
      y == BitsOf(value, Width(x))
  IN \A b \in DOMAIN x : (mask \div 2 ^ b) % 2 = 1 \/ x[b] = y[b]
\* two ways through a statement of which only one assigns some bit
Uneven(p, r) == \E n \in DOMAIN p.cur : \E b \in DOMAIN p.cur[n] : (p.cur[n][b] = Unset) # (r.cur[n][b] = Unset)
Opened(st, ways) ==
  [st EXCEPT !.open = @ \/ \E p \in ways : p.open \/ (~st.seq /\ \E r \in ways : Uneven(p, r))]
\* the first item that matches; `unique' leaves undefined what no item, or more than one, matches
ExecCase(s, st) ==
  LET x == Eval(s.args[1], st)
      items == s.v.items
      Match(label, z) == IF s.args[1].k = "sized" THEN Eval(label, st) = z ELSE Matches(z, label, st)
      hits == {k \in DOMAIN items : \E j \in DOMAIN items[k].labels : Match(items[k].labels[j], x)}
      full == s.args[1].k # "sized" /\ \A n \in 0 .. 2 ^ Width(x) - 1 :
                \E k \in DOMAIN items : \E j \in DOMAIN items[k].labels : Matches(BitsOf(n, Width(x)), items[k].labels[j], st)
      labels == FlattenSeq([k \in DOMAIN items |-> items[k].labels])
      twice == /\ s.args[1].k # "sized" /\ ~s.v.z
               /\ \E i, j \in DOMAIN labels : i < j /\ NumberOf(Eval(labels[i], st)) = NumberOf(Eval(labels[j], st))
      arms == {Exec(items[k].body, st) : k \in DOMAIN items}
      other == IF s.v.default # <<>> THEN {Exec(s.v.default[1], st)} ELSE IF full \/ s.v.unique THEN {} ELSE {st}
      undefined == s.v.unique /\ (Cardinality(hits) > 1 \/ (hits = {} /\ s.v.default = <<>>))
      result == IF undefined \/ ~IsKnown(x) THEN With(st, Targets(s), Blank)
                ELSE IF hits # {} THEN Exec(items[Min(hits)].body, st)
                ELSE IF s.v.default # <<>> THEN Exec(s.v.default[1], st) ELSE st
  IN [Opened(result, arms \cup other) EXCEPT !.open = @ \/ twice]
RECURSIVE ExecLoop(_, _)
ExecLoop(s, st) ==
  LET step == Constants(s.args[3], st.params)
      After(x) == [Exec(s.args[4], st) EXCEPT !.params[s.v] = IntOf(x)]
  IN IF Constants(s.args[2], st.params) = {0} THEN st
     ELSE ExecLoop(s, After(CHOOSE x \in step : TRUE))
Exec(s, st) ==
  CASE s.k \in {"=", "<="} -> ExecAssign(s.args[1], s.args[2], st)
    [] s.k = "op=" -> ExecAssign(s.args[1], E("binary", <<s.args[1], s.args[2]>>, s.v), st)
    [] s.k = "begin" -> FoldLeft(LAMBDA acc, t : Exec(t, acc), st, s.args)
    [] s.k = "if" ->
         LET c == Truth(Eval(s.args[1], st))
             x == Exec(s.args[2], st)
             y == IF Len(s.args) = 3 THEN Exec(s.args[3], st) ELSE st
             either == [st EXCEPT !.cur = Agreed(x.cur, y.cur), !.next = Agreed(x.next, y.next)]
         IN Opened(IF c = 1 THEN x ELSE IF c = 0 THEN y ELSE either, {x, y})
    [] s.k = "case" -> ExecCase(s, st)
    [] s.k = "for" ->
         LET start == CHOOSE x \in Constants(s.args[1], st.params) : TRUE
         IN [ExecLoop(s, [st EXCEPT !.params = (s.v :> IntOf(start)) @@ @])
             EXCEPT !.params = st.params]

-----------------------------------------------------------------------------
(* instances: the module with the variables, blocks and parameters of its instances among its own *)
InputKinds == {"clock", "input"}
BoundaryKinds == InputKinds \cup {"output", "register"}
RECURSIVE Renamed(_, _, _), RenamedType(_, _, _), Flat(_), Miswired(_)
\* an expression or a statement, the names that are the instance's own below its name
Renamed(e, own, prefix) ==
  LET All(es) == [k \in DOMAIN es |-> Renamed(es[k], own, prefix)]
      Items(items) == [k \in DOMAIN items |-> [labels |-> All(items[k].labels), body |-> Renamed(items[k].body, own, prefix)]]
  IN CASE e.k = "id" -> IF e.v \in own THEN [e EXCEPT !.v = prefix \o @] ELSE e
       [] e.k = "case" -> [e EXCEPT !.args = All(@), !.v.items = Items(@), !.v.default = All(@)]
       [] OTHER -> [e EXCEPT !.args = All(@)]
RenamedType(t, own, prefix) ==
  LET Bound(bound) == [k \in DOMAIN bound |-> Renamed(bound[k], own, prefix)]
  IN CASE "bounds" \in DOMAIN t -> [t EXCEPT !.bounds = [k \in DOMAIN @ |-> Bound(@[k])]]
       [] "bound" \in DOMAIN t -> [t EXCEPT !.bound = Bound(@), !.elem = RenamedType(@, own, prefix)]
       [] "fields" \in DOMAIN t -> [t EXCEPT !.fields = [k \in DOMAIN @ |-> [@[k] EXCEPT !.type = RenamedType(@, own, prefix)]]]
       [] OTHER -> t
NamesIn(src) == {d.name : d \in ToSet(src.decls \o src.params \o src.localparams)}
\* what the parent connects to a port, nothing or one expression
Connection(parent, instance, port) ==
  LET conns == instance.connections
      given == {k \in DOMAIN conns : conns[k].kind # "wildcard" /\ conns[k].port = port}
      wildcard == \E k \in DOMAIN conns : conns[k].kind = "wildcard"
  IN IF given = {} THEN IF wildcard /\ port \in NamesIn(parent) THEN <<E("id", <<>>, port)>> ELSE <<>>
     ELSE LET conn == conns[Min(given)]
          IN CASE conn.kind = "open" -> <<>> [] conn.kind = "implicit" -> <<E("id", <<>>, port)>> [] OTHER -> <<conn.expr>>
\* ports become variables, connections assignments, parameters local ones; an open input has no value
Embedded(parent, instance) ==
  LET child == Flat(instance.module)
      prefix == instance.name \o "."
      own == NamesIn(child)
      Here(e) == Renamed(e, own, prefix)
      Each(s, F(_)) == [k \in DOMAIN s |-> F(s[k])]
      Declared(p) == [p EXCEPT !.name = prefix \o @, !.type = RenamedType(@, own, prefix)]
      Kind(d) == CASE d.kind \in InputKinds -> IF Connection(parent, instance, d.name) = <<>> THEN "open" ELSE "signal"
                   [] d.kind = "output" -> "signal" [] d.kind = "register" -> "flop" [] OTHER -> d.kind
      Given(p) == {k \in DOMAIN instance.overrides : instance.overrides[k].name = p.name}
      Default(p) == IF Given(p) # {} THEN <<instance.overrides[Min(Given(p))].expr>> ELSE Each(p.default, Here)
      Wire(d, e) == E("begin", <<E("=", IF d.kind \in InputKinds THEN <<E("id", <<>>, prefix \o d.name), e>> ELSE <<e, E("id", <<>>, prefix \o d.name)>>, "")>>, "")
      Wires(d) == Each(Connection(parent, instance, d.name), LAMBDA e : Wire(d, e))
      ports == SelectSeq(child.decls, LAMBDA d : d.kind \in BoundaryKinds)
  IN [parent EXCEPT
        !.decls = @ \o Each(child.decls, LAMBDA d : [Declared(d) EXCEPT !.kind = Kind(d)]),
        !.localparams = @ \o Each(child.params, LAMBDA p : [Declared(p) EXCEPT !.default = Default(p)])
                          \o Each(child.localparams, LAMBDA p : [Declared(p) EXCEPT !.default = Each(@, Here)]),
        !.combs = @ \o Each(child.combs, Here),
        !.timings = @ \o Each(child.timings, LAMBDA b : [triggers |-> Each(b.triggers, LAMBDA t : <<t[1], prefix \o t[2]>>), body |-> Here(b.body)]),
        !.assigns = @ \o Each(child.assigns, Here) \o FlattenSeq(Each(ports, Wires))]
Flat(src) == FoldLeft(Embedded, [src EXCEPT !.instances = <<>>], src.instances)
\* a connection names a port of the child, an input takes an expression, an output a variable or a bit of one;
\* connections by position are not of the subset
Miswired(src) ==
  LET Wrong(instance, conn) ==
        LET ports == {d \in ToSet(instance.module.decls) : d.kind \in BoundaryKinds /\ d.name = conn.port}
            input == \E d \in ports : d.kind \in InputKinds
        IN CASE conn.kind = "wildcard" -> FALSE
             [] conn.kind = "ordered" \/ ports = {} -> TRUE
             [] conn.kind = "implicit" -> conn.port \notin NamesIn(src)
             [] input -> conn.kind = "open"
             [] OTHER -> conn.kind = "named" /\ conn.expr.k \notin {"id", "bit"}
  IN \E instance \in ToSet(src.instances) : Miswired(instance.module) \/ \E conn \in ToSet(instance.connections) : Wrong(instance, conn)

-----------------------------------------------------------------------------
(* parameters: constants whose types and values are written in terms of the earlier ones *)
Nothing == [types |-> <<>>, params |-> <<>>, cur |-> <<>>, next |-> <<>>, seq |-> FALSE, open |-> FALSE]
RECURSIVE TypeMeant(_, _), Mentioned(_)
TypeMeant(t, st) ==
  LET ValueOf(e) == NumberOf(Eval(e, st))
      Dim(bound) == IF Len(bound) = 1 THEN <<0, ValueOf(bound[1]) - 1>> ELSE <<ValueOf(bound[1]), ValueOf(bound[2])>>
      dims == IF t.bounds = <<>> THEN <<<<0, 0>>>> ELSE [k \in DOMAIN t.bounds |-> Dim(t.bounds[k])]
  IN CASE "bounds" \in DOMAIN t -> [width |-> t.scalarWidth * ProductOf(dims), signed |-> t.signed, dims |-> dims]
       [] "bound" \in DOMAIN t -> [dim |-> Dim(t.bound), elem |-> TypeMeant(t.elem, st)]
       [] IsStruct(t) -> [t EXCEPT !.fields = [k \in DOMAIN @ |-> [t.fields[k] EXCEPT !.type = TypeMeant(@, st)]]]
       [] OTHER -> t
\* the value is converted to the type; without one the value keeps its own
Define(st, name, type, e) ==
  LET implicit == "implicit" \in DOMAIN type
      t == IF implicit THEN Integer(Width(Eval(e, st)), FALSE) ELSE TypeMeant(type, st)
      bits == IF implicit THEN Eval(e, st) ELSE Fit(EvalFor(e, t, st), BitstreamWidth(t))
      scalars == IF IsScalarType(t) THEN name :> ConstantOf(t, NumberOf(bits)) ELSE <<>>
  IN [st EXCEPT !.types = (name :> t) @@ @, !.cur = (name :> bits) @@ @, !.params = scalars @@ @]
DefineAll(st, parameters, given) ==
  FoldLeft(LAMBDA acc, p : Define(acc, p.name, p.type, IF p.name \in DOMAIN given THEN Unsized(given[p.name]) ELSE p.default[1]), st, parameters)
\* the source with types for its declarations, `constants' for its parameters
Meant(given) ==
  LET src == Flat(given)
      header == DefineAll(Nothing, src.params, src.overrides)
      all == DefineAll(header, src.localparams, <<>>)
      Of(d) == [d EXCEPT !.type = TypeMeant(@, IF d.kind \in BoundaryKinds THEN header ELSE all)]
  IN [decls |-> [k \in DOMAIN src.decls |-> Of(src.decls[k])], constants |-> all,
      combs |-> src.combs, timings |-> src.timings, assigns |-> src.assigns, instances |-> <<>>]
Mentioned(e) == (IF e.k = "id" THEN {e.v} ELSE {}) \cup UNION {Mentioned(e.args[k]) : k \in DOMAIN e.args}
\* a pattern has an item for each part of its type
Complete(e, t, st) ==
  e.k = "pattern" =>
    IF e.v = <<>> THEN Len(e.args) = IF IsStruct(t) THEN Len(t.fields) ELSE SizeOf(TypeMeant(t, st).dim)
    ELSE \/ \E k \in DOMAIN e.v : IsDefault(e.v[k])
         \/ IsStruct(t) /\ {t.fields[k].name : k \in DOMAIN t.fields} = {e.v[k].v : k \in DOMAIN e.v}
\* every parameter has a value, written in terms of earlier ones
Meaningful(source) ==
  LET src == Flat(source)
      all == src.params \o src.localparams
      given == src.overrides
  IN \A k \in DOMAIN all :
       \/ all[k].name \in DOMAIN given /\ k <= Len(src.params)
       \/ /\ all[k].default # <<>>
          /\ Mentioned(all[k].default[1]) \subseteq {all[j].name : j \in 1 .. k - 1}
          /\ \E st \in {DefineAll(Nothing, SubSeq(all, 1, k - 1), given)} : Complete(all[k].default[1], all[k].type, st)

-----------------------------------------------------------------------------
(* modules *)
\* a combinational block assigns its targets anew; what it leaves unassigned it does not drive
Refreshed(block, st) ==
  LET done == Exec(block, With(st, Targets(block), Unassigned))
      Kept(n) == [b \in {b \in DOMAIN st.cur[n] : done.cur[n][b] = Unset} |-> st.cur[n][b]]
  IN [st EXCEPT !.open = done.open, !.cur = [n \in Targets(block) |-> Kept(n) @@ done.cur[n]] @@ @]
\* the blocks run until nothing changes, which is at most once for each of them
RECURSIVE Settled(_, _)
Settled(blocks, st) ==
  LET swept == FoldLeft(LAMBDA acc, b : LET r == Refreshed(b, acc) IN [r EXCEPT !.open = @ \/ acc.open],
                        [st EXCEPT !.open = FALSE], blocks)
  IN IF swept.cur = st.cur THEN swept ELSE Settled(blocks, swept)
=============================================================================
