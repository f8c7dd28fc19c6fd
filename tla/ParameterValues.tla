--------------------------- MODULE ParameterValues ---------------------------
(***************************************************************************)
(* The parameters of a module and the types written in terms of them       *)
(* (type_resolve.cpp, evaluateConstantValue of constant_eval.cpp).         *)
(*                                                                         *)
(* A declared parameter is [name, type, default], default the sequence of  *)
(* its one expression, empty without one.  A declared type is a type, or   *)
(* Packed, Unpacked or Implicit below: their bounds are expressions, a     *)
(* pair [left:right] or the one of [size].                                 *)
(***************************************************************************)
EXTENDS ConstantEval
LOCAL INSTANCE SequencesExt
LOCAL INSTANCE FiniteSetsExt

\* a keyword, as logic (1 bit) or int, with the dimensions after it
Packed(scalarWidth, signed, bounds) == [scalarWidth |-> scalarWidth, signed |-> signed, bounds |-> bounds]
Unpacked(bound, elem) == [bound |-> bound, elem |-> elem]
Implicit == [implicit |-> TRUE]
Parameter(name, type, default) == [name |-> name, type |-> type, default |-> default]

-----------------------------------------------------------------------------
(* types *)
\* [N] is [0:N-1]
ResolveDimension(bound, p) ==
  IF Len(bound) = 1 THEN {<<0, n - 1>> : n \in Constants(bound[1], p)}
  ELSE {<<left, right>> : left \in Constants(bound[1], p), right \in Constants(bound[2], p)}
\* without dimensions a type has the one of a single bit
ResolveDimensions(bounds, p) ==
  IF bounds = <<>> THEN {<<<<0, 0>>>>}
  ELSE FoldLeft(LAMBDA done, bound : {Append(dims, dim) : dims \in done, dim \in ResolveDimension(bound, p)}, {<<>>}, bounds)
RECURSIVE ResolveType(_, _)
ResolveType(t, p) ==
  LET Field(f) == {[f EXCEPT !.type = type] : type \in ResolveType(f.type, p)}
      Fields == FoldLeft(LAMBDA done, f : {Append(fields, g) : fields \in done, g \in Field(f)}, {<<>>}, t.fields)
  IN CASE "implicit" \in DOMAIN t -> {Integer(IntBits, FALSE)}
       [] "bounds" \in DOMAIN t ->
            {[width |-> t.scalarWidth * ProductOf(dims), signed |-> t.signed, dims |-> dims] : dims \in ResolveDimensions(t.bounds, p)}
       [] "bound" \in DOMAIN t -> {[dim |-> dim, elem |-> elem] : dim \in ResolveDimension(t.bound, p), elem \in ResolveType(t.elem, p)}
       [] IsStruct(t) -> {[t EXCEPT !.fields = fields] : fields \in Fields}
       [] OTHER -> {t}

-----------------------------------------------------------------------------
(* values *)
\* the item of a struct pattern for each field: by position, or by its name or the one default
PatternItems(e, t) ==
  LET names == [k \in DOMAIN t.fields |-> t.fields[k].name]
      defaults == {k \in DOMAIN e.v : IsDefault(e.v[k])}
      Hits(name) == {k \in DOMAIN e.v \ defaults : e.v[k].v = name}
      exact == /\ \A k \in DOMAIN e.v \ defaults : \E j \in DOMAIN names : names[j] = e.v[k].v
               /\ \A j \in DOMAIN names : Cardinality(Hits(names[j])) <= 1 /\ Hits(names[j]) \cup defaults # {}
      Item(name) == e.args[Min(IF Hits(name) # {} THEN Hits(name) ELSE defaults)]
  IN IF e.v = <<>> THEN {items \in {e.args} : Len(items) = Len(names)}
     ELSE IF exact /\ Cardinality(defaults) <= 1 THEN {[j \in DOMAIN names |-> Item(names[j])]} ELSE {}
\* a literal takes the type wanted, a parameter keeps its own, the rest is computed in a word
RECURSIVE EvaluateConstantValue(_, _, _)
EvaluateConstantValue(e, t, p) ==
  LET pattern == IF e.k = "literal" THEN e.args[1] ELSE e
      All(items, types) ==
        FoldLeft(LAMBDA done, k : {Append(parts, part) : parts \in done, part \in EvaluateConstantValue(items[k], types[k], p)},
                 {<<>>}, [k \in DOMAIN items |-> k])
      Widths(items) == FoldLeft(LAMBDA done, item : {Append(types, Integer(w, FALSE)) : types \in done, w \in ConstantWidth(item, p)},
                                {<<>>}, items)
      Joined(items) == UNION {UNION {Concatenate(t, parts) : parts \in All(items, types)} : types \in Widths(items)}
      Whole(items) == UNION {Aggregate(t, parts) : parts \in IF Len(items) = Len(PartTypes(t)) THEN All(items, PartTypes(t)) ELSE {}}
      \* of an array only one default, which goes down to the elements that are no aggregates
      Same == IF Len(pattern.v) # 1 \/ ~IsDefault(pattern.v[1]) THEN {}
              ELSE EvaluateConstantValue(IF IsScalarType(t.elem) THEN pattern.args[1] ELSE pattern, t.elem, p)
  IN CASE e.k = "id" -> {p[name] : name \in {e.v} \cap DOMAIN p}
       [] e.k = "field" /\ e.args[1].k = "id" -> UNION {FieldOf(p[name], e.v) : name \in {e.args[1].v} \cap DOMAIN p}
       [] e.k \in {"fill", "int"} -> Bits(t, e.v)
       [] e.k = "sized" -> Bits(t, e.v.value)
       [] e.k = "concat" -> Joined(e.args)
       [] e.k = "repeat" -> UNION {Joined(items) : items \in Replicated(e.args, p)}
       [] pattern.k = "pattern" ->
            IF IsArray(t) THEN IF pattern.v = <<>> THEN Whole(pattern.args)
                               ELSE UNION {Aggregate(t, [k \in 1 .. SizeOf(t.dim) |-> x]) : x \in Same}
            ELSE IF IsStruct(t) THEN UNION {Whole(items) : items \in PatternItems(pattern, t)} ELSE {}
       [] OTHER -> IF IsScalarType(t) THEN UNION {Bits(t, x) : x \in Constants(e, p)} ELSE {}

-----------------------------------------------------------------------------
(* parameters, in the order of their declaration *)
\* a value given from outside is kept as it is, with its own type
ResolveParameter(parameter, overrides, p) ==
  LET Values(t) == UNION {EvaluateConstantValue(parameter.default[k], t, p) : k \in DOMAIN parameter.default}
      With(t) == IF parameter.name \in DOMAIN overrides THEN {p} ELSE {(parameter.name :> x) @@ p : x \in Values(t)}
  IN UNION {With(t) : t \in ResolveType(parameter.type, p)}
ResolveParameters(parameters, overrides, params) ==
  FoldLeft(LAMBDA done, parameter : UNION {ResolveParameter(parameter, overrides, p) : p \in done}, params, parameters)
\* the types of the declarations at some places
ResolveTypes(decls, places, p) ==
  LET One(k) == IF k \in places THEN {[decls[k] EXCEPT !.type = t] : t \in ResolveType(decls[k].type, p)} ELSE {decls[k]}
  IN FoldLeft(LAMBDA done, k : {Append(ds, d) : ds \in done, d \in One(k)}, {<<>>}, [k \in DOMAIN decls |-> k])

PortKinds == {"clock", "input", "output", "register"}
PlacesOf(decls, stage) ==
  {k \in DOMAIN decls : IF decls[k].kind \in PortKinds THEN stage = "ports"
                        ELSE stage = IF IsStruct(decls[k].type) THEN "types" ELSE "signals"}
ResolveStage(src, stage, overrides) ==
  IF stage \in {"parameters", "local parameters"}
  THEN LET header == stage = "parameters"
       IN {[src EXCEPT !.params = p] :
             p \in ResolveParameters(IF header THEN src.params ELSE src.localparams, IF header THEN overrides ELSE <<>>,
                                     {IF header THEN overrides ELSE src.params})}
  ELSE {[src EXCEPT !.decls = decls] : decls \in ResolveTypes(src.decls, PlacesOf(src.decls, stage), src.params)}
\* the ports in terms of the parameters, the signals in terms of the local ones too
ResolveDeclarations(src, overrides) ==
  FoldLeft(LAMBDA done, stage : UNION {ResolveStage(r, stage, overrides) : r \in done},
           {src}, <<"parameters", "ports", "types", "local parameters", "signals">>)
=============================================================================
