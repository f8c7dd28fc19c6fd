----------------------------- MODULE Vectorize -----------------------------
(***************************************************************************)
(* passes/vectorize.cpp: a CONCAT of alike lanes becomes one wide          *)
(* operation.  Lanes are listed least significant first, the parts of a    *)
(* CONCAT most significant first.  A builder returns a set, empty when its *)
(* rule does not fit, of [graph, id], id the node that replaces the lanes. *)
(***************************************************************************)
EXTENDS ConstantFold
LOCAL INSTANCE SequencesExt
LOCAL INSTANCE FiniteSetsExt

LanesOf(n) == Reverse(n.ins)
With(g, n) == [graph |-> Made(g, n), id |-> NextId(g)]
Total(g, lanes) == FoldLeft(LAMBDA w, i : w + Width(g, i), 0, lanes)
\* the payloads of constant lanes, each masked to its width, packed
PackedPayload(g, lanes, widths) ==
  FoldLeft(LAMBDA value, k : value * 2 ^ widths[k] + (g.nodes[lanes[k]].data[1] % 2 ^ widths[k]),
           0, Reverse(Upto(1, Len(lanes))))
Repeated(count, width) == [k \in 1 .. count * width |-> (k - 1) % width]

\* one node that carries the lane values as a vector of lanes of laneWidth bits
MaterializeVector(g, lanes, laneWidth) ==
  LET total == laneWidth * Len(lanes)
      same == \A k \in DOMAIN lanes : lanes[k] = lanes[1]
      const == \A k \in DOMAIN lanes : IsConst(g, lanes[k])
      n == IF same /\ Len(lanes) > 1 THEN SliceOf(lanes[1], Repeated(Len(lanes), laneWidth))
           ELSE IF const /\ total < WordBits
           THEN Constant(PackedPayload(g, lanes, [k \in DOMAIN lanes |-> laneWidth]))
           ELSE ConcatOf(Reverse(lanes))
  IN With(g, Typed(n, Integer(total, FALSE)))

\* slices of one source: one slice with the index lists joined, or the source itself
BuildSliceMerge(g, lanes) ==
  LET source == Lhs(g, lanes[1])
      merged == FoldLeft(LAMBDA s, i : s \o g.nodes[i].data, <<>>, lanes)
      t == TypeOfNode(g, source)
      identity == t.width = Len(merged) /\ ~t.signed /\ merged = Upto(0, Len(merged) - 1)
  IN IF \E k \in DOMAIN lanes : Width(g, lanes[k]) # Len(g.nodes[lanes[k]].data) \/ Lhs(g, lanes[k]) # source
     THEN {}
     ELSE IF identity THEN {[graph |-> g, id |-> source]}
     ELSE {With(g, Typed(SliceOf(source, merged), Integer(Len(merged), FALSE)))}
BuildConstPack(g, lanes) ==
  IF Total(g, lanes) >= WordBits THEN {}
  ELSE {With(g, Typed(Constant(PackedPayload(g, lanes, [k \in DOMAIN lanes |-> Width(g, lanes[k])])),
                      Integer(Total(g, lanes), FALSE)))}
SameWidths(g, lanes) == \A k \in DOMAIN lanes : Width(g, lanes[k]) = Width(g, lanes[1])
Inputs(g, lanes, k) == [j \in DOMAIN lanes |-> g.nodes[lanes[j]].ins[k]]
\* lane-independent operations only: no carries, no reads across lanes
IsVectorizableBitwise(op) == op \in Bitwises \cup {"BITWISE_NOT"}
BuildBitwiseMerge(g, lanes) ==
  LET op == Op(g, lanes[1])
      width == Width(g, lanes[1])
      x == MaterializeVector(g, Inputs(g, lanes, 1), width)
      y == MaterializeVector(x.graph, Inputs(g, lanes, 2), width)
      wide == Integer(width * Len(lanes), FALSE)
  IN IF ~IsVectorizableBitwise(op) \/ ~SameWidths(g, lanes) THEN {}
     ELSE IF op = "BITWISE_NOT" THEN {With(x.graph, Typed(Unary(op, x.id), wide))}
     ELSE {With(y.graph, Typed(BinaryOp(op, x.id, y.id), wide))}

\* multiplexers that share a selector and its codes: one wide multiplexer
BuildSharedSelectorMux(g, lanes) ==
  LET first == g.nodes[lanes[1]]
      width == Width(g, lanes[1])
      arms == FoldLeft(LAMBDA s, k : LET v == MaterializeVector(s.graph, Inputs(g, lanes, k + 1), width)
                                     IN [graph |-> v.graph, ids |-> Append(s.ids, v.id)],
                       [graph |-> g, ids |-> <<>>], Upto(1, Len(first.data)))
      alike == \A k \in DOMAIN lanes : /\ g.nodes[lanes[k]].ins[1] = first.ins[1]
                                       /\ g.nodes[lanes[k]].data = first.data
  IN IF ~alike \/ ~SameWidths(g, lanes) THEN {}
     ELSE {With(arms.graph, Typed(MuxOf(first.ins[1], first.data, arms.ids), Integer(width * Len(lanes), FALSE)))}

\* binary multiplexers with their own 1-bit selectors: (mask & taken) | (~mask & fallthrough)
BuildMaskedMerge(g, lanes) ==
  LET width == Width(g, lanes[1])
      wide == Integer(width * Len(lanes), FALSE)
      Branch(code) == [k \in DOMAIN lanes |-> LET n == g.nodes[lanes[k]] IN Arm(n, ArmIndexFor(n, code))]
      bits == MaterializeVector(g, Inputs(g, lanes, 1), 1)
      mask == IF width = 1 THEN bits
              ELSE With(bits.graph, Typed(SliceOf(bits.id, [k \in 1 .. wide.width |-> (k - 1) \div width]), wide))
      taken == MaterializeVector(mask.graph, Branch(1), width)
      fall == MaterializeVector(taken.graph, Branch(0), width)
      inverted == With(fall.graph, Typed(Unary("BITWISE_NOT", mask.id), wide))
      onTaken == With(inverted.graph, Typed(BinaryOp("BITWISE_AND", mask.id, taken.id), wide))
      onFall == With(onTaken.graph, Typed(BinaryOp("BITWISE_AND", inverted.id, fall.id), wide))
      own == \A k \in DOMAIN lanes : IsBinaryMux(g.nodes[lanes[k]]) /\ Width(g, g.nodes[lanes[k]].ins[1]) = 1
  IN IF ~own \/ ~SameWidths(g, lanes) THEN {}
     ELSE {With(onFall.graph, Typed(BinaryOp("BITWISE_OR", onTaken.id, onFall.id), wide))}
BuildLaneGroup(g, lanes) ==
  LET op == Op(g, lanes[1])
  IN CASE op = "SLICE" -> BuildSliceMerge(g, lanes)
       [] op = "CONST" -> BuildConstPack(g, lanes)
       [] op = "MUX" -> IF BuildSharedSelectorMux(g, lanes) # {} THEN BuildSharedSelectorMux(g, lanes)
                        ELSE BuildMaskedMerge(g, lanes)
       [] OTHER -> BuildBitwiseMerge(g, lanes)

SameSegment(g, i, j) == Op(g, i) = Op(g, j) /\ (Op(g, i) = "SLICE" => Lhs(g, i) = Lhs(g, j))
\* maximal runs of alike lanes
Segments(g, lanes) ==
  FoldLeft(LAMBDA runs, i : IF runs # <<>> /\ SameSegment(g, i, runs[Len(runs)][1])
                            THEN [runs EXCEPT ![Len(runs)] = Append(@, i)] ELSE Append(runs, <<i>>),
           <<>>, lanes)
\* each run that merges becomes one lane, the others stay as they are
MergeSegments(g, lanes) ==
  FoldLeft(LAMBDA s, seg :
             LET built == IF Len(seg) >= 2 THEN BuildLaneGroup(s.graph, seg) ELSE {}
                 b == CHOOSE x \in built : TRUE
             IN IF built = {} THEN [s EXCEPT !.lanes = @ \o seg]
                ELSE [graph |-> b.graph, lanes |-> Append(s.lanes, b.id), merged |-> TRUE],
           [graph |-> g, lanes |-> <<>>, merged |-> FALSE], Segments(g, lanes))
TryVectorizeConcat(g, i) ==
  LET n == g.nodes[i]
      lanes == LanesOf(n)
      uniform == Op(g, lanes[1]) # "CONST" /\ \A k \in DOMAIN lanes : SameSegment(g, lanes[k], lanes[1])
      whole == BuildLaneGroup(g, lanes)
      parts == MergeSegments(g, lanes)
      rebuilt == With(parts.graph, Typed(ConcatOf(Reverse(parts.lanes)), n.type))
      Replaced(b) == Changed(RedirectConsumers(b.graph, i, b.id))
  IN IF Len(lanes) < 2 \/ ~HasType(n) \/ \E k \in DOMAIN lanes : ~HasType(g.nodes[lanes[k]]) THEN Kept(g)
     ELSE IF uniform THEN IF whole = {} THEN Kept(g) ELSE Replaced(CHOOSE b \in whole : TRUE)
     ELSE IF ~parts.merged THEN Kept(g)
     ELSE IF Len(parts.lanes) = 1 THEN Replaced([graph |-> parts.graph, id |-> parts.lanes[1]])
     ELSE Replaced(rebuilt)

\* a sweep over the CONCATs that something consumed when it began, then constant folding
ConsumedConcats(g) ==
  SelectSeq(AllIds(g), LAMBDA i : Op(g, i) = "CONCAT" /\ \E j \in DOMAIN g.nodes : i \in ToSet(g.nodes[j].ins))

RECURSIVE VectorizeDFG(_, _)
VectorizeDFG(g, extraRoots) ==
  LET swept == FoldLeft(LAMBDA s, i : LET t == TryVectorizeConcat(s.graph, i)
                                      IN [graph |-> t.graph, changed |-> s.changed \/ t.changed],
                        Kept(g), ConsumedConcats(g))
  IN IF swept.changed THEN VectorizeDFG(FoldConstants(swept.graph, extraRoots), extraRoots) ELSE swept.graph
=============================================================================
