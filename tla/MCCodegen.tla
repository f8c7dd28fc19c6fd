----------------------------- MODULE MCCodegen -----------------------------
(***************************************************************************)
(* Codegen on small graphs, with the operations of module Dfg on words of  *)
(* WordBits bits.                                                          *)
(***************************************************************************)
EXTENDS Codegen

Ref == INSTANCE Dfg WITH IntBits <- WordBits

ValueOf(t, v) == Ref!Value(t.width, t.signed, v)
FromI64Words(x, t) == Ref!FromI64(x, t.width, t.signed).words
ResizedWords(v, from, to) == Ref!Resized(ValueOf(from, v), to.width, to.signed).words
\* the operations the graphs below have
Operation(d, n, v) ==
    CASE d.kind[n] \in {"SIGNAL", "OUTPUT"} -> v[1]
      [] d.kind[n] = "BITWISE_NOT" -> Ref!Inverted(v[1])
      [] d.kind[n] = "REDUCTION_XOR" -> Ref!FromBool(Ref!BvOddOnes(v[1]))
      [] d.kind[n] = "SLICE" -> Ref!GatherBits(v[1], d.codes[n])
      [] d.kind[n] = "CONCAT" -> Ref!Concat(v)
ApplyWords(d, n, a) ==
    LET v == [k \in DOMAIN a |-> ValueOf(d.type[d.in[n][k]], a[k])]
    IN Ref!Resized(Operation(d, n, v), d.type[n].width, d.type[n].signed).words

Unsigned(width) == [width |-> width, signed |-> FALSE]
Signed(width) == [width |-> width, signed |-> TRUE]
Node(kind, type, in) == [kind |-> kind, type |-> type, in |-> in, codes |-> <<>>, value |-> 0]
In(type) == Node("INPUT", type, <<>>)
Const(type, value) == [Node("CONST", type, <<>>) EXCEPT !.value = value]
Coded(kind, type, in, codes) == [Node(kind, type, in) EXCEPT !.codes = codes]
Design(ns, data, edges, port, outputs, flopD, internal) ==
    [size |-> Len(ns),
     kind |-> [n \in DOMAIN ns |-> ns[n].kind], type |-> [n \in DOMAIN ns |-> ns[n].type],
     in |-> [n \in DOMAIN ns |-> ns[n].in], codes |-> [n \in DOMAIN ns |-> ns[n].codes],
     value |-> [n \in DOMAIN ns |-> ns[n].value],
     data |-> data, edges |-> edges, port |-> port,
     outputs |-> outputs, flopD |-> flopD, internal |-> internal, observables |-> TRUE]
Quiet(d) == [d EXCEPT !.observables = FALSE]

\* Values of two words that several statements read, and a clock that is the D
\* of a register.
Wide == Design(
    <<Node("OUTPUT", Unsigned(6), <<5>>), In(Unsigned(2)), In(Unsigned(1)), In(Signed(2)),
      Node("BITWISE_NOT", Unsigned(6), <<6>>), Node("CONCAT", Unsigned(6), <<2, 4, 2>>),
      Coded("SLICE", Unsigned(2), <<6>>, <<3, 2>>), Node("OUTPUT", Signed(2), <<7>>),
      Node("OUTPUT", Unsigned(1), <<3>>), Node("REDUCTION_XOR", Unsigned(1), <<5>>),
      Node("OUTPUT", Unsigned(1), <<10>>)>>,
    {2}, {3}, [n \in {2} |-> "a"], {1, 11}, {8, 9}, {2, 6})

\* Arms that share a value, one of them an X, in no order of their codes; the
\* selector depends on both data inputs, one of which is part of a port.
Shared == Design(
    <<In(Unsigned(1)), In(Unsigned(1)), Const(Unsigned(2), 1), Node("X", Unsigned(2), <<>>),
      Node("CONCAT", Unsigned(2), <<1, 2>>), Const(Unsigned(2), 1),
      Coded("MUX", Signed(3), <<5, 3, 4, 8, 6>>, <<2, 0, 3, 1>>), In(Signed(2)),
      Node("OUTPUT", Signed(3), <<7>>), Node("CONCAT", Unsigned(5), <<7, 8>>),
      Node("OUTPUT", Unsigned(5), <<10>>), In(Unsigned(1))>>,
    {1, 2, 12}, {}, [n \in {1, 2, 12} |-> IF n = 12 THEN "y" ELSE "x"], {9}, {11}, {3, 4, 7, 10})

\* An input of a child that the parent connects to its register.
ChildOfRegister == Design(
    <<In(Unsigned(1)), In(Unsigned(2)), Node("BITWISE_NOT", Unsigned(2), <<2>>),
      Node("OUTPUT", Unsigned(2), <<3>>), Node("OUTPUT", Unsigned(2), <<2>>)>>,
    {}, {1}, [n \in {} |-> ""], {5}, {4}, {2})

\* The compile pipeline rejects it first (validateNoCombLoops).
Looped == Design(
    <<In(Unsigned(1)), Node("SIGNAL", Unsigned(1), <<4>>), Node("CONCAT", Unsigned(2), <<1, 2>>),
      Node("SIGNAL", Unsigned(1), <<3>>), Node("OUTPUT", Unsigned(1), <<3>>)>>,
    {1}, {}, [n \in {1} |-> "a"], {5}, {}, {})

Empty == Design(<<>>, {}, {}, [n \in {} |-> ""], {}, {}, {})

AllGraphs == {Wide, Shared, ChildOfRegister, Quiet(ChildOfRegister), Looped, Empty}
=============================================================================
