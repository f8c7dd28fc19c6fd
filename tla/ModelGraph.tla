----------------------------- MODULE ModelGraph -----------------------------
(***************************************************************************)
(* The flattened graph of a compiled top module as                         *)
(* src/src/dpi_codegen/dpi_codegen.cpp reads it, and what it means.        *)
(*                                                                         *)
(* A graph d has the nodes 1 .. d.size, in the order of DFG::nodes:        *)
(*   kind, type, in   op, [width, signed] and inputs of a node; of a MUX   *)
(*                    the selector, then the arms                          *)
(*   value, codes     the payload of a CONST, the arm codes of a MUX       *)
(*   data, edges      INPUT nodes that are input leaves of the top module: *)
(*                    data, and clocks or resets; any other INPUT node is  *)
(*                    the q of a register                                  *)
(*   port             the port of a data input leaf                        *)
(*   outputs, flopD   nodes that drive an output leaf, the D of a register *)
(*   internal         nodes with the storage slot of an observable         *)
(*   observables      whether the model is generated with observables      *)
(* A value is its words, the least significant first.                      *)
(***************************************************************************)
EXTENDS Integers, Sequences, FiniteSets

CONSTANTS
    Graphs,             \* the graphs considered
    WordBits,           \* bits of a machine word, 64 in the code
    Literal(_, _),      \* the value of a type made from an integer
    ResizedTo(_, _, _), \* a value of one type as a value of another
    Apply(_, _, _)      \* graph, node that is no MUX, values of its inputs: its value

VARIABLE dfg            \* the graph a model is generated from

Origins == {"INPUT", "CONST", "X"}
Types == [width : Nat \ {0}, signed : BOOLEAN]
WordCount(width) == (width + WordBits - 1) \div WordBits
TopBits(width) == width - WordBits * (WordCount(width) - 1)
Word == 0 .. 2 ^ WordBits - 1
\* the bits above the width are zero
Values(t) == {v \in [0 .. WordCount(t.width) - 1 -> Word] :
                v[WordCount(t.width) - 1] \in 0 .. 2 ^ TopBits(t.width) - 1}
Zero(t) == [i \in 0 .. WordCount(t.width) - 1 |-> 0]

Nodes(d) == 1 .. d.size
IsOrigin(d, n) == d.kind[n] \in Origins
IsMux(d, n) == d.kind[n] = "MUX"
Reads(d, n) == {d.in[n][k] : k \in DOMAIN d.in[n]}
Users(d, n) == {u \in Nodes(d) : n \in Reads(d, u)}
Selector(d, n) == d.in[n][1]
Arm(d, n, k) == d.in[n][k + 1]
Inputs(d) == {n \in Nodes(d) : d.kind[n] = "INPUT"}
\* functions that give each n in S a value of its type: as a set and as a test
Assignments(S, type) == {v \in [S -> UNION {Values(type[n]) : n \in S}] :
                           \A n \in S : v[n] \in Values(type[n])}
IsAssignment(v, S, type) ==
    /\ DOMAIN v = S /\ v = [n \in S |-> v[n]]
    /\ \A n \in S : v[n] \in Values(type[n])
Given(d) == Assignments(Inputs(d), d.type)
Operands(d, n) == Assignments(DOMAIN d.in[n], [k \in DOMAIN d.in[n] |-> d.type[d.in[n][k]]])

ASSUME WordAssumption == WordBits \in Nat \ {0}

\* Only an origin reads nothing (validateStrictLiveDFG), and the arms of a MUX
\* are told apart by every code of its selector, once (validate).  Outputs and
\* the D of a register have nodes of their own, with a driver.
ASSUME GraphsWellFormed ==
    \A d \in Graphs :
        /\ d.size \in Nat
        /\ d.kind \in [Nodes(d) -> STRING]
        /\ d.type \in [Nodes(d) -> Types]
        /\ d.in \in [Nodes(d) -> Seq(Nodes(d))]
        /\ d.codes \in [Nodes(d) -> Seq(Nat)]
        /\ d.value \in [Nodes(d) -> Int]
        /\ d.data \cup d.edges \subseteq Inputs(d) /\ d.data \cap d.edges = {}
        /\ DOMAIN d.port = d.data
        /\ d.outputs \cup d.flopD \cup d.internal \subseteq Nodes(d)
        /\ d.observables \in BOOLEAN
        /\ \A n \in d.outputs \cup d.flopD : ~IsOrigin(d, n)
        /\ \A n \in Nodes(d) : IsOrigin(d, n) <=> d.in[n] = <<>>
        /\ \A n \in Nodes(d) : IsMux(d, n) =>
             /\ Len(d.in[n]) = Len(d.codes[n]) + 1
             /\ d.type[Selector(d, n)].width < WordBits - 1
             /\ Len(d.codes[n]) = 2 ^ d.type[Selector(d, n)].width
             /\ {d.codes[n][k] : k \in DOMAIN d.codes[n]}
                  = 0 .. 2 ^ d.type[Selector(d, n)].width - 1
             /\ \A j, k \in DOMAIN d.codes[n] : d.codes[n][j] = d.codes[n][k] => j = k

\* Every operation ends in a resize to the type of its node.
ASSUME OperationsTyped ==
    \A d \in Graphs : \A n \in Nodes(d) :
        /\ d.kind[n] = "CONST" => Literal(d.value[n], d.type[n]) \in Values(d.type[n])
        /\ IsMux(d, n) => \A m \in Reads(d, n) : \A v \in Values(d.type[m]) :
                            ResizedTo(v, d.type[m], d.type[n]) \in Values(d.type[n])
        /\ ~IsOrigin(d, n) /\ ~IsMux(d, n) =>
             \A a \in Operands(d, n) : Apply(d, n, a) \in Values(d.type[n])

-----------------------------------------------------------------------------
(* What lies below a node, loops, and the meaning of a graph.              *)

ReadClosed(d, C) == \A n \in C : Reads(d, n) \subseteq C
Below(d, n) == {m \in Nodes(d) : \A C \in SUBSET Nodes(d) : n \in C /\ ReadClosed(d, C) => m \in C}

\* every node of some set reads another of the set
IsLoop(d, C) == C # {} /\ \A n \in C : \E m \in C : m \in Reads(d, n)
HasLoop(d) == \E C \in SUBSET Nodes(d) : IsLoop(d, C)

ArmFor(d, n, code) == CHOOSE k \in DOMAIN d.codes[n] : d.codes[n][k] = code

\* The value of n where `val' gives the values of what it reads: the reference
\* semantics.  They leave an X open; generated code makes it zero.
NodeMeaning(d, given, val, n) ==
    CASE d.kind[n] = "INPUT" -> given[n]
      [] d.kind[n] = "CONST" -> Literal(d.value[n], d.type[n])
      [] d.kind[n] = "X" -> Zero(d.type[n])
      [] IsMux(d, n) ->
           LET arm == Arm(d, n, ArmFor(d, n, val[Selector(d, n)][0]))
           IN ResizedTo(val[arm], d.type[arm], d.type[n])
      [] OTHER -> Apply(d, n, [k \in DOMAIN d.in[n] |-> val[d.in[n][k]]])

\* the values of all nodes of a graph without loops
Meaning(d, given) ==
    LET val[n \in Nodes(d)] == NodeMeaning(d, given, val, n) IN val
=============================================================================
