-------------------------- MODULE MCGlobalDomains --------------------------
(***************************************************************************)
(* Hierarchies of a top and two occurrences, siblings or nested.  Signals  *)
(* 1 and 2 are input ports in every occurrence, so that names shadow each  *)
(* other; 4 is an alias in each, through 5 in the first submodule; 6 is    *)
(* aliased to itself, 7 is the output of logic.  Ports of submodules are   *)
(* connected in every way, straight, swapped, through aliases and logic.   *)
(***************************************************************************)
EXTENDS GlobalDomains, TLC

Flop1(c, e, r) == [name |-> 1, clock |-> c, edge |-> e, reset |-> r, level |-> 1]
Flop2(c, e, r) == [name |-> 2, clock |-> c, edge |-> e, reset |-> r, level |-> 1]

Declared(p, e) == [port |-> p, edge |-> e]
TwoClocks == [infer |-> FALSE, clock |-> [n \in {1, 2} |-> Declared(n, 0)], reset |-> Empty]
BothEdges == [infer |-> FALSE, clock |-> [n \in {1, 2} |-> Declared(1, n - 1)],
              reset |-> [n \in {1} |-> Declared(2, 1)]]
OneEdge == [infer |-> FALSE, clock |-> [n \in {1} |-> Declared(1, 0)],
            reset |-> [n \in {1} |-> Declared(2, 1)]]
Inferred == [infer |-> TRUE, clock |-> Empty, reset |-> Empty]

Connections == [{1, 2} -> {1, 2, 4}] \cup {<<0, 2>>, <<6, 2>>, <<1, 7>>}

Flops2 == {{}, {Flop1(1, 0, 2)}, {Flop1(2, 0, 0)}, {Flop1(4, 0, 0)}}
Flops3 == {{Flop1(1, 0, 0), Flop2(1, 1, 2)}, {Flop1(1, 0, 0), Flop2(2, 0, 0)},
           {Flop1(2, 0, 0)}, {Flop1(1, 1, 2)}, {[Flop1(1, 0, 2) EXCEPT !.level = 0]}}

MCDesigns ==
    [parent : {<<0, 1, 1>>, <<0, 1, 2>>},
     inputs : {<<{1, 2}, {1, 2}, {1, 2}>>},
     alias : {<<4 :> 2 @@ 6 :> 6, 4 :> 5 @@ 5 :> 1, 4 :> 2>>},
     conn : {<<<<0, 0>>, a, b>> : a \in Connections, b \in Connections},
     flops : {<<{Flop1(1, 0, 0)}, f, g>> : f \in Flops2, g \in Flops3},
     yaml : {TwoClocks, BothEdges, OneEdge, Inferred}]
=============================================================================
