--------------------------- MODULE MCSyncDomains ---------------------------
(***************************************************************************)
(* Six nodes: 1 a top-level input of any class, 2 the q of the first flop, *)
(* 3 the q of the second, 4 a constant or logic, 5 and 6 logic that reads  *)
(* any one or two nodes, so that the order of the nodes is no topological  *)
(* order and loops through 4, 5 and 6 occur.  The flops are in two clock   *)
(* domains; the first samples 5, the second 6, or 6 with 4 in an array.    *)
(***************************************************************************)
EXTENDS SyncDomains

Reads == {<<x>> : x \in {1, 2, 4, 5, 6}}
         \cup {<<1, 2>>, <<1, 4>>, <<2, 3>>, <<2, 5>>, <<4, 6>>, <<6, 3>>}
Seeds == {Sync(1, {}), Async, Clock(1), Reset(1)}

MCGraphs ==
    {h \in [kind : {<<"input", "input", "input", k, "op", "op">> : k \in {"const", "op"}},
            in : {<<<<>>, <<>>, <<>>, a, b, c>> : a \in {<<>>, <<4>>, <<1, 6>>, <<2>>},
                                                  b \in Reads, c \in Reads},
            seed : {<<s, Sync(1, {1}), Sync(2, {})>> : s \in Seeds},
            flops : {<<[d |-> <<5>>, clock |-> 1, sync |-> y],
                       [d |-> e, clock |-> 2, sync |-> FALSE]>> : y \in BOOLEAN, e \in {<<6>>, <<6, 4>>}},
            infer : BOOLEAN] :
        h.kind[4] = "const" => h.in[4] = <<>>}
=============================================================================
