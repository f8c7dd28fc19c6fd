---------------------------- MODULE WrapperCones ----------------------------
(***************************************************************************)
(* The searches in src/src/dpi_codegen/dpi_codegen.cpp that decide what    *)
(* the SystemVerilog wrapper need not refresh: which outputs depend on     *)
(* data inputs, which input ports reach an output                          *)
(* (analyzeWrapperCombDependence), and which clocks and resets drive logic *)
(* (sourceSignalDrivesLogic).                                              *)
(*                                                                         *)
(* The two first searches are recursive and share a memo that an entry     *)
(* enters as `false' before its inputs, or users, are asked; the third is  *)
(* a worklist per clock or reset.  Roots, inputs and users are taken in    *)
(* any order: the code goes by addresses and by the order of lists.        *)
(***************************************************************************)
EXTENDS ModelGraph

VARIABLES
    search,     \* "outputs", "inputs", "edges", "done"
    todo,       \* roots of this search not answered yet
    calls,      \* the recursion: a node, the neighbours left to ask, the answer so far
    asked,      \* nodes with an entry in the memo
    reaching,   \* those whose entry is true
    source,     \* the clock or reset being followed, NoSource when none
    work, seen, \* its worklist and the nodes it has taken
    combOutputs,    \* comb_output_leaf_names
    conePorts,      \* cone_input_port_names
    drivesLogic     \* the clocks and resets found to drive logic

recursion == <<calls, asked, reaching>>
worklist == <<source, work, seen>>
answers == <<combOutputs, conePorts, drivesLogic>>
searching == <<search, todo, recursion, worklist, answers>>
coneVars == <<dfg, searching>>

NoSource == 0
Searches == {"outputs", "inputs", "edges", "done"}
\* Mutant: the D of a register does not count as logic
SinksOutputs(d) == d.outputs
Sinks(d) == d.outputs \cup d.flopD

\* reachesDataInput asks the inputs of a node, reachesOutput its users.
Goals == IF search = "outputs" THEN dfg.data ELSE dfg.outputs
Neighbours(n) == IF search = "outputs" THEN Reads(dfg, n) ELSE Users(dfg, n)
Call(n) == [node |-> n, left |-> Neighbours(n), reaches |-> n \in Goals]
Last == calls[Len(calls)]

Ask(n) ==
    /\ calls = <<>> /\ todo \cap asked = {}
    /\ asked' = asked \cup {n}
    /\ calls' = <<Call(n)>>
    /\ UNCHANGED <<dfg, search, todo, reaching, worklist, answers>>

\* A call made while the answer is still false; the memo may have it.
AskNeighbour(n) ==
    /\ ~Last.reaches
    /\ asked' = asked \cup {n}
    /\ LET asking == [calls EXCEPT ![Len(calls)].left = @ \ {n}]
       IN calls' = IF n \in asked
                   THEN [asking EXCEPT ![Len(calls)].reaches = n \in reaching]
                   ELSE Append(asking, Call(n))
    /\ UNCHANGED <<dfg, search, todo, reaching, worklist, answers>>

\* Mutant: a true answer reaches the caller and not the memo
AnswerUnrecorded ==
    /\ calls # <<>> /\ (Last.reaches \/ Last.left = {})
    /\ reaching' = IF Last.reaches /\ Len(calls) = 1 THEN reaching \cup {Last.node} ELSE reaching
    /\ LET callers == SubSeq(calls, 1, Len(calls) - 1)
       IN calls' = IF callers = <<>> THEN callers
                   ELSE [callers EXCEPT ![Len(callers)].reaches = @ \/ Last.reaches]
    /\ UNCHANGED <<dfg, search, todo, asked, worklist, answers>>

Answer ==
    /\ calls # <<>> /\ (Last.reaches \/ Last.left = {})
    /\ reaching' = IF Last.reaches THEN reaching \cup {Last.node} ELSE reaching
    /\ LET callers == SubSeq(calls, 1, Len(calls) - 1)
       IN calls' = IF callers = <<>> THEN callers
                   ELSE [callers EXCEPT ![Len(callers)].reaches = @ \/ Last.reaches]
    /\ UNCHANGED <<dfg, search, todo, asked, worklist, answers>>

Note(n) ==
    /\ search \in {"outputs", "inputs"} /\ calls = <<>> /\ n \in asked
    /\ todo' = todo \ {n}
    /\ combOutputs' = IF search = "outputs" /\ n \in reaching THEN combOutputs \cup {n} ELSE combOutputs
    /\ conePorts' = IF search = "inputs" /\ n \in reaching THEN conePorts \cup {dfg.port[n]} ELSE conePorts
    /\ UNCHANGED <<dfg, search, recursion, worklist, drivesLogic>>

NextSearch ==
    /\ search # "done" /\ todo = {} /\ source = NoSource
    /\ search' = CASE search = "outputs" -> "inputs" [] search = "inputs" -> "edges" [] search = "edges" -> "done"
    /\ todo' = CASE search = "outputs" -> dfg.data [] search = "inputs" -> dfg.edges [] search = "edges" -> {}
    /\ asked' = {} /\ reaching' = {}
    /\ UNCHANGED <<dfg, calls, worklist, answers>>

Follow(s) ==
    /\ search = "edges" /\ source = NoSource
    /\ source' = s /\ work' = {s} /\ seen' = {}
    /\ todo' = todo \ {s}
    /\ UNCHANGED <<dfg, search, recursion, answers>>

\* A node taken from the worklist ends the search when it is an output or the
\* D of a register; a node already seen is passed over.
Take(n) ==
    /\ seen' = seen \cup {n}
    /\ IF n \notin seen /\ n # source /\ n \in Sinks(dfg)
       THEN /\ drivesLogic' = drivesLogic \cup {source}
            /\ source' = NoSource /\ work' = {}
       ELSE /\ work' = (work \ {n}) \cup (IF n \in seen THEN {} ELSE Users(dfg, n))
            /\ UNCHANGED <<source, drivesLogic>>
    /\ UNCHANGED <<dfg, search, todo, recursion, combOutputs, conePorts>>

GiveUp ==
    /\ source # NoSource /\ work = {}
    /\ source' = NoSource
    /\ UNCHANGED <<dfg, search, todo, recursion, work, seen, answers>>

ConeInit ==
    /\ search = "outputs" /\ todo = dfg.outputs
    /\ calls = <<>> /\ asked = {} /\ reaching = {}
    /\ source = NoSource /\ work = {} /\ seen = {}
    /\ combOutputs = {} /\ conePorts = {} /\ drivesLogic = {}

ConeNext ==
    \/ search \in {"outputs", "inputs"} /\ \E n \in todo : Ask(n)
    \/ calls # <<>> /\ \E n \in Last.left : AskNeighbour(n)
    \/ Answer
    \/ \E n \in todo : Note(n)
    \/ NextSearch
    \/ \E s \in todo : Follow(s)
    \/ \E n \in work : Take(n)
    \/ GiveUp
=============================================================================
