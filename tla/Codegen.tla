------------------------------ MODULE Codegen ------------------------------
(***************************************************************************)
(* generateDpi of src/src/dpi_codegen/dpi_codegen.cpp on one graph: the    *)
(* evaluator is generated first, and only of a model that could be built   *)
(* is the wrapper written; then the model is evaluated.                    *)
(***************************************************************************)
EXTENDS GeneratedEvaluator, WrapperCones

GenerateModel == phase \in Generating /\ Generate /\ UNCHANGED searching
WriteWrapper == phase = "built" /\ ConeNext /\ UNCHANGED evaluator
Execute == search = "done" /\ Run /\ UNCHANGED searching

CodegenInit == Init /\ ConeInit
CodegenNext == GenerateModel \/ WriteWrapper \/ Execute

codegenVars == <<dfg, evaluator, searching>>
CodegenSpec == CodegenInit /\ [][CodegenNext]_codegenVars

-----------------------------------------------------------------------------
(* Properties.                                                             *)

\* The searches are over and nothing has been evaluated yet.
Written == phase = "built" /\ search = "done"

\* The searches find what lies below an output and nothing else: neither the
\* early ends of the searches nor their memos lose or invent a path.
ConesAreExact ==
    Written =>
        /\ combOutputs = {o \in dfg.outputs : Below(dfg, o) \cap dfg.data # {}}
        /\ conePorts = {dfg.port[x] : x \in {y \in dfg.data : \E o \in dfg.outputs : y \in Below(dfg, o)}}
        /\ drivesLogic = {s \in dfg.edges : \E t \in Sinks(dfg) : s \in Below(dfg, t)}

\* What the wrapper builds on (ConesAreSound of DpiWrapper): two sets of words
\* with the same registers give the same outputs and Ds when they differ in no
\* data input and in no clock or reset that drives logic; an output that is
\* not combinational when they differ in data inputs only; a combinational one
\* when these belong to ports outside the cones.
ConesJustifyTheWrapper ==
    Written =>
        LET Meanings == [v \in Given(dfg) |-> Meaning(dfg, v)]
            Same(v, w, S) == \A n \in S : v[n] = w[n]
            Registers == Inputs(dfg) \ (dfg.data \cup dfg.edges)
            ConeData == {x \in dfg.data : dfg.port[x] \in conePorts}
        IN \A v, w \in Given(dfg) : Same(v, w, Registers) =>
             /\ Same(v, w, drivesLogic \cup dfg.data)
                  => Same(Meanings[v], Meanings[w], dfg.outputs \cup dfg.flopD)
             /\ Same(v, w, dfg.edges)
                  => Same(Meanings[v], Meanings[w], dfg.outputs \ combOutputs)
             /\ Same(v, w, dfg.edges \cup ConeData)
                  => Same(Meanings[v], Meanings[w], combOutputs)
=============================================================================
