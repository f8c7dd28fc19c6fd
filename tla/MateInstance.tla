---------------------------- MODULE MateInstance ----------------------------
(***************************************************************************)
(* The state of one simulation instance of a compiled Mate IR model and    *)
(* what each state-changing entry point of the native runtime ABI          *)
(* (src/src/abi/abi_native.cpp) and each generated commit function         *)
(* (makeNativeFlopCommitCpp in src/src/dpi_codegen/dpi_codegen.cpp) does   *)
(* to it, as operators from an instance to an instance.                    *)
(*                                                                         *)
(* A port or flop has one leaf, and a leaf holds a member of Value.  An    *)
(* edge is named by the level the signal takes: POSEDGE is 1, NEGEDGE 0.   *)
(* The compiled design is a parameter: NextD and OutputOf stand for the    *)
(* generated combinational evaluator.                                      *)
(***************************************************************************)
EXTENDS Integers

CONSTANTS
    Clock, Reset, Data,   \* input leaves, by role; Data is MATE_INPUT_SYNC and _ASYNC
    Output,               \* output leaves
    Flop,                 \* flops of the flattened design
    Value, Ones,          \* leaf values, and the one with every bit set
    Domain,               \* clock domains: <<source clock, active edge>>
    ActiveLevel,          \* reset -> level that holds its flops in reset
    FlopDomain,           \* flop -> clock domain
    FlopResets,           \* flop -> set of reset domains
    ResetValue,           \* flop -> value under reset
    Initializer,          \* flop -> its declaration initializers: none or one
    NextD(_, _),          \* (inputs, q) -> every flop's D
    OutputOf(_, _)        \* (inputs, q) -> every output

Level == {0, 1}
Input == Clock \cup Reset \cup Data

InputWords == [Input -> Value]
FlopWords == [Flop -> Value]
OutputWords == [Output -> Value]

ASSUME InputRolesDisjoint ==
    /\ Clock \cap Reset = {}
    /\ Clock \cap Data = {}
    /\ Reset \cap Data = {}

ASSUME ValuesHoldLevels == Level \subseteq Value /\ Ones \in Value

\* A clock input may own a posedge domain, a negedge domain or both, never
\* none (runtimeClockForPortEdge throws).
ASSUME DomainsOfClocks ==
    /\ Domain \subseteq Clock \X Level
    /\ \A c \in Clock : \E e \in Level : <<c, e>> \in Domain

ASSUME FlopsAreBound ==
    /\ ActiveLevel \in [Reset -> Level]
    /\ FlopDomain \in [Flop -> Domain]
    /\ FlopResets \in [Flop -> SUBSET Reset]
    /\ ResetValue \in FlopWords
    /\ Initializer \in [Flop -> SUBSET Value]

ASSUME EvaluatorTyped ==
    \A in \in InputWords, q \in FlopWords :
        /\ NextD(in, q) \in FlopWords
        /\ OutputOf(in, q) \in OutputWords

-----------------------------------------------------------------------------
\* The words of an instance.  `d' and `q' are the FlopD and FlopQ observables.
Instance == [in : InputWords, d : FlopWords, q : FlopWords,
             out : OutputWords, dirty : BOOLEAN]

\* mate_instance_create: every word zero.
Allocated == [in |-> [i \in Input |-> 0], d |-> [f \in Flop |-> 0],
              q |-> [f \in Flop |-> 0], out |-> [o \in Output |-> 0],
              dirty |-> FALSE]

\* evaluateAndPublish, when the generated evaluator returns.
Evaluate(i) == [i EXCEPT !.d = NextD(i.in, i.q),
                         !.out = OutputOf(i.in, i.q),
                         !.dirty = FALSE]

\* D and the outputs are those of the stored inputs and flops.
Settled(i) == i.d = NextD(i.in, i.q) /\ i.out = OutputOf(i.in, i.q)

Overwrite(words, upd) ==
    [k \in DOMAIN words |-> IF k \in DOMAIN upd THEN upd[k] ELSE words[k]]

\* Mutant: the flag holds the last list's answer.
RecordInputsForgetful(i, upd) ==
    [i EXCEPT !.in = Overwrite(@, upd),
              !.dirty = \E k \in DOMAIN upd : upd[k] # i.in[k]]

\* The input writes of a list of updates, `upd' mapping the inputs listed to
\* their values: the flag is raised only by a write that changes a word.
RecordInputs(i, upd) ==
    [i EXCEPT !.in = Overwrite(@, upd),
              !.dirty = @ \/ \E k \in DOMAIN upd : upd[k] # i.in[k]]

SetInputs(i, upd) == Evaluate(RecordInputs(i, upd))

Settle(i) == Evaluate(i)
SettleIfDirty(i) == IF i.dirty THEN Evaluate(i) ELSE i

-----------------------------------------------------------------------------
ResetActive(in, r) == in[r] = ActiveLevel[r]
HeldInReset(in, f) == \E r \in FlopResets[f] : ResetActive(in, r)

\* Mutant: no reset guard.
ClockCommitUnguarded(i, dom) ==
    [i EXCEPT !.q = [f \in Flop |-> IF FlopDomain[f] = dom THEN i.d[f] ELSE i.q[f]]]

\* Mutant: commits the flops of both edges of the source clock.
ClockCommitBothEdges(i, dom) ==
    [i EXCEPT !.q = [f \in Flop |->
        IF FlopDomain[f][1] = dom[1] /\ ~HeldInReset(i.in, f) THEN i.d[f] ELSE i.q[f]]]

\* The generated commit function of a clock domain.
ClockCommit(i, dom) ==
    [i EXCEPT !.q = [f \in Flop |->
        IF FlopDomain[f] = dom /\ ~HeldInReset(i.in, f) THEN i.d[f] ELSE i.q[f]]]

\* The generated reset function of a reset domain.
ResetApply(i, r) ==
    [i EXCEPT !.q = [f \in Flop |->
        IF r \in FlopResets[f] THEN ResetValue[f] ELSE i.q[f]]]

\* setStorageFromEdge: a source word is written without touching the flag.
WriteSource(i, s, edge) == [i EXCEPT !.in[s] = edge]

\* Without the domain's own source, which commitClockEdge ignores in a list.
ButSource(upd, dom) == [k \in DOMAIN upd \ {dom[1]} |-> upd[k]]

NoUpdates == [k \in {} |-> 0]

\* What commitClockEdge has done before it commits.
ArriveAtEdge(i, dom, edge, upd) ==
    RecordInputs(WriteSource(i, dom[1], edge), ButSource(upd, dom))

CommitClock(i, dom, edge, upd) ==
    LET arrived == ArriveAtEdge(i, dom, edge, upd)
    IN  IF edge = dom[2] THEN ClockCommit(arrived, dom) ELSE arrived

\* Mutant: evaluates as mate_apply_reset does.
CommitResetSettling(i, r, edge) ==
    LET arrived == WriteSource(i, r, edge)
    IN  Evaluate(IF edge = ActiveLevel[r] THEN ResetApply(arrived, r) ELSE arrived)

CommitReset(i, r, edge) ==
    LET arrived == WriteSource(i, r, edge)
    IN  IF edge = ActiveLevel[r] THEN ResetApply(arrived, r) ELSE arrived

\* runtimeClockForPortEdge: an edge is sent to its own domain, or to the port's
\* only one.
DomainForEdge(c, edge) == IF <<c, edge>> \in Domain THEN <<c, edge>> ELSE <<c, 1 - edge>>

-----------------------------------------------------------------------------
\* flops_init: an initializer wins over the mode when it is asked for.
InitialQ(mode, useInitializers) ==
    LET fill == CASE mode = "zero" -> {0}
                  [] mode = "one" -> {Ones}
                  [] mode = "random" -> Value
    IN  {q \in FlopWords : \A f \in Flop :
            IF useInitializers /\ Initializer[f] # {}
            THEN q[f] \in Initializer[f]
            ELSE q[f] \in fill}

\* Mutant: no reset at power-up.
PowerUpUnreset(i, q0, upd) == RecordInputs([i EXCEPT !.q = q0], upd)

\* What mate_instance_init has done before it evaluates, `upd' being both of
\* its update lists.
PowerUp(i, q0, upd) ==
    LET driven == RecordInputs([i EXCEPT !.q = q0], upd)
    IN  [driven EXCEPT !.q = [f \in Flop |->
            IF HeldInReset(driven.in, f) THEN ResetValue[f] ELSE q0[f]]]

InstanceInit(i, q0, upd) == Evaluate(PowerUp(i, q0, upd))
=============================================================================
