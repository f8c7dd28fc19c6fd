------------------------------- MODULE MateAbi -------------------------------
(***************************************************************************)
(* A harness driving one instance through the entry points of the native   *)
(* ABI (src/src/abi/abi_native.cpp, the contract of                        *)
(* src/src/abi/mate_model_abi.h), error returns included: every exception  *)
(* is caught by guard(), the caller gets MATE_STATUS_ERROR, and whatever   *)
(* was written before the throw stays written.                             *)
(***************************************************************************)
EXTENDS MateInstance

CONSTANTS
    Writable,          \* inputs the harness lists in its updates
    EvalThrows(_, _)   \* (inputs, q) on which the evaluator throws

ASSUME WritableInputs == Writable \subseteq Input
ASSUME EvalThrowsBoolean ==
    \A in \in InputWords, q \in FlopWords : EvalThrows(in, q) \in BOOLEAN

VARIABLES
    inst,        \* the instance
    live,        \* mate_instance_init has run
    call,        \* the last entry point called, with its domain and edge
    status,      \* what it returned
    unsettled    \* history: what happened since the last evaluation that
                 \* succeeded, a "commit" (or source write), a "torn" evaluation

vars == <<inst, live, call, status, unsettled>>

EdgeOps == {"commit_clock", "apply_clock", "commit_reset", "apply_reset"}

Calls == {<<op>> : op \in {"create", "init", "set_input", "set_inputs",
                           "record_inputs", "settle", "settle_if_dirty"} \cup EdgeOps}
         \cup {<<op, dom, e>> : op \in {"commit_clock", "apply_clock"},
                                dom \in Domain, e \in Level}
         \cup {<<op, r, e>> : op \in {"commit_reset", "apply_reset"},
                              r \in Reset, e \in Level}

\* The words of the instance stay within their leaves' width whatever is called
\* (copyWordsToStorage and flops_init mask them), failed calls included.
TypeOK ==
    /\ inst \in Instance
    /\ live \in BOOLEAN
    /\ call \in Calls
    /\ status \in {"ok", "error"}
    /\ unsettled \subseteq {"commit", "torn"}

Init ==
    /\ inst = Allocated
    /\ live = FALSE
    /\ call = <<"create">>
    /\ status = "ok"
    /\ unsettled = {}

-----------------------------------------------------------------------------
\* A list of updates, up to the entry that makes the call throw.
Updates == UNION {[S -> Value] : S \in SUBSET Writable}
Faults == {"none", "entry", "list"}   \* "list": a negative count

Counted(upd, fault) == upd # NoUpdates \/ fault = "entry"

\* An evaluation that throws half-way: each leaf old or new, the flag cleared.
TornEvaluations(i) ==
    [in : {i.in}, q : {i.q}, dirty : {FALSE},
     d : {d \in FlopWords : \A f \in Flop : d[f] \in {i.d[f], NextD(i.in, i.q)[f]}},
     out : {o \in OutputWords : \A p \in Output : o[p] \in {i.out[p], OutputOf(i.in, i.q)[p]}}]

\* The call returns what evaluating instance i makes of it.
ReturnEvaluated(i) ==
    IF EvalThrows(i.in, i.q)
    THEN /\ inst' \in TornEvaluations(i)
         /\ status' = "error"
         /\ unsettled' = unsettled \cup {"torn"}
    ELSE /\ inst' = Evaluate(i)
         /\ status' = "ok"
         /\ unsettled' = {}

\* The call returns without having evaluated.
Return(i, st, un) == inst' = i /\ status' = st /\ unsettled' = un

-----------------------------------------------------------------------------
InstanceInitCall(mode, use, upd, fault) ==
    /\ call' = <<"init">>
    /\ \E q0 \in InitialQ(mode, use) :
        IF fault # "none"
        THEN Return(RecordInputs([inst EXCEPT !.q = q0], upd), "error", {"commit"})
        ELSE ReturnEvaluated(PowerUp(inst, q0, upd))
    /\ live' = (status' = "ok")

\* An invalid handle or malformed words are refused before anything is written.
SetInputCall(k, v) ==
    /\ live /\ UNCHANGED live
    /\ call' = <<"set_input">>
    /\ \/ ReturnEvaluated([inst EXCEPT !.in[k] = v])
       \/ Return(inst, "error", unsettled)

SetInputsCall(upd, fault) ==
    /\ live /\ UNCHANGED live
    /\ call' = <<"set_inputs">>
    /\ LET i == RecordInputs(inst, upd)
       IN  IF fault # "none" THEN Return(i, "error", unsettled)
                             ELSE ReturnEvaluated(i)

RecordInputsCall(upd, fault) ==
    /\ live /\ UNCHANGED live
    /\ call' = <<"record_inputs">>
    /\ Return(RecordInputs(inst, upd),
              IF fault = "none" THEN "ok" ELSE "error", unsettled)

SettleCall ==
    /\ live /\ UNCHANGED live
    /\ call' = <<"settle">>
    /\ ReturnEvaluated(inst)

SettleIfDirtyCall ==
    /\ live /\ UNCHANGED live
    /\ call' = <<"settle_if_dirty">>
    /\ IF inst.dirty THEN ReturnEvaluated(inst)
                     ELSE Return(inst, "ok", unsettled)

\* commitClockEdge refuses a list on an inactive edge before writing anything,
\* and a faulty list after writing the source.
Refused(dom, edge, upd, fault) == edge # dom[2] /\ Counted(upd, fault)

CommitClockCall(dom, edge, upd, fault) ==
    /\ live /\ UNCHANGED live
    /\ call' = <<"commit_clock", dom, edge>>
    /\ IF Refused(dom, edge, upd, fault) THEN Return(inst, "error", unsettled)
       ELSE IF fault # "none"
            THEN Return(ArriveAtEdge(inst, dom, edge, upd), "error", unsettled \cup {"commit"})
            ELSE Return(CommitClock(inst, dom, edge, upd), "ok", unsettled \cup {"commit"})

\* Mutant: evaluates before the commit only when the flag asks for it.
ApplyClockCallLazy(dom, edge, upd, fault) ==
    /\ live /\ UNCHANGED live
    /\ call' = <<"apply_clock", dom, edge>>
    /\ LET arrived == ArriveAtEdge(inst, dom, edge, upd) IN
       IF Refused(dom, edge, upd, fault) THEN Return(inst, "error", unsettled)
       ELSE IF fault # "none" THEN Return(arrived, "error", unsettled \cup {"commit"})
       ELSE IF edge # dom[2] THEN ReturnEvaluated(arrived)
       ELSE ReturnEvaluated(ClockCommit(SettleIfDirty(arrived), dom))

ApplyClockCall(dom, edge, upd, fault) ==
    /\ live /\ UNCHANGED live
    /\ call' = <<"apply_clock", dom, edge>>
    /\ LET arrived == ArriveAtEdge(inst, dom, edge, upd) IN
       IF Refused(dom, edge, upd, fault) THEN Return(inst, "error", unsettled)
       ELSE IF fault # "none" THEN Return(arrived, "error", unsettled \cup {"commit"})
       ELSE IF edge # dom[2] THEN ReturnEvaluated(arrived)
       ELSE IF EvalThrows(arrived.in, arrived.q) THEN ReturnEvaluated(arrived)
       ELSE ReturnEvaluated(ClockCommit(Evaluate(arrived), dom))

CommitResetCall(r, edge) ==
    /\ live /\ UNCHANGED live
    /\ call' = <<"commit_reset", r, edge>>
    /\ Return(CommitReset(inst, r, edge), "ok", unsettled \cup {"commit"})

ApplyResetCall(r, edge) ==
    /\ live /\ UNCHANGED live
    /\ call' = <<"apply_reset", r, edge>>
    /\ ReturnEvaluated(CommitReset(inst, r, edge))

\* checkedClock and checkedReset refuse a handle that is out of range, before
\* anything is written.
InvalidHandleCall(op) ==
    /\ live /\ UNCHANGED live
    /\ call' = <<op>>
    /\ Return(inst, "error", unsettled)

ListCall ==
    \E upd \in Updates, fault \in Faults :
        /\ fault = "list" => upd = NoUpdates
        /\ \/ \E mode \in {"zero", "one", "random"}, use \in BOOLEAN :
                InstanceInitCall(mode, use, upd, fault)
           \/ SetInputsCall(upd, fault)
           \/ RecordInputsCall(upd, fault)
           \/ \E dom \in Domain, edge \in Level :
                \/ CommitClockCall(dom, edge, upd, fault)
                \/ ApplyClockCall(dom, edge, upd, fault)

Next ==
    \/ ListCall
    \/ \E k \in Writable, v \in Value : SetInputCall(k, v)
    \/ SettleCall
    \/ SettleIfDirtyCall
    \/ \E r \in Reset, edge \in Level :
         CommitResetCall(r, edge) \/ ApplyResetCall(r, edge)
    \/ \E op \in EdgeOps : InvalidHandleCall(op)

Spec == Init /\ [][Next]_vars

-----------------------------------------------------------------------------
\* The settled-instance invariant inputs_dirty guards (abi_native.cpp, struct
\* MateInstance): unless a commit is still to be settled, a clear flag means
\* that D and the outputs are those of the stored inputs and flops, also after
\* calls that stored some of their updates and then failed.
SettledInstance == live /\ unsettled = {} /\ ~inst.dirty => Settled(inst)

\* Reset priority (applyClockDomain's guard, commitResetEdge, the reset at
\* power-up of mate_instance_init): a flop one of whose resets reads active
\* holds its reset value, whatever was called since, failed calls included,
\* as long as the harness moves resets with mate_commit_reset and
\* mate_apply_reset only.
ResetHolds ==
    live => \A f \in Flop : HeldInReset(inst.in, f) => inst.q[f] = ResetValue[f]

\* mate_apply_clock is "the self-contained form for callers that drive inputs
\* as part of the edge call and need those inputs sampled by this edge"
\* (mate_model_abi.h): when it succeeds on the active edge, every flop of the
\* domain that is not in reset takes the D of the inputs just passed and of the
\* flops as they were; the flops of the other domains, those of the other edge
\* of the same clock among them, and the flops in reset keep their value.
ApplyClockSamplesItsInputs ==
    [][\A dom \in Domain :
        call' = <<"apply_clock", dom, dom[2]>> /\ status' = "ok" =>
            \A f \in Flop :
                inst'.q[f] = IF FlopDomain[f] = dom /\ ~HeldInReset(inst'.in, f)
                             THEN NextD(inst'.in, inst.q)[f]
                             ELSE inst.q[f]]_vars
=============================================================================
