---------------------------- MODULE MateAbiProofs ----------------------------
(***************************************************************************)
(* What every sequence of ABI calls keeps, for every design, every list of *)
(* updates, calls that fail and evaluations that throw included.           *)
(***************************************************************************)
EXTENDS MateAbi, MateInstanceLemmas

\* The harness does not list resets in its updates: it moves them with
\* mate_commit_reset and mate_apply_reset.
ResetsByEdge == Writable \cap Reset = {}

\* The invariant; it is inductive as it stands.
IInv == TypeOK /\ SettledInstance /\ ResetHolds

-----------------------------------------------------------------------------
(* The operators, on lists that leave some inputs out.                     *)

\* A list maps the inputs it names to values.
LEMMA UpdatesAreInputs ==
    ASSUME NEW upd \in Updates
    PROVE  \E S \in SUBSET Input : S \subseteq Writable /\ upd \in [S -> Value]
BY WritableInputs DEF Updates

\* Writing a source and the inputs of a list moves nothing but input words
\* (commitClockEdge, before it evaluates or commits).
LEMMA ArriveResult ==
    ASSUME NEW i \in Instance, NEW dom \in Domain, NEW edge \in Level,
           NEW S \in SUBSET Input, NEW upd \in [S -> Value]
    PROVE  LET j == ArriveAtEdge(i, dom, edge, upd)
           IN  /\ j \in Instance
               /\ j.d = i.d /\ j.q = i.q /\ j.out = i.out
               /\ \A k \in Input \ (S \cup {dom[1]}) : j.in[k] = i.in[k]
<1> DEFINE w == WriteSource(i, dom[1], edge)
           T == S \ {dom[1]}
           b == ButSource(upd, dom)
<1>1. dom[1] \in Input /\ dom[1] \in Clock /\ edge \in Value
  BY DomainsOfClocks, ValuesHoldLevels DEF Input
<1>2. /\ w \in Instance /\ w.d = i.d /\ w.q = i.q /\ w.out = i.out
      /\ \A k \in Input \ {dom[1]} : w.in[k] = i.in[k]
  BY <1>1 DEF WriteSource, Instance, InputWords
<1>3. b \in [T -> Value]
  BY DEF ButSource
<1>4. T \in SUBSET Input
  OBVIOUS
<1>5. ArriveAtEdge(i, dom, edge, upd) = RecordInputs(w, b)
  BY DEF ArriveAtEdge
<1> HIDE DEF w, b, T
<1>6. /\ RecordInputs(w, b) \in Instance
      /\ RecordInputs(w, b).d = w.d /\ RecordInputs(w, b).q = w.q /\ RecordInputs(w, b).out = w.out
      /\ \A k \in Input : RecordInputs(w, b).in[k] = IF k \in T THEN b[k] ELSE w.in[k]
  BY <1>2, <1>3, <1>4, RecordInputsResult
<1> QED
  BY <1>2, <1>5, <1>6 DEF T

\* The generated commit moves D to the Q of the domain's flops not in reset.
LEMMA ClockCommitResult ==
    ASSUME NEW i \in Instance, NEW dom
    PROVE  LET j == ClockCommit(i, dom)
           IN  /\ j \in Instance
               /\ j.in = i.in /\ j.d = i.d /\ j.out = i.out /\ j.dirty = i.dirty
               /\ j.q = [f \in Flop |-> IF FlopDomain[f] = dom /\ ~HeldInReset(i.in, f)
                                        THEN i.d[f] ELSE i.q[f]]
BY DEF ClockCommit, Instance, FlopWords

\* Levels of resets that stay keep the flops they hold.
LEMMA HoldsOn ==
    ASSUME NEW i \in Instance, NEW j \in Instance,
           \A r \in Reset : j.in[r] = i.in[r], j.q = i.q,
           \A f \in Flop : HeldInReset(i.in, f) => i.q[f] = ResetValue[f]
    PROVE  \A f \in Flop : HeldInReset(j.in, f) => j.q[f] = ResetValue[f]
<1>1. \A f \in Flop : FlopResets[f] \subseteq Reset
  BY FlopsAreBound
<1> QED
  BY <1>1 DEF HeldInReset, ResetActive

\* Power-up with a list that leaves inputs out, before the evaluation.
LEMMA PowerUpResult ==
    ASSUME NEW i \in Instance, NEW q0 \in FlopWords,
           NEW S \in SUBSET Input, NEW upd \in [S -> Value]
    PROVE  LET j == PowerUp(i, q0, upd)
           IN  /\ j \in Instance
               /\ \A f \in Flop : HeldInReset(j.in, f) => j.q[f] = ResetValue[f]
<1> DEFINE start == [i EXCEPT !.q = q0]
           driven == RecordInputs(start, upd)
           reset == [driven EXCEPT !.q = [f \in Flop |->
                       IF HeldInReset(driven.in, f) THEN ResetValue[f] ELSE q0[f]]]
<1>1. start \in Instance
  BY DEF Instance
<1>2. driven \in Instance
  BY <1>1, RecordInputsResult
<1>3. reset.q \in FlopWords
  BY <1>2, FlopsAreBound DEF Instance, FlopWords
<1>4. reset \in Instance /\ reset.in = driven.in
  BY <1>2, <1>3 DEF Instance
<1>5. \A f \in Flop : HeldInReset(reset.in, f) => reset.q[f] = ResetValue[f]
  BY <1>2, <1>4 DEF Instance
<1>6. PowerUp(i, q0, upd) = reset
  BY DEF PowerUp
<1> HIDE DEF start, driven, reset
<1> QED
  BY <1>4, <1>5, <1>6

\* A call that evaluates returns an instance with the inputs and flops it
\* evaluated, settled unless the evaluation threw (guard, evaluateAndPublish).
LEMMA EvaluatedResult ==
    ASSUME NEW i \in Instance, ReturnEvaluated(i), unsettled \subseteq {"commit", "torn"}
    PROVE  /\ inst' \in Instance /\ inst'.in = i.in /\ inst'.q = i.q
           /\ status' \in {"ok", "error"}
           /\ unsettled' \subseteq {"commit", "torn"}
           /\ unsettled' = {} => Settled(inst')
           /\ status' = "ok" => inst' = Evaluate(i)
<1>1. CASE EvalThrows(i.in, i.q)
  <2>1. inst' \in TornEvaluations(i) /\ status' = "error" /\ unsettled' = unsettled \cup {"torn"}
    BY <1>1 DEF ReturnEvaluated
  <2>2. inst' \in Instance /\ inst'.in = i.in /\ inst'.q = i.q
    BY <2>1 DEF TornEvaluations, Instance
  <2> QED BY <2>1, <2>2
<1>2. CASE ~EvalThrows(i.in, i.q)
  <2>1. inst' = Evaluate(i) /\ status' = "ok" /\ unsettled' = {}
    BY <1>2 DEF ReturnEvaluated
  <2>2. /\ Evaluate(i) \in Instance /\ Evaluate(i).in = i.in /\ Evaluate(i).q = i.q
        /\ Settled(Evaluate(i))
    BY EvaluateResult DEF Settled
  <2> QED BY <2>1, <2>2
<1> QED BY <1>1, <1>2

-----------------------------------------------------------------------------
(* The invariant is inductive: one lemma per way to return, one per call.  *)

Holding(i) == \A f \in Flop : HeldInReset(i.in, f) => i.q[f] = ResetValue[f]

\* A call that ends with an evaluation, thrown or not.
LEMMA EvaluatedKeeps ==
    ASSUME TypeOK, NEW i \in Instance, ReturnEvaluated(i), Holding(i) \/ ~live',
           call' \in Calls, live' \in BOOLEAN
    PROVE  IInv'
<1>1. /\ inst' \in Instance /\ inst'.in = i.in /\ inst'.q = i.q
      /\ status' \in {"ok", "error"}
      /\ unsettled' \subseteq {"commit", "torn"}
      /\ unsettled' = {} => Settled(inst')
  BY EvaluatedResult DEF TypeOK
<1>2. TypeOK'
  BY <1>1 DEF TypeOK
<1>3. SettledInstance'
  BY <1>1 DEF SettledInstance
<1>4. ResetHolds'
  BY <1>1 DEF ResetHolds, Holding
<1> QED
  BY <1>2, <1>3, <1>4 DEF IInv

\* A call that ends without one.
LEMMA ReturnedKeeps ==
    ASSUME TypeOK, NEW i \in Instance, NEW st \in {"ok", "error"},
           NEW un \in SUBSET {"commit", "torn"}, Return(i, st, un),
           un = {} /\ ~i.dirty => Settled(i), Holding(i),
           call' \in Calls, live' \in BOOLEAN
    PROVE  IInv'
<1>1. inst' = i /\ status' = st /\ unsettled' = un
  BY DEF Return
<1>2. TypeOK'
  BY <1>1 DEF TypeOK
<1>3. SettledInstance' /\ ResetHolds'
  BY <1>1 DEF SettledInstance, ResetHolds, Holding
<1> QED
  BY <1>2, <1>3 DEF IInv

\* mate_instance_init, whatever it is called on.
LEMMA InstanceInitKeeps ==
    ASSUME IInv, NEW upd \in Updates, NEW fault \in Faults,
           NEW mode \in {"zero", "one", "random"}, NEW use \in BOOLEAN,
           InstanceInitCall(mode, use, upd, fault)
    PROVE  IInv'
<1>1. PICK S \in SUBSET Input : upd \in [S -> Value]
  BY UpdatesAreInputs
<1>2. PICK q0 \in InitialQ(mode, use) :
        IF fault # "none"
        THEN Return(RecordInputs([inst EXCEPT !.q = q0], upd), "error", {"commit"})
        ELSE ReturnEvaluated(PowerUp(inst, q0, upd))
  BY DEF InstanceInitCall
<1>3. inst \in Instance /\ q0 \in FlopWords /\ TypeOK
  BY <1>2 DEF IInv, TypeOK, InitialQ
<1>4. call' \in Calls /\ live' \in BOOLEAN /\ live' = (status' = "ok")
  BY DEF InstanceInitCall, Calls
<1>5. CASE fault # "none"
  <2> DEFINE start == [inst EXCEPT !.q = q0]
  <2>1. start \in Instance
    BY <1>3 DEF Instance
  <2> HIDE DEF start
  <2>2. RecordInputs(start, upd) \in Instance
    BY <1>1, <2>1, RecordInputsResult
  <2>3. inst' = RecordInputs(start, upd) /\ status' = "error" /\ unsettled' = {"commit"}
    BY <1>2, <1>5 DEF Return, start
  <2>4. TypeOK'
    BY <1>4, <2>2, <2>3 DEF TypeOK
  <2> QED
    BY <1>4, <2>3, <2>4 DEF IInv, SettledInstance, ResetHolds
<1>6. CASE fault = "none"
  <2> DEFINE i == PowerUp(inst, q0, upd)
  <2>1. i \in Instance /\ Holding(i)
    BY <1>1, <1>3, PowerUpResult DEF Holding
  <2>2. ReturnEvaluated(i)
    BY <1>2, <1>6
  <2> HIDE DEF i
  <2> QED
    BY <1>3, <1>4, <2>1, <2>2, EvaluatedKeeps
<1> QED
  BY <1>5, <1>6

\* The instance a running harness calls.
LEMMA LiveInstance ==
    ASSUME IInv, live
    PROVE  /\ TypeOK /\ inst \in Instance /\ Holding(inst)
           /\ unsettled \in SUBSET {"commit", "torn"}
           /\ unsettled = {} /\ ~inst.dirty => Settled(inst)
BY DEF IInv, TypeOK, SettledInstance, ResetHolds, Holding

\* Recording a list raises the flag or changes nothing, and moves no reset.
LEMMA RecordedKeeps ==
    ASSUME ResetsByEdge, IInv, live, NEW upd \in Updates
    PROVE  LET i == RecordInputs(inst, upd)
           IN  /\ i \in Instance /\ Holding(i)
               /\ unsettled = {} /\ ~i.dirty => Settled(i)
<1> DEFINE i == RecordInputs(inst, upd)
<1>1. PICK S \in SUBSET Input : S \subseteq Writable /\ upd \in [S -> Value]
  BY UpdatesAreInputs
<1>2. inst \in Instance /\ Holding(inst) /\ (unsettled = {} /\ ~inst.dirty => Settled(inst))
  BY LiveInstance
<1>3. /\ i \in Instance
      /\ i.d = inst.d /\ i.q = inst.q /\ i.out = inst.out
      /\ \A k \in Input : i.in[k] = IF k \in S THEN upd[k] ELSE inst.in[k]
      /\ ~i.dirty => ~inst.dirty /\ i.in = inst.in
  BY <1>1, <1>2, RecordInputsResult
<1> HIDE DEF i
<1>4. \A r \in Reset : i.in[r] = inst.in[r]
  BY <1>1, <1>3 DEF ResetsByEdge, Input
<1>5. Holding(i)
  BY <1>2, <1>3, <1>4, HoldsOn DEF Holding
<1>6. unsettled = {} /\ ~i.dirty => Settled(i)
  BY <1>2, <1>3 DEF Settled
<1> QED
  BY <1>3, <1>5, <1>6 DEF i

\* mate_set_input.
LEMMA SetInputKeeps ==
    ASSUME ResetsByEdge, IInv, NEW k \in Writable, NEW v \in Value, SetInputCall(k, v)
    PROVE  IInv'
<1> DEFINE i == [inst EXCEPT !.in[k] = v]
<1>1. TypeOK /\ inst \in Instance /\ Holding(inst) /\ live
  BY LiveInstance DEF SetInputCall
<1>2. k \in Input /\ k \notin Reset
  BY WritableInputs DEF ResetsByEdge
<1>3. i \in Instance /\ i.q = inst.q /\ \A r \in Reset : i.in[r] = inst.in[r]
  BY <1>1, <1>2 DEF Instance, InputWords, Input
<1>4. call' \in Calls /\ live' \in BOOLEAN
  BY <1>1 DEF SetInputCall, Calls
<1>5. ReturnEvaluated(i) \/ Return(inst, "error", unsettled)
  BY DEF SetInputCall
<1> HIDE DEF i
<1>6. Holding(i)
  BY <1>1, <1>3, HoldsOn DEF Holding
<1> QED
  BY <1>1, <1>3, <1>4, <1>5, <1>6, LiveInstance, EvaluatedKeeps, ReturnedKeeps

\* An edge call with a handle that is out of range.
LEMMA InvalidHandleKeeps ==
    ASSUME IInv, NEW op \in EdgeOps, InvalidHandleCall(op)
    PROVE  IInv'
<1>1. live /\ live' = live /\ Return(inst, "error", unsettled)
  BY DEF InvalidHandleCall
<1>2. call' \in Calls
  BY DEF InvalidHandleCall, Calls, EdgeOps
<1> QED
  BY <1>1, <1>2, LiveInstance, ReturnedKeeps

\* mate_set_inputs and mate_record_inputs.
LEMMA InputListKeeps ==
    ASSUME ResetsByEdge, IInv, NEW upd \in Updates, NEW fault \in Faults,
           SetInputsCall(upd, fault) \/ RecordInputsCall(upd, fault)
    PROVE  IInv'
<1> DEFINE i == RecordInputs(inst, upd)
<1>1. live /\ live' \in BOOLEAN /\ call' \in Calls
  <2>1. live /\ live' = live
    BY DEF SetInputsCall, RecordInputsCall
  <2>2. call' \in Calls
    BY DEF SetInputsCall, RecordInputsCall, Calls
  <2> QED BY <2>1, <2>2 DEF IInv, TypeOK
<1>2. /\ TypeOK /\ unsettled \in SUBSET {"commit", "torn"}
      /\ i \in Instance /\ Holding(i)
      /\ unsettled = {} /\ ~i.dirty => Settled(i)
  BY <1>1, LiveInstance, RecordedKeeps
<1>3. \/ ReturnEvaluated(i)
      \/ \E st \in {"ok", "error"} : Return(i, st, unsettled)
  BY DEF SetInputsCall, RecordInputsCall
<1> HIDE DEF i
<1> QED
  BY <1>1, <1>2, <1>3, EvaluatedKeeps, ReturnedKeeps

\* mate_settle and mate_settle_if_dirty.
LEMMA SettleKeeps ==
    ASSUME IInv, SettleCall \/ SettleIfDirtyCall
    PROVE  IInv'
<1>1. live /\ live' \in BOOLEAN /\ call' \in Calls
  <2>1. live /\ live' = live
    BY DEF SettleCall, SettleIfDirtyCall
  <2>2. call' \in Calls
    BY DEF SettleCall, SettleIfDirtyCall, Calls
  <2> QED BY <2>1, <2>2 DEF IInv, TypeOK
<1>2. ReturnEvaluated(inst) \/ Return(inst, "ok", unsettled)
  BY DEF SettleCall, SettleIfDirtyCall
<1> QED
  BY <1>1, <1>2, LiveInstance, EvaluatedKeeps, ReturnedKeeps

\* Arriving at an edge moves no reset.
LEMMA ArrivedKeeps ==
    ASSUME ResetsByEdge, IInv, live, NEW upd \in Updates, NEW dom \in Domain, NEW edge \in Level
    PROVE  LET i == ArriveAtEdge(inst, dom, edge, upd)
           IN  i \in Instance /\ Holding(i) /\ i.q = inst.q
<1> DEFINE i == ArriveAtEdge(inst, dom, edge, upd)
<1>1. PICK S \in SUBSET Input : S \subseteq Writable /\ upd \in [S -> Value]
  BY UpdatesAreInputs
<1>2. inst \in Instance /\ Holding(inst)
  BY LiveInstance
<1>3. /\ i \in Instance /\ i.q = inst.q
      /\ \A k \in Input \ (S \cup {dom[1]}) : i.in[k] = inst.in[k]
  BY <1>1, <1>2, ArriveResult
<1>4. dom[1] \notin Reset
  BY DomainsOfClocks, InputRolesDisjoint
<1> HIDE DEF i
<1>5. \A r \in Reset : i.in[r] = inst.in[r]
  BY <1>1, <1>3, <1>4 DEF ResetsByEdge, Input
<1>6. Holding(i)
  BY <1>2, <1>3, <1>5, HoldsOn DEF Holding
<1> QED
  BY <1>3, <1>6 DEF i

\* A clock commit moves no flop in reset.
LEMMA ClockCommitKeeps ==
    ASSUME NEW i \in Instance, NEW dom, Holding(i)
    PROVE  ClockCommit(i, dom) \in Instance /\ Holding(ClockCommit(i, dom))
<1> DEFINE j == ClockCommit(i, dom)
<1>1. /\ j \in Instance /\ j.in = i.in
      /\ j.q = [f \in Flop |-> IF FlopDomain[f] = dom /\ ~HeldInReset(i.in, f)
                               THEN i.d[f] ELSE i.q[f]]
  BY ClockCommitResult
<1> HIDE DEF j
<1>2. Holding(j)
  BY <1>1 DEF Holding
<1> QED
  BY <1>1, <1>2 DEF j

\* mate_commit_clock.
LEMMA CommitClockKeeps ==
    ASSUME ResetsByEdge, IInv, NEW upd \in Updates, NEW fault \in Faults,
           NEW dom \in Domain, NEW edge \in Level, CommitClockCall(dom, edge, upd, fault)
    PROVE  IInv'
<1> DEFINE arrived == ArriveAtEdge(inst, dom, edge, upd)
           done == CommitClock(inst, dom, edge, upd)
           owed == unsettled \cup {"commit"}
<1>1. live /\ live' \in BOOLEAN /\ call' \in Calls
  BY DEF CommitClockCall, Calls
<1>2. /\ TypeOK /\ inst \in Instance /\ Holding(inst)
      /\ unsettled \in SUBSET {"commit", "torn"} /\ owed \in SUBSET {"commit", "torn"}
      /\ unsettled = {} /\ ~inst.dirty => Settled(inst)
  BY <1>1, LiveInstance
<1>3. arrived \in Instance /\ Holding(arrived)
  BY <1>1, ArrivedKeeps
<1>4. done = arrived \/ done = ClockCommit(arrived, dom)
  BY DEF CommitClock
<1>5. done \in Instance /\ Holding(done)
  BY <1>3, <1>4, ClockCommitKeeps
<1>6. \/ Return(inst, "error", unsettled)
      \/ Return(arrived, "error", owed)
      \/ Return(done, "ok", owed)
  BY DEF CommitClockCall
<1>7. owed # {}
  OBVIOUS
<1> HIDE DEF arrived, done, owed
<1> QED
  BY <1>1, <1>2, <1>3, <1>5, <1>6, <1>7, ReturnedKeeps

\* mate_apply_clock.
LEMMA ApplyClockKeeps ==
    ASSUME ResetsByEdge, IInv, NEW upd \in Updates, NEW fault \in Faults,
           NEW dom \in Domain, NEW edge \in Level, ApplyClockCall(dom, edge, upd, fault)
    PROVE  IInv'
<1> DEFINE arrived == ArriveAtEdge(inst, dom, edge, upd)
           done == ClockCommit(Evaluate(arrived), dom)
           owed == unsettled \cup {"commit"}
<1>1. live /\ live' \in BOOLEAN /\ call' \in Calls
  BY DEF ApplyClockCall, Calls
<1>2. /\ TypeOK /\ inst \in Instance /\ Holding(inst)
      /\ unsettled \in SUBSET {"commit", "torn"} /\ owed \in SUBSET {"commit", "torn"}
      /\ unsettled = {} /\ ~inst.dirty => Settled(inst)
  BY <1>1, LiveInstance
<1>3. arrived \in Instance /\ Holding(arrived)
  BY <1>1, ArrivedKeeps
<1>4. Evaluate(arrived) \in Instance /\ Holding(Evaluate(arrived))
  BY <1>3, EvaluateResult DEF Holding
<1>5. done \in Instance /\ Holding(done)
  BY <1>4, ClockCommitKeeps
<1>6. \/ Return(inst, "error", unsettled)
      \/ Return(arrived, "error", owed)
      \/ ReturnEvaluated(arrived)
      \/ ReturnEvaluated(done)
  BY DEF ApplyClockCall
<1>7. owed # {}
  OBVIOUS
<1> HIDE DEF arrived, done, owed
<1> QED
  BY <1>1, <1>2, <1>3, <1>5, <1>6, <1>7, ReturnedKeeps, EvaluatedKeeps

\* mate_commit_reset and mate_apply_reset.
LEMMA ResetKeeps ==
    ASSUME IInv, NEW r \in Reset, NEW edge \in Level,
           CommitResetCall(r, edge) \/ ApplyResetCall(r, edge)
    PROVE  IInv'
<1> DEFINE i == CommitReset(inst, r, edge)
           owed == unsettled \cup {"commit"}
<1>1. live /\ live' \in BOOLEAN /\ call' \in Calls
  <2>1. live /\ live' = live
    BY DEF CommitResetCall, ApplyResetCall
  <2>2. call' \in Calls
    BY DEF CommitResetCall, ApplyResetCall, Calls
  <2> QED BY <2>1, <2>2 DEF IInv, TypeOK
<1>2. /\ TypeOK /\ inst \in Instance /\ Holding(inst)
      /\ owed \in SUBSET {"commit", "torn"} /\ owed # {}
  BY <1>1, LiveInstance
<1>3. /\ i \in Instance
      /\ i.in = [inst.in EXCEPT ![r] = edge]
      /\ i.q = [f \in Flop |-> IF edge = ActiveLevel[r] /\ r \in FlopResets[f]
                               THEN ResetValue[f] ELSE inst.q[f]]
  BY <1>2, CommitResetResult
<1>4. Return(i, "ok", owed) \/ ReturnEvaluated(i)
  BY DEF CommitResetCall, ApplyResetCall
<1> HIDE DEF i, owed
<1>5. ASSUME NEW f \in Flop, HeldInReset(i.in, f) PROVE i.q[f] = ResetValue[f]
  <2>1. PICK s \in FlopResets[f] : i.in[s] = ActiveLevel[s]
    BY <1>5 DEF HeldInReset, ResetActive
  <2>2. s \in Input /\ inst.in \in [Input -> Value]
    BY <1>2, FlopsAreBound DEF Input, Instance, InputWords
  <2>3. CASE s = r
    <3>1. edge = ActiveLevel[r] /\ r \in FlopResets[f]
      BY <2>1, <2>2, <2>3, <1>3
    <3> QED BY <3>1, <1>3
  <2>4. CASE s # r
    <3>1. inst.in[s] = ActiveLevel[s]
      BY <2>1, <2>2, <2>4, <1>3
    <3>2. inst.q[f] = ResetValue[f]
      BY <3>1, <1>2 DEF Holding, HeldInReset, ResetActive
    <3> QED BY <3>2, <1>3
  <2> QED BY <2>3, <2>4
<1>6. Holding(i)
  BY <1>5 DEF Holding
<1> QED
  BY <1>1, <1>2, <1>3, <1>4, <1>6, ReturnedKeeps, EvaluatedKeeps

\* A freshly created instance.
LEMMA InitIInv == Init => IInv
<1> SUFFICES ASSUME Init PROVE IInv
  OBVIOUS
<1>1. Allocated \in Instance
  BY ValuesHoldLevels DEF Allocated, Instance, InputWords, FlopWords, OutputWords, Level
<1>2. call \in Calls
  BY DEF Init, Calls
<1>3. TypeOK
  BY <1>1, <1>2 DEF Init, TypeOK
<1> QED
  BY <1>3 DEF IInv, Init, SettledInstance, ResetHolds

\* Doing nothing preserves the invariant.
LEMMA StutterIInv ==
    ASSUME IInv, UNCHANGED vars
    PROVE  IInv'
BY DEF IInv, TypeOK, SettledInstance, ResetHolds, vars

\* Every call preserves the invariant.
LEMMA StepIInv ==
    ASSUME ResetsByEdge, IInv, [Next]_vars
    PROVE  IInv'
<1>1. ASSUME NEW upd \in Updates, NEW fault \in Faults,
             NEW mode \in {"zero", "one", "random"}, NEW use \in BOOLEAN,
             InstanceInitCall(mode, use, upd, fault)
      PROVE  IInv'
  BY <1>1, InstanceInitKeeps
<1>2. ASSUME NEW upd \in Updates, NEW fault \in Faults,
             SetInputsCall(upd, fault) \/ RecordInputsCall(upd, fault)
      PROVE  IInv'
  BY <1>2, InputListKeeps
<1>3. ASSUME NEW upd \in Updates, NEW fault \in Faults, NEW dom \in Domain, NEW edge \in Level,
             CommitClockCall(dom, edge, upd, fault) \/ ApplyClockCall(dom, edge, upd, fault)
      PROVE  IInv'
  BY <1>3, CommitClockKeeps, ApplyClockKeeps
<1>4. CASE ListCall
  BY <1>1, <1>2, <1>3, <1>4 DEF ListCall
<1>5. ASSUME NEW k \in Writable, NEW v \in Value, SetInputCall(k, v) PROVE IInv'
  BY <1>5, SetInputKeeps
<1>6. CASE SettleCall \/ SettleIfDirtyCall
  BY <1>6, SettleKeeps
<1>7. ASSUME NEW r \in Reset, NEW edge \in Level, CommitResetCall(r, edge) \/ ApplyResetCall(r, edge)
      PROVE  IInv'
  BY <1>7, ResetKeeps
<1>8. ASSUME NEW op \in EdgeOps, InvalidHandleCall(op) PROVE IInv'
  BY <1>8, InvalidHandleKeeps
<1>9. CASE UNCHANGED vars
  BY <1>9, StutterIInv
<1>10. CASE Next
  BY <1>4, <1>5, <1>6, <1>7, <1>8, <1>10 DEF Next
<1> QED
  BY <1>9, <1>10

\* A harness that moves resets by their edges keeps the three invariants.
THEOREM Inductive == ASSUME ResetsByEdge PROVE Spec => []IInv
<1>1. IInv /\ [Next]_vars => IInv'
  BY StepIInv
<1> QED
  BY <1>1, InitIInv, PTL DEF Spec

\* The words of the instance stay within their leaves (copyWordsToStorage).
THEOREM TypeCorrect == ASSUME ResetsByEdge PROVE Spec => []TypeOK
<1>1. IInv => TypeOK
  BY DEF IInv
<1> QED
  BY <1>1, Inductive, PTL

\* With no commit and no thrown evaluation behind it, a clear inputs_dirty flag
\* means settled words, whatever calls failed in between.
THEOREM FlagMeansSettled == ASSUME ResetsByEdge PROVE Spec => []SettledInstance
<1>1. IInv => SettledInstance
  BY DEF IInv
<1> QED
  BY <1>1, Inductive, PTL

\* A flop one of whose resets reads active holds its reset value.
THEOREM ResetPriority == ASSUME ResetsByEdge PROVE Spec => []ResetHolds
<1>1. IInv => ResetHolds
  BY DEF IInv
<1> QED
  BY <1>1, Inductive, PTL

\* mate_apply_clock on the active edge, when it succeeds, has moved the domain's
\* flops to the D of the inputs passed with it and the flops of before it, and
\* no other flop.
LEMMA ApplyClockSamples ==
    ASSUME ResetsByEdge, IInv, NEW upd \in Updates, NEW fault \in Faults,
           NEW dom \in Domain, ApplyClockCall(dom, dom[2], upd, fault), status' = "ok",
           NEW f \in Flop
    PROVE  inst'.q[f] = IF FlopDomain[f] = dom /\ ~HeldInReset(inst'.in, f)
                        THEN NextD(inst'.in, inst.q)[f] ELSE inst.q[f]
<1> DEFINE arrived == ArriveAtEdge(inst, dom, dom[2], upd)
           settled == Evaluate(arrived)
           done == ClockCommit(settled, dom)
<1>1. live
  BY DEF ApplyClockCall
<1>2. dom[2] \in Level
  BY DomainsOfClocks
<1>3. arrived \in Instance /\ arrived.q = inst.q
  BY <1>1, <1>2, ArrivedKeeps
<1>4. /\ settled \in Instance /\ settled.in = arrived.in /\ settled.q = inst.q
      /\ settled.d = NextD(arrived.in, inst.q)
  BY <1>3, EvaluateResult
<1>5. /\ done \in Instance /\ done.in = arrived.in
      /\ done.q = [g \in Flop |-> IF FlopDomain[g] = dom /\ ~HeldInReset(arrived.in, g)
                                  THEN settled.d[g] ELSE inst.q[g]]
  BY <1>4, ClockCommitResult
<1>6. unsettled \subseteq {"commit", "torn"}
  BY DEF IInv, TypeOK
<1>7. inst' = Evaluate(done)
  <2>1. \/ Return(inst, "error", unsettled)
        \/ Return(arrived, "error", unsettled \cup {"commit"})
        \/ EvalThrows(arrived.in, arrived.q) /\ ReturnEvaluated(arrived)
        \/ ReturnEvaluated(done)
    BY DEF ApplyClockCall
  <2>2. ~Return(inst, "error", unsettled) /\ ~Return(arrived, "error", unsettled \cup {"commit"})
    BY DEF Return
  <2>3. ~(EvalThrows(arrived.in, arrived.q) /\ ReturnEvaluated(arrived))
    BY DEF ReturnEvaluated
  <2>4. ReturnEvaluated(done)
    BY <2>1, <2>2, <2>3
  <2> HIDE DEF done
  <2> QED BY <2>4, <1>5, <1>6, EvaluatedResult
<1>8. inst'.in = arrived.in /\ inst'.q = done.q
  BY <1>5, <1>7, EvaluateResult
<1> QED
  BY <1>4, <1>5, <1>8

\* What only another call can have returned is not said of this one.
LEMMA OtherCalls ==
    ASSUME NEW dom \in Domain, [Next]_vars, call' = <<"apply_clock", dom, dom[2]>>
    PROVE  \/ \E upd \in Updates, fault \in Faults : ApplyClockCall(dom, dom[2], upd, fault)
           \/ UNCHANGED vars
<1>1. CASE ListCall
  <2>1. PICK upd \in Updates, fault \in Faults :
          \/ \E mode \in {"zero", "one", "random"}, use \in BOOLEAN :
                InstanceInitCall(mode, use, upd, fault)
          \/ SetInputsCall(upd, fault)
          \/ RecordInputsCall(upd, fault)
          \/ \E e \in Domain, edge \in Level :
               CommitClockCall(e, edge, upd, fault) \/ ApplyClockCall(e, edge, upd, fault)
    BY <1>1 DEF ListCall
  <2>2. \E e \in Domain, edge \in Level : ApplyClockCall(e, edge, upd, fault)
    BY <2>1 DEF InstanceInitCall, SetInputsCall, RecordInputsCall, CommitClockCall
  <2>3. PICK e \in Domain, edge \in Level : ApplyClockCall(e, edge, upd, fault)
    BY <2>2
  <2>4. e = dom /\ edge = dom[2]
    BY <2>3 DEF ApplyClockCall
  <2> QED BY <2>3, <2>4
<1>2. CASE ~ListCall /\ ~UNCHANGED vars
  BY <1>2 DEF Next, SetInputCall, SettleCall, SettleIfDirtyCall, CommitResetCall, ApplyResetCall,
              InvalidHandleCall
<1> QED BY <1>1, <1>2

\* mate_apply_clock is self-contained, for every design and in every state a
\* harness can bring the instance to.
THEOREM ApplyClockSelfContained == ASSUME ResetsByEdge PROVE Spec => ApplyClockSamplesItsInputs
<1> DEFINE Samples ==
        \A dom \in Domain :
            call' = <<"apply_clock", dom, dom[2]>> /\ status' = "ok" =>
                \A f \in Flop :
                    inst'.q[f] = IF FlopDomain[f] = dom /\ ~HeldInReset(inst'.in, f)
                                 THEN NextD(inst'.in, inst.q)[f]
                                 ELSE inst.q[f]
<1>1. IInv /\ [Next]_vars => [Samples]_vars
  BY ApplyClockSamples, OtherCalls
<1> QED
  BY <1>1, Inductive, PTL DEF Spec, ApplyClockSamplesItsInputs
=============================================================================
