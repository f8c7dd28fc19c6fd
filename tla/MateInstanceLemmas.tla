------------------------- MODULE MateInstanceLemmas -------------------------
(***************************************************************************)
(* What the operators of MateInstance return: instances of the right type, *)
(* and the words each of them may change.                                  *)
(***************************************************************************)
EXTENDS MateInstance, TLAPS

\* Evaluating leaves inputs and flops alone and settles D and the outputs
\* (evaluateAndPublish).
LEMMA EvaluateResult ==
    ASSUME NEW i \in Instance
    PROVE  /\ Evaluate(i) \in Instance
           /\ Evaluate(i).in = i.in /\ Evaluate(i).q = i.q
           /\ Evaluate(i).d = NextD(i.in, i.q)
           /\ Evaluate(i).out = OutputOf(i.in, i.q)
           /\ Evaluate(i).dirty = FALSE
BY EvaluatorTyped DEF Evaluate, Instance

\* A list of well-formed updates keeps the type and everything but the inputs
\* it lists and the flag, and leaves the flag clear only when nothing changed
\* (applyRawInputUpdates).
LEMMA RecordInputsResult ==
    ASSUME NEW i \in Instance,
           NEW S \in SUBSET Input, NEW upd \in [S -> Value]
    PROVE  LET j == RecordInputs(i, upd)
           IN  /\ j \in Instance
               /\ j.d = i.d /\ j.q = i.q /\ j.out = i.out
               /\ \A k \in Input : j.in[k] = IF k \in S THEN upd[k] ELSE i.in[k]
               /\ ~j.dirty => ~i.dirty /\ j.in = i.in
<1> DEFINE j == RecordInputs(i, upd)
<1>1. DOMAIN upd = S /\ DOMAIN i.in = Input
  BY DEF Instance, InputWords
<1>2. j.in = [k \in Input |-> IF k \in S THEN upd[k] ELSE i.in[k]]
  BY <1>1 DEF RecordInputs, Overwrite, Instance
<1>3. j.dirty = (i.dirty \/ \E k \in S : upd[k] # i.in[k])
  BY <1>1 DEF RecordInputs, Instance
<1>4. j.d = i.d /\ j.q = i.q /\ j.out = i.out
  BY DEF RecordInputs, Instance
<1>5. j.in \in InputWords
  BY <1>2 DEF Instance, InputWords
<1>6. j \in Instance
  BY <1>3, <1>4, <1>5, <1>2 DEF RecordInputs, Instance
<1>7. ~j.dirty => j.in = i.in
  BY <1>2, <1>3, <1>5 DEF Instance, InputWords
<1> QED
  BY <1>2, <1>3, <1>4, <1>6, <1>7

\* A commit with no updates writes the source word, never the flag, D or the
\* outputs, and on the domain's active edge moves D to the Q of its flops that
\* are not in reset (commitClockEdge without evaluate_before_commit).
LEMMA CommitClockResult ==
    ASSUME NEW i \in Instance, NEW dom \in Domain, NEW edge \in Level
    PROVE  LET j == CommitClock(i, dom, edge, NoUpdates)
           IN  /\ j \in Instance
               /\ j.d = i.d /\ j.out = i.out /\ j.dirty = i.dirty
               /\ j.in = [i.in EXCEPT ![dom[1]] = edge]
               /\ j.q = [f \in Flop |->
                    IF edge = dom[2] /\ FlopDomain[f] = dom /\ ~HeldInReset(j.in, f)
                    THEN i.d[f] ELSE i.q[f]]
<1> DEFINE arrived == ArriveAtEdge(i, dom, edge, NoUpdates)
           j == CommitClock(i, dom, edge, NoUpdates)
<1>1. dom[1] \in Input /\ edge \in Value
  BY DomainsOfClocks, ValuesHoldLevels DEF Input
<1>2. /\ WriteSource(i, dom[1], edge) \in Instance
      /\ WriteSource(i, dom[1], edge) = [i EXCEPT !.in = [i.in EXCEPT ![dom[1]] = edge]]
  BY <1>1 DEF WriteSource, Instance, InputWords
<1>3. DOMAIN ButSource(NoUpdates, dom) = {}
  BY DEF ButSource, NoUpdates
<1>4. arrived = WriteSource(i, dom[1], edge)
  BY <1>2, <1>3 DEF ArriveAtEdge, RecordInputs, Overwrite, Instance, InputWords
<1>5. CASE edge = dom[2]
  <2>1. j = ClockCommit(arrived, dom)
    BY <1>5 DEF CommitClock
  <2>2. j.in = arrived.in /\ j.d = arrived.d /\ j.out = arrived.out /\ j.dirty = arrived.dirty
    BY <2>1, <1>4, <1>2 DEF ClockCommit, Instance
  <2>3. j.q = [f \in Flop |-> IF FlopDomain[f] = dom /\ ~HeldInReset(arrived.in, f)
                              THEN arrived.d[f] ELSE arrived.q[f]]
    BY <2>1, <1>4, <1>2 DEF ClockCommit, Instance
  <2>4. j.q \in FlopWords
    BY <2>3, <1>2, <1>4 DEF Instance, FlopWords
  <2>5. j \in Instance
    BY <2>1, <2>4, <1>4, <1>2 DEF ClockCommit, Instance
  <2> QED BY <2>2, <2>3, <2>5, <1>5, <1>2, <1>4 DEF Instance
<1>6. CASE edge # dom[2]
  <2>1. j = arrived
    BY <1>6 DEF CommitClock
  <2>2. i.q = [f \in Flop |-> i.q[f]]
    BY DEF Instance, FlopWords
  <2> QED BY <2>1, <2>2, <1>2, <1>4, <1>6 DEF Instance
<1> QED BY <1>5, <1>6

\* A reset edge writes the source word and, on the active edge, puts every flop
\* of the reset domain to its reset value (commitResetEdge).
LEMMA CommitResetResult ==
    ASSUME NEW i \in Instance, NEW r \in Reset, NEW edge \in Level
    PROVE  LET j == CommitReset(i, r, edge)
           IN  /\ j \in Instance
               /\ j.d = i.d /\ j.out = i.out /\ j.dirty = i.dirty
               /\ j.in = [i.in EXCEPT ![r] = edge]
               /\ j.q = [f \in Flop |->
                    IF edge = ActiveLevel[r] /\ r \in FlopResets[f]
                    THEN ResetValue[f] ELSE i.q[f]]
<1> DEFINE arrived == WriteSource(i, r, edge)
           j == CommitReset(i, r, edge)
<1>1. r \in Input /\ edge \in Value
  BY ValuesHoldLevels DEF Input
<1>2. /\ arrived \in Instance
      /\ arrived = [i EXCEPT !.in = [i.in EXCEPT ![r] = edge]]
  BY <1>1 DEF WriteSource, Instance, InputWords
<1>3. CASE edge = ActiveLevel[r]
  <2>1. j = ResetApply(arrived, r)
    BY <1>3 DEF CommitReset
  <2>2. j.in = arrived.in /\ j.d = arrived.d /\ j.out = arrived.out /\ j.dirty = arrived.dirty
    BY <2>1, <1>2 DEF ResetApply, Instance
  <2>3. j.q = [f \in Flop |-> IF r \in FlopResets[f] THEN ResetValue[f] ELSE arrived.q[f]]
    BY <2>1, <1>2 DEF ResetApply, Instance
  <2>4. j.q \in FlopWords
    BY <2>3, <1>2, FlopsAreBound DEF Instance, FlopWords
  <2>5. j \in Instance
    BY <2>1, <2>4, <1>2 DEF ResetApply, Instance
  <2> QED BY <2>2, <2>3, <2>5, <1>3, <1>2 DEF Instance
<1>4. CASE edge # ActiveLevel[r]
  <2>1. j = arrived
    BY <1>4 DEF CommitReset
  <2>2. i.q = [f \in Flop |-> i.q[f]]
    BY DEF Instance, FlopWords
  <2> QED BY <2>1, <2>2, <1>2, <1>4 DEF Instance
<1> QED BY <1>3, <1>4

\* mate_instance_init leaves a settled instance on the inputs it was given,
\* every flop whose reset reads active at its reset value and every other at
\* its initial one.
LEMMA InstanceInitResult ==
    ASSUME NEW i \in Instance, NEW q0 \in FlopWords, NEW upd \in InputWords
    PROVE  LET j == InstanceInit(i, q0, upd)
           IN  /\ j \in Instance
               /\ j.in = upd
               /\ j.q = [f \in Flop |-> IF HeldInReset(upd, f) THEN ResetValue[f] ELSE q0[f]]
               /\ j.d = NextD(j.in, j.q) /\ j.out = OutputOf(j.in, j.q)
               /\ j.dirty = FALSE
<1> DEFINE start == [i EXCEPT !.q = q0]
           driven == RecordInputs(start, upd)
           reset == [driven EXCEPT !.q = [f \in Flop |->
                       IF HeldInReset(driven.in, f) THEN ResetValue[f] ELSE q0[f]]]
<1>1. start \in Instance
  BY DEF Instance
<1>2. upd \in [Input -> Value]
  BY DEF InputWords
<1>3. driven \in Instance
  BY <1>1, <1>2, RecordInputsResult
<1>4. \A k \in Input : driven.in[k] = upd[k]
  BY <1>1, <1>2, RecordInputsResult
<1>5. driven.in = upd
  BY <1>2, <1>3, <1>4 DEF Instance, InputWords
<1>6. reset.q \in FlopWords
  BY <1>3, FlopsAreBound DEF Instance, FlopWords
<1>7. reset \in Instance /\ reset.in = driven.in
  BY <1>3, <1>6 DEF Instance
<1>8. InstanceInit(i, q0, upd) = Evaluate(reset)
  BY DEF InstanceInit, PowerUp
<1>9. reset.q = [f \in Flop |-> IF HeldInReset(upd, f) THEN ResetValue[f] ELSE q0[f]]
  BY <1>3, <1>5 DEF Instance
<1>10. reset.in = upd
  BY <1>5, <1>7
<1> HIDE DEF start, driven, reset
<1>11. /\ Evaluate(reset) \in Instance
       /\ Evaluate(reset).in = reset.in /\ Evaluate(reset).q = reset.q
       /\ Evaluate(reset).d = NextD(reset.in, reset.q)
       /\ Evaluate(reset).out = OutputOf(reset.in, reset.q)
       /\ Evaluate(reset).dirty = FALSE
  BY <1>7, EvaluateResult
<1> QED
  BY <1>8, <1>9, <1>10, <1>11
=============================================================================
