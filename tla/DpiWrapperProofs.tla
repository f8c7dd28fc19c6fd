-------------------------- MODULE DpiWrapperProofs --------------------------
(***************************************************************************)
(* Safety of the generated wrapper, for every design and every testbench.  *)
(***************************************************************************)
EXTENDS DpiWrapper, MateInstanceLemmas

-----------------------------------------------------------------------------
(* The inductive invariant.                                                *)

\* The edge block runs only once the instance has been initialised, and nothing
\* runs after the final block.
BlockRuns ==
    /\ at # "idle" => boot = "done"
    /\ boot = "final" => pend = {}

\* The wrapper's last_ levels are those of the ports unless an edge is still to
\* be handled ...
LevelsNoted ==
    /\ boot \in {"hash0", "done"} /\ at = "idle" /\ "edge" \notin pend =>
          \A s \in Source : last[s] = port[s]
    /\ at # "idle" => toDo = {s \in Source : port[s] # last[s]}

\* ... and always those stored in the instance, which also stores every data
\* input unless its record block is still to run.
LevelsStored == Running => \A s \in Source : inst.in[s] = last[s]
DataStored == Running /\ "record" \notin pend => \A x \in Data : inst.in[x] = port[x]

\* What the commits made so far have changed: the source words, and on active
\* edges flops.
CommitsSoFar ==
    at = "commit" =>
        /\ Settled(pre)
        /\ inst.d = pre.d /\ inst.out = pre.out /\ inst.dirty = FALSE
        /\ \A x \in Data : inst.in[x] = pre.in[x]
        /\ \A s \in Source : pre.in[s] \in Level
        /\ \A s \in toDo : inst.in[s] = pre.in[s]
        /\ toDo \cap Clock # {} => \A r \in Reset : inst.in[r] = pre.in[r]

\* As long as no settle is owed they have changed nothing the logic reads.
NothingOwed ==
    at = "commit" /\ ~need =>
        inst.q = pre.q /\ \A s \in DrivesLogic : inst.in[s] = pre.in[s]

\* Each flop is where the edges committed so far put it (RtlSync's Instant).
FlopsSoFar ==
    at = "commit" =>
        inst.q = [f \in Flop |->
            IF HeldInReset(pre.in, f) \/ HeldInReset(inst.in, f) THEN ResetValue[f]
            ELSE IF Rtl!Clocked(pre.in, inst.in, f) THEN pre.d[f]
            ELSE pre.q[f]]

\* What the output ports show once the scheduled updates are made.
Showing == IF nba = NoOutputs THEN out ELSE nba

\* No update is scheduled before the initial block has run; the edge block
\* starts from settled outputs; and outside its commits every registered output
\* shows the logic settled on the stored inputs.
RegisteredShown ==
    /\ ~Running => nba = NoOutputs
    /\ at = "commit" => next = pre.out
    /\ Running /\ at # "commit" => \A o \in Output \ CombOutput :
           Showing[o] = OutputOf(inst.in, inst.q)[o]

IInv ==
    /\ TypeOK
    /\ BlockRuns
    /\ LevelsNoted
    /\ LevelsStored
    /\ DataStored
    /\ ResetHolds
    /\ SettledUnlessDirty
    /\ CommitsSoFar
    /\ NothingOwed
    /\ FlopsSoFar
    /\ RegisteredShown

-----------------------------------------------------------------------------
(* Types.                                                                  *)

\* Adding a dump keeps a log of dumps well typed.
LEMMA UpsertType ==
    ASSUME NEW log, DOMAIN log \subseteq Time, log \in [DOMAIN log -> Snapshot],
           NEW t \in Time, NEW snap \in Snapshot
    PROVE  /\ DOMAIN Upsert(log, t, snap) \subseteq Time
           /\ Upsert(log, t, snap) \in [DOMAIN Upsert(log, t, snap) -> Snapshot]
BY DEF Upsert

\* The words of an instance make a dump.
LEMMA ShownType ==
    ASSUME NEW i \in Instance
    PROVE  Shown(i) \in Snapshot
BY DEF Shown, Instance, Snapshot

\* So do settled words.
LEMMA ObservedType ==
    ASSUME NEW ins \in InputWords, NEW q \in FlopWords
    PROVE  Observed(ins, q) \in Snapshot
BY EvaluatorTyped DEF Observed, Snapshot

\* The record call passes a well-formed list of the data inputs.
LEMMA DataPortsType ==
    ASSUME TypeOK
    PROVE  DataPorts \in [Data -> Value] /\ Data \subseteq Input
BY DEF TypeOK, DataPorts, InputWords, Input

\* The record call refreshes the stored data inputs, moves no flop and no
\* source word, and raises the flag unless nothing changed; it evaluates only
\* to flush an earlier instant (<prefix>_record_input_values).
LEMMA RecordResult ==
    ASSUME TypeOK, RecordInputValues
    PROVE  /\ inst' \in Instance
           /\ DOMAIN dumps' \subseteq Time /\ dumps' \in [DOMAIN dumps' -> Snapshot]
           /\ pending' \in Time \cup {NoTime}
           /\ fatal' \in BOOLEAN
           /\ inst'.q = inst.q
           /\ \A x \in Data : inst'.in[x] = port[x]
           /\ \A s \in Source : inst'.in[s] = inst.in[s]
           /\ ~inst'.dirty /\ (~inst.dirty => Settled(inst)) => Settled(inst')
<1> DEFINE from == IF FlushDue THEN Evaluate(inst) ELSE inst
<1>1. inst \in Instance /\ now \in Time /\ pending \in Time \cup {NoTime}
  BY DEF TypeOK
<1>2. from \in Instance /\ from.in = inst.in /\ from.q = inst.q
  BY <1>1, EvaluateResult
<1>3. ~from.dirty /\ (~inst.dirty => Settled(inst)) => Settled(from)
  BY <1>1, EvaluateResult DEF Settled
<1>4. inst' = RecordInputs(from, DataPorts)
  BY DEF RecordInputValues
<1>5. DataPorts \in [Data -> Value] /\ Data \in SUBSET Input
  BY DataPortsType
<1> HIDE DEF from
<1>6. /\ inst' \in Instance
      /\ inst'.d = from.d /\ inst'.q = from.q /\ inst'.out = from.out
      /\ \A k \in Input : inst'.in[k] = IF k \in Data THEN DataPorts[k] ELSE from.in[k]
      /\ ~inst'.dirty => ~from.dirty /\ inst'.in = from.in
  BY <1>2, <1>4, <1>5, RecordInputsResult
<1>7. Source \subseteq Input /\ Source \cap Data = {}
  BY InputRolesDisjoint DEF Source, Input
<1>8. \A x \in Data : inst'.in[x] = port[x]
  BY <1>5, <1>6 DEF DataPorts
<1>9. \A s \in Source : inst'.in[s] = inst.in[s]
  BY <1>2, <1>6, <1>7
<1>10. ~inst'.dirty /\ (~inst.dirty => Settled(inst)) => Settled(inst')
  BY <1>3, <1>6 DEF Settled
<1>11. DOMAIN dumps' \subseteq Time /\ dumps' \in [DOMAIN dumps' -> Snapshot]
  <2>1. CASE FlushDue
    <3>1. pending \in Time
      BY <2>1, <1>1 DEF FlushDue
    <3>2. Shown(Evaluate(inst)) \in Snapshot
      BY <1>1, EvaluateResult, ShownType
    <3> QED
      BY <2>1, <3>1, <3>2, UpsertType DEF TypeOK, RecordInputValues, DumpAt
  <2>2. CASE ~FlushDue
    BY <2>2 DEF TypeOK, RecordInputValues
  <2> QED BY <2>1, <2>2
<1>12. pending' \in Time \cup {NoTime} /\ fatal' \in BOOLEAN
  BY <1>1 DEF RecordInputValues
<1> QED
  BY <1>2, <1>6, <1>8, <1>9, <1>10, <1>11, <1>12

\* A trace dump keeps the tracer's state well typed (<prefix>_trace_dump).
LEMMA TraceDumpType ==
    ASSUME TypeOK, NEW i \in Instance, TraceDump(i)
    PROVE  /\ DOMAIN dumps' \subseteq Time /\ dumps' \in [DOMAIN dumps' -> Snapshot]
           /\ pending' \in Time \cup {NoTime}
           /\ fatal' \in BOOLEAN
<1>1. Shown(i) \in Snapshot
  BY ShownType
<1> QED
  BY <1>1, UpsertType DEF TypeOK, TraceDump, DumpAt

-----------------------------------------------------------------------------
(* The initial states and the stuttering steps.                            *)

\* The invariant holds before the wrapper's processes have run.
LEMMA InitIInv == Init => IInv
<1> SUFFICES ASSUME Init PROVE IInv
  OBVIOUS
<1>1. TypeOK
  <2>1. Allocated \in Instance
    BY ValuesHoldLevels DEF Allocated, Instance, InputWords, FlopWords, OutputWords, Level
  <2>2. [o \in Output |-> 0] \in OutputWords
    BY ValuesHoldLevels DEF OutputWords, Level
  <2>3. DOMAIN NoSnapshots = {} /\ NoSnapshots \in [DOMAIN NoSnapshots -> Snapshot]
    BY DEF NoSnapshots
  <2>4. now \in Time
    BY WrapperConstants DEF Init, Time
  <2>5. last \in [Source -> Level]
    BY DEF Init, Level
  <2>6. /\ DOMAIN dumps \subseteq Time /\ dumps \in [DOMAIN dumps -> Snapshot]
        /\ DOMAIN truth \subseteq Time /\ truth \in [DOMAIN truth -> Snapshot]
    BY <2>3 DEF Init
  <2>7. next \in OutputWords /\ out \in OutputWords
    BY <2>2 DEF Init
  <2>8. inst \in Instance /\ pre \in Instance
    BY <2>1 DEF Init
  <2> QED
    BY <2>4, <2>5, <2>6, <2>7, <2>8 DEF Init, TypeOK
<1>2. /\ BlockRuns /\ LevelsNoted /\ LevelsStored /\ DataStored /\ ResetHolds
      /\ SettledUnlessDirty /\ CommitsSoFar /\ NothingOwed /\ FlopsSoFar
  BY DEF Init, BlockRuns, LevelsNoted, LevelsStored, DataStored, ResetHolds,
         SettledUnlessDirty, CommitsSoFar, NothingOwed, FlopsSoFar, Running
<1>3. RegisteredShown
  BY DEF Init, RegisteredShown, Running
<1> QED
  BY <1>1, <1>2, <1>3 DEF IInv

\* The invariant reads only the variables of the specification.
LEMMA StutterIInv ==
    ASSUME IInv, UNCHANGED vars
    PROVE  IInv'
BY DEF IInv, TypeOK, BlockRuns, LevelsNoted, LevelsStored, DataStored, ResetHolds,
       SettledUnlessDirty, CommitsSoFar, NothingOwed, FlopsSoFar, RegisteredShown,
       Showing, Running, vars

-----------------------------------------------------------------------------
(* The simulator and the testbench.                                        *)

\* Ports that move outside the edge block wake the blocks that will carry them
\* to the instance, and disturb nothing else.
LEMMA PortsMoved ==
    ASSUME IInv, NEW p \in Moves(Input), MoveTo(p),
           at = "idle", boot # "final",
           UNCHANGED <<boot, last, at, toDo, need, next, inst, pre>>,
           Showing' = Showing, ~Running => nba' = NoOutputs
    PROVE  /\ BlockRuns' /\ LevelsNoted' /\ LevelsStored' /\ DataStored'
           /\ ResetHolds' /\ SettledUnlessDirty' /\ CommitsSoFar' /\ NothingOwed'
           /\ FlopsSoFar' /\ RegisteredShown'
           /\ port' \in InputWords /\ \A s \in Source : port'[s] \in Level
           /\ pend' \subseteq {"comb", "record", "edge"}
<1>1. port' = p /\ pend' = pend \cup Woken(port, p)
  BY DEF MoveTo
<1>2. port' \in InputWords /\ \A s \in Source : port'[s] \in Level
  BY <1>1 DEF Moves
<1>3. pend' \subseteq {"comb", "record", "edge"}
  BY <1>1 DEF IInv, TypeOK, Woken
<1>4. Source \subseteq Input /\ Data \subseteq Input
  BY DEF Source, Input
<1>5. "edge" \notin pend' => \A s \in Source : port'[s] = port[s]
  BY <1>1, <1>4 DEF Woken
<1>6. "record" \notin pend' => \A x \in Data : port'[x] = port[x]
  BY <1>1, <1>4 DEF Woken
<1>7. LevelsNoted'
  BY <1>1, <1>5 DEF IInv, LevelsNoted
<1>8. DataStored'
  BY <1>1, <1>6 DEF IInv, DataStored, Running
<1>9. BlockRuns' /\ LevelsStored'
  BY DEF IInv, BlockRuns, LevelsStored, Running
<1>10. ResetHolds' /\ SettledUnlessDirty'
  BY DEF IInv, ResetHolds, SettledUnlessDirty, Running
<1>11. CommitsSoFar' /\ NothingOwed' /\ FlopsSoFar'
  BY DEF CommitsSoFar, NothingOwed, FlopsSoFar
<1>12. RegisteredShown'
  BY DEF IInv, RegisteredShown, Running
<1> QED
  BY <1>2, <1>3, <1>7, <1>8, <1>9, <1>10, <1>11, <1>12

\* A move of data inputs is a move of ports.
LEMMA DataMoves == Moves(RacyInput) \subseteq Moves(Input)
BY WrapperConstants DEF Moves, Input

\* Drive, RacyDrive and NbaRegion preserve the invariant.
LEMMA TestbenchIInv ==
    ASSUME IInv, Drive \/ RacyDrive \/ NbaRegion
    PROVE  IInv'
<1>1. CASE Drive
  <2>1. PICK p \in Moves(Input) : MoveTo(p)
    BY <1>1 DEF Drive
  <2>2. at = "idle" /\ boot # "final" /\ Showing' = Showing /\ (~Running => nba' = NoOutputs)
    BY <1>1 DEF Drive, Quiet, ActiveIdle, Showing
  <2>3. UNCHANGED <<boot, last, at, toDo, need, next, inst, pre>>
    BY <1>1 DEF Drive
  <2> HIDE <1>1
  <2>4. /\ BlockRuns' /\ LevelsNoted' /\ LevelsStored' /\ DataStored'
        /\ ResetHolds' /\ SettledUnlessDirty' /\ CommitsSoFar' /\ NothingOwed'
        /\ FlopsSoFar' /\ RegisteredShown'
        /\ port' \in InputWords /\ \A s \in Source : port'[s] \in Level
        /\ pend' \subseteq {"comb", "record", "edge"}
    BY <2>1, <2>2, <2>3, PortsMoved
  <2>5. TypeOK'
    BY <1>1, <2>4 DEF IInv, TypeOK, Drive
  <2> QED BY <2>4, <2>5 DEF IInv
<1>2. CASE RacyDrive
  <2>1. PICK p \in Moves(Input) : MoveTo(p)
    BY <1>2, DataMoves DEF RacyDrive
  <2>2. at = "idle" /\ boot # "final" /\ Showing' = Showing /\ (~Running => nba' = NoOutputs)
    BY <1>2 DEF RacyDrive, Showing, IInv, RegisteredShown
  <2>3. UNCHANGED <<boot, last, at, toDo, need, next, inst, pre>>
    BY <1>2 DEF RacyDrive
  <2>4. /\ BlockRuns' /\ LevelsNoted' /\ LevelsStored' /\ DataStored'
        /\ ResetHolds' /\ SettledUnlessDirty' /\ CommitsSoFar' /\ NothingOwed'
        /\ FlopsSoFar' /\ RegisteredShown'
        /\ port' \in InputWords /\ \A s \in Source : port'[s] \in Level
        /\ pend' \subseteq {"comb", "record", "edge"}
    BY <2>1, <2>2, <2>3, PortsMoved
  <2>5. TypeOK'
    BY <1>2, <2>4 DEF IInv, TypeOK, RacyDrive
  <2> QED BY <2>4, <2>5 DEF IInv
<1>3. CASE NbaRegion
  <2>1. PICK p \in Moves(Input) : MoveTo(p)
    BY <1>3 DEF NbaRegion
  <2>2. at = "idle" /\ boot # "final" /\ Showing' = Showing /\ (~Running => nba' = NoOutputs)
    BY <1>3 DEF NbaRegion, ActiveIdle, Showing
  <2>3. UNCHANGED <<boot, last, at, toDo, need, next, inst, pre>>
    BY <1>3 DEF NbaRegion
  <2>4. /\ BlockRuns' /\ LevelsNoted' /\ LevelsStored' /\ DataStored'
        /\ ResetHolds' /\ SettledUnlessDirty' /\ CommitsSoFar' /\ NothingOwed'
        /\ FlopsSoFar' /\ RegisteredShown'
        /\ port' \in InputWords /\ \A s \in Source : port'[s] \in Level
        /\ pend' \subseteq {"comb", "record", "edge"}
    BY <2>1, <2>2, <2>3, PortsMoved
  <2>5. TypeOK'
    BY <1>3, <2>4 DEF IInv, TypeOK, NbaRegion
  <2> QED BY <2>4, <2>5 DEF IInv
<1> QED
  BY <1>1, <1>2, <1>3

\* Time passing preserves the invariant.
LEMMA TickIInv ==
    ASSUME IInv, Tick
    PROVE  IInv'
<1>1. inst.q \in FlopWords /\ port \in InputWords
  BY DEF IInv, TypeOK, Instance
<1>2. Observed(port, inst.q) \in Snapshot
  BY <1>1, ObservedType
<1>3. /\ DOMAIN truth' \subseteq Time
      /\ truth' \in [DOMAIN truth' -> Snapshot]
  BY <1>2, UpsertType DEF IInv, TypeOK, Tick
<1>4. now' \in Time
  BY WrapperConstants DEF IInv, TypeOK, Tick, Time
<1>5. TypeOK'
  BY <1>3, <1>4 DEF IInv, TypeOK, Tick
<1>6. /\ BlockRuns' /\ LevelsNoted' /\ LevelsStored' /\ DataStored' /\ ResetHolds'
      /\ SettledUnlessDirty' /\ CommitsSoFar' /\ NothingOwed' /\ FlopsSoFar'
      /\ RegisteredShown'
  BY DEF Tick, IInv, BlockRuns, LevelsNoted, LevelsStored, DataStored, ResetHolds,
         SettledUnlessDirty, CommitsSoFar, NothingOwed, FlopsSoFar, RegisteredShown,
         Showing, Running
<1> QED
  BY <1>5, <1>6 DEF IInv

-----------------------------------------------------------------------------
(* The initial block and the final block.                                  *)

\* Creating the context and noting the levels preserves the invariant.
LEMMA InitialStartIInv ==
    ASSUME IInv, InitialStart
    PROVE  IInv'
<1>1. last' = [s \in Source |-> port[s]] /\ port' = port
  BY DEF InitialStart
<1>2. last' \in [Source -> Level]
  BY <1>1 DEF IInv, TypeOK
<1>3. TypeOK'
  BY <1>2 DEF IInv, TypeOK, InitialStart
<1>4. LevelsNoted'
  BY <1>1 DEF InitialStart, LevelsNoted, IInv, BlockRuns
<1>5. /\ BlockRuns' /\ LevelsStored' /\ DataStored' /\ ResetHolds' /\ SettledUnlessDirty'
      /\ CommitsSoFar' /\ NothingOwed' /\ FlopsSoFar'
  BY DEF InitialStart, IInv, BlockRuns, LevelsStored, DataStored, ResetHolds,
         SettledUnlessDirty, CommitsSoFar, NothingOwed, FlopsSoFar, Running
<1>6. RegisteredShown'
  BY DEF InitialStart, IInv, RegisteredShown, Running
<1> QED
  BY <1>3, <1>4, <1>5, <1>6 DEF IInv

\* A flop's resets are reset inputs.
LEMMA ResetsAreSources ==
    ASSUME NEW f \in Flop
    PROVE  FlopResets[f] \subseteq Reset /\ FlopResets[f] \subseteq Source
BY FlopsAreBound DEF Source

\* Initial flop values are flop values.
LEMMA InitialQType ==
    ASSUME NEW q0 \in InitialQ("zero", TRUE)
    PROVE  q0 \in FlopWords
BY DEF InitialQ

\* mate_instance_init establishes what the running wrapper maintains.
LEMMA InitialInitIInv ==
    ASSUME IInv, InitialInit
    PROVE  IInv'
<1>1. /\ boot = "hash0" /\ at = "idle" /\ pend = {}
      /\ boot' = "done" /\ at' = "idle" /\ pend' = {}
      /\ port' = port /\ last' = last /\ nba' = nba
      /\ next' = inst'.out /\ out' = inst'.out
      /\ TraceDump(inst')
  BY DEF InitialInit, ActiveIdle
<1>2. inst \in Instance /\ port \in InputWords
  BY DEF IInv, TypeOK
<1>3. PICK q0 \in InitialQ("zero", TRUE) : inst' = InstanceInit(inst, q0, port)
  BY DEF InitialInit
<1>4. q0 \in FlopWords
  BY <1>3, InitialQType
<1> DEFINE j == InstanceInit(inst, q0, port)
<1>a. /\ j \in Instance
      /\ j.in = port
      /\ j.q = [f \in Flop |-> IF HeldInReset(port, f) THEN ResetValue[f] ELSE q0[f]]
      /\ j.d = NextD(j.in, j.q) /\ j.out = OutputOf(j.in, j.q)
  BY <1>2, <1>4, InstanceInitResult
<1>b. inst' = j
  BY <1>3
<1> HIDE DEF j
<1>5. /\ inst' \in Instance
      /\ inst'.in = port
      /\ inst'.q = [f \in Flop |-> IF HeldInReset(port, f) THEN ResetValue[f] ELSE q0[f]]
      /\ inst'.d = NextD(inst'.in, inst'.q) /\ inst'.out = OutputOf(inst'.in, inst'.q)
  BY <1>a, <1>b
<1>6. /\ DOMAIN dumps' \subseteq Time /\ dumps' \in [DOMAIN dumps' -> Snapshot]
      /\ pending' \in Time \cup {NoTime} /\ fatal' \in BOOLEAN
  BY <1>1, <1>5, TraceDumpType DEF IInv
<1>7. inst'.out \in OutputWords
  BY <1>5 DEF Instance
<1>8. TypeOK'
  BY <1>1, <1>5, <1>6, <1>7 DEF IInv, TypeOK, InitialInit
<1>9. BlockRuns' /\ CommitsSoFar' /\ NothingOwed' /\ FlopsSoFar'
  BY <1>1 DEF BlockRuns, CommitsSoFar, NothingOwed, FlopsSoFar
<1>10. \A s \in Source : last'[s] = port'[s]
  BY <1>1 DEF IInv, LevelsNoted
<1>11. LevelsNoted'
  BY <1>1, <1>10 DEF LevelsNoted
<1>12. LevelsStored' /\ DataStored'
  BY <1>1, <1>5, <1>10 DEF LevelsStored, DataStored
<1>13. ResetHolds'
  BY <1>5 DEF ResetHolds
<1>14. SettledUnlessDirty'
  BY <1>5 DEF SettledUnlessDirty, Settled
<1>15. nba' = NoOutputs
  BY <1>1 DEF IInv, RegisteredShown, Running
<1>16. RegisteredShown'
  BY <1>1, <1>5, <1>15 DEF RegisteredShown, Showing
<1> QED
  BY <1>8, <1>9, <1>11, <1>12, <1>13, <1>14, <1>16 DEF IInv

\* Destroying the context evaluates at most once more and moves nothing.
LEMMA FinishIInv ==
    ASSUME IInv, Finish
    PROVE  IInv'
<1>1. /\ boot = "done" /\ at = "idle" /\ pend = {}
      /\ boot' = "final" /\ at' = "idle" /\ pend' = {}
      /\ port' = port /\ last' = last /\ nba' = nba /\ out' = out
      /\ toDo' = toDo /\ need' = need /\ next' = next /\ pre' = pre /\ now' = now
      /\ fatal' = fatal
  BY DEF Finish, Quiet, ActiveIdle
<1>2. inst \in Instance /\ port \in InputWords /\ inst.q \in FlopWords
  BY DEF IInv, TypeOK, Instance
<1>3. /\ inst' \in Instance /\ inst'.in = inst.in /\ inst'.q = inst.q
      /\ (~inst.dirty => Settled(inst)) /\ ~inst'.dirty => Settled(inst')
  BY <1>2, EvaluateResult DEF Finish, Settled
<1>4. /\ DOMAIN truth' \subseteq Time
      /\ truth' \in [DOMAIN truth' -> Snapshot]
  BY <1>2, ObservedType, UpsertType DEF IInv, TypeOK, Finish
<1>5. /\ DOMAIN dumps' \subseteq Time /\ dumps' \in [DOMAIN dumps' -> Snapshot]
      /\ pending' \in Time \cup {NoTime}
  <2>1. CASE Tracing /\ pending # NoTime
    <3>1. pending \in Time /\ pending' = NoTime
      BY <2>1 DEF IInv, TypeOK, Finish
    <3>2. Shown(inst') \in Snapshot
      BY <1>3, ShownType
    <3> QED
      BY <2>1, <3>1, <3>2, UpsertType DEF IInv, TypeOK, Finish, DumpAt
  <2>2. CASE ~(Tracing /\ pending # NoTime)
    BY <2>2 DEF IInv, TypeOK, Finish
  <2> QED BY <2>1, <2>2
<1>6. TypeOK'
  BY <1>1, <1>3, <1>4, <1>5 DEF IInv, TypeOK
<1>7. BlockRuns' /\ LevelsNoted' /\ CommitsSoFar' /\ NothingOwed' /\ FlopsSoFar'
  BY <1>1 DEF BlockRuns, LevelsNoted, CommitsSoFar, NothingOwed, FlopsSoFar
<1>8. LevelsStored' /\ DataStored'
  BY <1>1, <1>3 DEF IInv, LevelsStored, DataStored, Running
<1>9. ResetHolds' /\ SettledUnlessDirty'
  BY <1>1, <1>3 DEF IInv, ResetHolds, SettledUnlessDirty, Running
<1>10. RegisteredShown'
  BY <1>1, <1>3 DEF IInv, RegisteredShown, Showing, Running
<1> QED
  BY <1>6, <1>7, <1>8, <1>9, <1>10 DEF IInv

-----------------------------------------------------------------------------
(* The blocks that record data inputs.                                     *)

\* A block that brings the stored data inputs up to the ports keeps what the
\* invariant says of the instance: it moves no flop and no source word, so no
\* registered output is left behind.
LEMMA DataRecorded ==
    ASSUME IInv, boot = "done", at = "idle", at' # "commit",
           inst' \in Instance, inst'.q = inst.q,
           \A x \in Data : inst'.in[x] = port[x],
           \A s \in Source : inst'.in[s] = inst.in[s],
           ~inst'.dirty /\ (~inst.dirty => Settled(inst)) => Settled(inst'),
           \A o \in Output \ CombOutput : out'[o] = out[o],
           UNCHANGED <<port, boot, last, nba>>
    PROVE  /\ LevelsStored' /\ DataStored' /\ ResetHolds' /\ SettledUnlessDirty'
           /\ CommitsSoFar' /\ NothingOwed' /\ FlopsSoFar' /\ RegisteredShown'
<1>1. LevelsStored' /\ DataStored'
  BY DEF IInv, LevelsStored, DataStored, Running
<1>2. \A f \in Flop : HeldInReset(inst'.in, f) => HeldInReset(inst.in, f)
  BY ResetsAreSources DEF HeldInReset, ResetActive
<1>3. ResetHolds'
  BY <1>2 DEF IInv, ResetHolds, Running
<1>4. SettledUnlessDirty'
  BY DEF IInv, SettledUnlessDirty, Running
<1>5. CommitsSoFar' /\ NothingOwed' /\ FlopsSoFar'
  BY DEF CommitsSoFar, NothingOwed, FlopsSoFar
<1>6. inst.in \in InputWords /\ inst'.in \in InputWords /\ inst.q \in FlopWords
  BY DEF IInv, TypeOK, Instance
<1>7. \A o \in Output \ CombOutput :
          OutputOf(inst'.in, inst'.q)[o] = OutputOf(inst.in, inst.q)[o]
  BY <1>6, ConesAreSound
<1>8. \A o \in Output \ CombOutput : Showing'[o] = Showing[o]
  BY DEF Showing
<1>9. RegisteredShown'
  BY <1>7, <1>8 DEF IInv, RegisteredShown, Running
<1> QED
  BY <1>1, <1>3, <1>4, <1>5, <1>9

\* The combinational refresh stores the data inputs and settles on them; it moves
\* no flop and no source word, and only combinational outputs.
LEMMA CombRefreshResult ==
    ASSUME IInv, CombRefresh, boot = "done"
    PROVE  /\ inst' \in Instance /\ inst'.q = inst.q /\ Settled(inst')
           /\ \A x \in Data : inst'.in[x] = port[x]
           /\ \A s \in Source : inst'.in[s] = inst.in[s]
           /\ next' = inst'.out
           /\ out' = [o \in Output |-> IF o \in CombOutput THEN inst'.out[o] ELSE out[o]]
<1> DEFINE j == RecordInputs(inst, DataPorts)
<1>1. /\ inst' = Evaluate(j) /\ next' = inst'.out
      /\ out' = [o \in Output |-> IF o \in CombOutput THEN inst'.out[o] ELSE out[o]]
  BY DEF CombRefresh, SetInputs
<1>2. DataPorts \in [Data -> Value] /\ Data \in SUBSET Input /\ inst \in Instance
  BY DataPortsType DEF IInv, TypeOK
<1>3. /\ j \in Instance /\ j.q = inst.q
      /\ \A k \in Input : j.in[k] = IF k \in Data THEN DataPorts[k] ELSE inst.in[k]
  BY <1>2, RecordInputsResult
<1> HIDE DEF j
<1>4. inst' \in Instance /\ inst'.in = j.in /\ inst'.q = inst.q /\ Settled(inst')
  BY <1>1, <1>3, EvaluateResult DEF Settled
<1>5. \A x \in Data : inst'.in[x] = port[x]
  BY <1>2, <1>3, <1>4 DEF DataPorts
<1>6. \A s \in Source : inst'.in[s] = inst.in[s]
  BY <1>3, <1>4, InputRolesDisjoint DEF Source, Input
<1> QED
  BY <1>1, <1>4, <1>5, <1>6

\* The combinational refresh preserves the invariant.
LEMMA CombRefreshIInv ==
    ASSUME IInv, CombRefresh
    PROVE  IInv'
<1>1. /\ at = "idle" /\ at' = "idle" /\ pend' = pend \ {"comb"} /\ "comb" \in pend
      /\ UNCHANGED <<now, port, boot, last, toDo, need, nba, trace, truth, pre>>
  BY DEF CombRefresh
<1>2. inst \in Instance /\ boot # "final"
  BY <1>1 DEF IInv, TypeOK, BlockRuns
<1>3. BlockRuns' /\ LevelsNoted'
  BY <1>1, <1>2 DEF IInv, BlockRuns, LevelsNoted
<1>4. CASE boot = "done"
  <2>4. /\ inst' \in Instance /\ inst'.q = inst.q /\ Settled(inst')
        /\ \A x \in Data : inst'.in[x] = port[x]
        /\ \A s \in Source : inst'.in[s] = inst.in[s]
        /\ next' = inst'.out
        /\ out' = [o \in Output |-> IF o \in CombOutput THEN inst'.out[o] ELSE out[o]]
    BY <1>4, CombRefreshResult
  <2>8. out' \in OutputWords /\ next' \in OutputWords
    BY <2>4 DEF IInv, TypeOK, Instance, OutputWords
  <2>9. TypeOK'
    BY <1>1, <2>4, <2>8 DEF IInv, TypeOK, trace
  <2>10. \A o \in Output \ CombOutput : out'[o] = out[o]
    BY <2>4
  <2>11. /\ LevelsStored' /\ DataStored' /\ ResetHolds' /\ SettledUnlessDirty'
         /\ CommitsSoFar' /\ NothingOwed' /\ FlopsSoFar' /\ RegisteredShown'
    BY <1>1, <1>4, <2>4, <2>10, DataRecorded
  <2> QED BY <1>3, <2>9, <2>11 DEF IInv
<1>5. CASE boot # "done"
  <2>1. UNCHANGED <<inst, next, out>>
    BY <1>5 DEF CombRefresh
  <2>2. TypeOK'
    BY <1>1, <2>1 DEF IInv, TypeOK, trace
  <2>3. /\ LevelsStored' /\ DataStored' /\ ResetHolds' /\ SettledUnlessDirty'
        /\ CommitsSoFar' /\ NothingOwed' /\ FlopsSoFar'
    BY <1>1, <1>2, <1>5, <2>1 DEF LevelsStored, DataStored, ResetHolds,
       SettledUnlessDirty, CommitsSoFar, NothingOwed, FlopsSoFar, Running
  <2>4. RegisteredShown'
    BY <1>1, <1>2, <1>5, <2>1 DEF IInv, RegisteredShown, Running
  <2> QED BY <1>3, <2>2, <2>3, <2>4 DEF IInv
<1> QED
  BY <1>4, <1>5

\* The record block preserves the invariant.
LEMMA RecordBlockIInv ==
    ASSUME IInv, RecordBlock
    PROVE  IInv'
<1>1. /\ at = "idle" /\ at' = "idle" /\ pend' = pend \ {"record"} /\ "record" \in pend
      /\ UNCHANGED <<now, port, out, boot, last, toDo, need, next, nba, truth, pre>>
  BY DEF RecordBlock
<1>2. boot # "final" /\ TypeOK
  BY <1>1 DEF IInv, BlockRuns
<1>3. BlockRuns' /\ LevelsNoted'
  BY <1>1, <1>2 DEF IInv, BlockRuns, LevelsNoted
<1>4. CASE boot = "done"
  <2>1. RecordInputValues
    BY <1>4 DEF RecordBlock
  <2>2. /\ inst' \in Instance
        /\ DOMAIN dumps' \subseteq Time /\ dumps' \in [DOMAIN dumps' -> Snapshot]
        /\ pending' \in Time \cup {NoTime}
        /\ fatal' \in BOOLEAN
        /\ inst'.q = inst.q
        /\ \A x \in Data : inst'.in[x] = port[x]
        /\ \A s \in Source : inst'.in[s] = inst.in[s]
        /\ ~inst'.dirty /\ (~inst.dirty => Settled(inst)) => Settled(inst')
    BY <1>2, <2>1, RecordResult
  <2>3. TypeOK'
    BY <1>1, <2>2 DEF IInv, TypeOK
  <2>4. /\ LevelsStored' /\ DataStored' /\ ResetHolds' /\ SettledUnlessDirty'
        /\ CommitsSoFar' /\ NothingOwed' /\ FlopsSoFar' /\ RegisteredShown'
    BY <1>1, <1>4, <2>2, DataRecorded
  <2> QED BY <1>3, <2>3, <2>4 DEF IInv
<1>5. CASE boot # "done"
  <2>1. UNCHANGED <<inst, trace>>
    BY <1>5 DEF RecordBlock
  <2>2. TypeOK'
    BY <1>1, <2>1 DEF IInv, TypeOK, trace
  <2>3. /\ LevelsStored' /\ DataStored' /\ ResetHolds' /\ SettledUnlessDirty'
        /\ CommitsSoFar' /\ NothingOwed' /\ FlopsSoFar'
    BY <1>1, <1>2, <1>5, <2>1 DEF LevelsStored, DataStored, ResetHolds,
       SettledUnlessDirty, CommitsSoFar, NothingOwed, FlopsSoFar, Running
  <2>4. RegisteredShown'
    BY <1>1, <1>2, <1>5, <2>1 DEF IInv, RegisteredShown, Running
  <2> QED BY <1>3, <2>2, <2>3, <2>4 DEF IInv
<1> QED
  BY <1>4, <1>5

-----------------------------------------------------------------------------
(* The edge block.                                                         *)

\* The edge block notes what changed and records the data inputs; with no data
\* input there is nothing to record.
LEMMA EdgeStartResult ==
    ASSUME TypeOK, EdgeStart, boot = "done"
    PROVE  /\ toDo' = {s \in Source : port[s] # last[s]} /\ at' = "settle" /\ last' = last
           /\ inst' \in Instance
           /\ DOMAIN dumps' \subseteq Time /\ dumps' \in [DOMAIN dumps' -> Snapshot]
           /\ pending' \in Time \cup {NoTime}
           /\ fatal' \in BOOLEAN
           /\ inst'.q = inst.q
           /\ \A x \in Data : inst'.in[x] = port[x]
           /\ \A s \in Source : inst'.in[s] = inst.in[s]
           /\ ~inst'.dirty /\ (~inst.dirty => Settled(inst)) => Settled(inst')
<1>1. /\ toDo' = {s \in Source : port[s] # last[s]} /\ at' = "settle" /\ last' = last
      /\ IF Data # {} THEN RecordInputValues ELSE UNCHANGED <<inst, trace>>
  BY DEF EdgeStart
<1>2. CASE Data # {}
  BY <1>1, <1>2, RecordResult
<1>3. CASE Data = {}
  BY <1>1, <1>3 DEF TypeOK, trace
<1> QED
  BY <1>1, <1>2, <1>3

\* The record call of the edge block preserves the invariant.
LEMMA EdgeStartIInv ==
    ASSUME IInv, EdgeStart
    PROVE  IInv'
<1>1. /\ at = "idle" /\ "edge" \in pend /\ pend' = pend \ {"edge"}
      /\ UNCHANGED <<now, port, out, boot, need, next, nba, truth, pre>>
  BY DEF EdgeStart
<1>2. boot # "final" /\ TypeOK
  BY <1>1 DEF IInv, BlockRuns
<1>3. CASE boot = "done"
  <2>1. toDo' = {s \in Source : port[s] # last[s]} /\ at' = "settle" /\ last' = last
    BY <1>2, <1>3, EdgeStartResult
  <2>2. /\ inst' \in Instance
        /\ DOMAIN dumps' \subseteq Time /\ dumps' \in [DOMAIN dumps' -> Snapshot]
        /\ pending' \in Time \cup {NoTime}
        /\ fatal' \in BOOLEAN
        /\ inst'.q = inst.q
        /\ \A x \in Data : inst'.in[x] = port[x]
        /\ \A s \in Source : inst'.in[s] = inst.in[s]
        /\ ~inst'.dirty /\ (~inst.dirty => Settled(inst)) => Settled(inst')
    BY <1>2, <1>3, EdgeStartResult
  <2>3. TypeOK'
    BY <1>1, <2>1, <2>2 DEF IInv, TypeOK
  <2>4. BlockRuns' /\ LevelsNoted'
    BY <1>1, <1>3, <2>1 DEF BlockRuns, LevelsNoted
  <2>5. /\ LevelsStored' /\ DataStored' /\ ResetHolds' /\ SettledUnlessDirty'
        /\ CommitsSoFar' /\ NothingOwed' /\ FlopsSoFar' /\ RegisteredShown'
    BY <1>1, <1>3, <2>1, <2>2, DataRecorded
  <2> QED BY <2>3, <2>4, <2>5 DEF IInv
<1>4. CASE boot # "done"
  <2>1. last' = [s \in Source |-> port[s]] /\ UNCHANGED <<toDo, inst, trace, at>>
    BY <1>4 DEF EdgeStart
  <2>2. last' \in [Source -> Level]
    BY <1>2, <2>1 DEF TypeOK
  <2>3. TypeOK'
    BY <1>1, <2>1, <2>2 DEF IInv, TypeOK, trace
  <2>4. BlockRuns' /\ LevelsNoted'
    BY <1>1, <1>2, <1>4, <2>1 DEF BlockRuns, LevelsNoted
  <2>5. /\ LevelsStored' /\ DataStored' /\ ResetHolds' /\ SettledUnlessDirty'
        /\ CommitsSoFar' /\ NothingOwed' /\ FlopsSoFar'
    BY <1>1, <1>2, <1>4, <2>1 DEF LevelsStored, DataStored, ResetHolds,
       SettledUnlessDirty, CommitsSoFar, NothingOwed, FlopsSoFar, Running
  <2>6. RegisteredShown'
    BY <1>1, <1>2, <1>4, <2>1 DEF IInv, RegisteredShown, Running
  <2> QED BY <2>3, <2>4, <2>5, <2>6 DEF IInv
<1> QED
  BY <1>3, <1>4

\* After settle_if_dirty the words are settled, whether or not it evaluated.
LEMMA EdgeSettleIfDirtyIInv ==
    ASSUME IInv, EdgeSettleIfDirty
    PROVE  IInv'
<1>1. /\ at = "settle" /\ at' = "commit" /\ boot = "done" /\ boot' = boot
      /\ next' = inst'.out /\ pre' = inst' /\ inst' = SettleIfDirty(inst)
      /\ need' = Tracing
      /\ UNCHANGED <<now, port, out, last, pend, toDo, nba, trace, truth>>
  BY DEF EdgeSettleIfDirty, IInv, BlockRuns
<1>2. inst \in Instance
  BY DEF IInv, TypeOK
<1>3. /\ inst' \in Instance /\ inst'.in = inst.in /\ inst'.q = inst.q
      /\ inst'.dirty = FALSE /\ Settled(inst')
  <2>1. CASE inst.dirty
    BY <1>1, <1>2, <2>1, EvaluateResult DEF SettleIfDirty, Settled
  <2>2. CASE ~inst.dirty
    <3>1. Settled(inst)
      BY <1>1, <2>2 DEF IInv, SettledUnlessDirty, Running
    <3>2. inst.dirty = FALSE
      BY <1>2, <2>2 DEF Instance
    <3> QED
      BY <1>1, <1>2, <2>2, <3>1, <3>2 DEF SettleIfDirty
  <2> QED BY <2>1, <2>2
<1>4. TypeOK'
  BY <1>1, <1>3, WrapperConstants DEF IInv, TypeOK, trace, Instance
<1>5. BlockRuns' /\ LevelsNoted'
  BY <1>1 DEF IInv, BlockRuns, LevelsNoted
<1>6. LevelsStored' /\ DataStored'
  BY <1>1, <1>3 DEF IInv, LevelsStored, DataStored, Running
<1>7. ResetHolds' /\ SettledUnlessDirty'
  BY <1>1, <1>3 DEF IInv, ResetHolds, SettledUnlessDirty, Running
<1>8. \A s \in Source : inst'.in[s] \in Level
  BY <1>1, <1>3 DEF IInv, TypeOK, LevelsStored, Running
<1>9. CommitsSoFar' /\ NothingOwed'
  BY <1>1, <1>3, <1>8 DEF CommitsSoFar, NothingOwed
<1>10. FlopsSoFar'
  <2>1. \A f \in Flop : HeldInReset(inst'.in, f) => inst'.q[f] = ResetValue[f]
    BY <1>1, <1>7 DEF ResetHolds, Running
  <2>2. \A f \in Flop : ~Rtl!Clocked(inst'.in, inst'.in, f)
    BY DEF Rtl!Clocked
  <2>3. inst'.q = [f \in Flop |-> inst'.q[f]]
    BY <1>3 DEF Instance, FlopWords
  <2> QED
    BY <1>1, <2>1, <2>2, <2>3 DEF FlopsSoFar
<1>11. RegisteredShown'
  BY <1>1 DEF RegisteredShown, Running
<1> QED
  BY <1>4, <1>5, <1>6, <1>7, <1>9, <1>10, <1>11 DEF IInv

\* An edge is sent to a domain of its clock, and to the edge's own if the clock
\* has it (runtimeClockForPortEdge).
LEMMA DomainForEdgeResult ==
    ASSUME NEW c \in Clock, NEW edge \in Level
    PROVE  /\ DomainForEdge(c, edge) \in Domain
           /\ DomainForEdge(c, edge)[1] = c
           /\ \A dom \in Domain :
                 dom[1] = c /\ dom[2] = edge
                 <=> edge = DomainForEdge(c, edge)[2] /\ dom = DomainForEdge(c, edge)
<1>1. \A dom \in Domain : dom = <<dom[1], dom[2]>> /\ dom[2] \in {0, 1}
  BY DomainsOfClocks DEF Level
<1>2. CASE <<c, edge>> \in Domain
  BY <1>1, <1>2 DEF DomainForEdge
<1>3. CASE <<c, edge>> \notin Domain
  <2>1. PICK e \in Level : <<c, e>> \in Domain
    BY DomainsOfClocks
  <2>2. e = 1 - edge
    BY <1>3, <2>1 DEF Level
  <2>3. DomainForEdge(c, edge) = <<c, 1 - edge>> /\ 1 - edge # edge
    BY <1>3 DEF DomainForEdge, Level
  <2> QED
    BY <1>1, <1>3, <2>1, <2>2, <2>3
<1> QED
  BY <1>2, <1>3

\* A clock commit keeps every flop where the edges committed so far put it: its
\* resets still read as before the instant, so exactly the unheld flops of the
\* clock's own domain take the pre-edge D.
LEMMA EdgeCommitClockIInv ==
    ASSUME IInv, NEW c \in Clock, EdgeCommitClock(c)
    PROVE  IInv'
<1> DEFINE dom == DomainForEdge(c, port[c])
<1>1. /\ at = "commit" /\ at' = at /\ boot = "done" /\ boot' = boot
      /\ c \in toDo /\ toDo' = toDo \ {c} /\ c \in Source
      /\ inst' = CommitClock(inst, dom, port[c], NoUpdates)
      /\ need' = (need \/ dom[2] = port[c] \/ c \in DrivesLogic)
      /\ last' = [last EXCEPT ![c] = port[c]]
      /\ UNCHANGED <<now, port, out, pend, next, nba, trace, truth, pre>>
  BY DEF EdgeCommitClock, IInv, BlockRuns, Source
<1>2. inst \in Instance /\ pre \in Instance /\ port[c] \in Level /\ TypeOK
  BY <1>1 DEF IInv, TypeOK
<1>3. /\ dom \in Domain /\ dom[1] = c
      /\ \A d \in Domain : d[1] = c /\ d[2] = port[c] <=> port[c] = dom[2] /\ d = dom
  BY <1>2, DomainForEdgeResult
<1> HIDE DEF dom
<1>4. /\ inst' \in Instance
      /\ inst'.d = inst.d /\ inst'.out = inst.out /\ inst'.dirty = inst.dirty
      /\ inst'.in = [inst.in EXCEPT ![c] = port[c]]
      /\ inst'.q = [f \in Flop |->
           IF port[c] = dom[2] /\ FlopDomain[f] = dom /\ ~HeldInReset(inst'.in, f)
           THEN inst.d[f] ELSE inst.q[f]]
  BY <1>1, <1>2, <1>3, CommitClockResult
<1>5. inst.in \in InputWords /\ c \in Input
  BY <1>2 DEF Instance, Input
<1>6. inst'.in[c] = port[c] /\ \A k \in Input \ {c} : inst'.in[k] = inst.in[k]
  BY <1>4, <1>5 DEF InputWords
<1>7. /\ Settled(pre) /\ inst.d = pre.d /\ inst.out = pre.out /\ inst.dirty = FALSE
      /\ \A x \in Data : inst.in[x] = pre.in[x]
      /\ \A s \in Source : pre.in[s] \in Level
      /\ \A s \in toDo : inst.in[s] = pre.in[s]
      /\ \A r \in Reset : inst.in[r] = pre.in[r]
  BY <1>1 DEF IInv, CommitsSoFar
<1>8. pre.in[c] # port[c]
  BY <1>1, <1>7 DEF IInv, LevelsNoted, LevelsStored, Running
<1>9. \A r \in Reset : r \in Input \ {c}
  BY InputRolesDisjoint DEF Input
<1>10. \A f \in Flop : /\ HeldInReset(inst'.in, f) <=> HeldInReset(pre.in, f)
                       /\ HeldInReset(inst.in, f) <=> HeldInReset(pre.in, f)
  BY <1>6, <1>7, <1>9, ResetsAreSources DEF HeldInReset, ResetActive
<1>11. TypeOK'
  <2>1. last' \in [Source -> Level] /\ need' \in BOOLEAN /\ toDo' \subseteq Source
    BY <1>1, <1>2 DEF TypeOK
  <2> QED
    BY <1>1, <1>2, <1>4, <2>1 DEF TypeOK, trace
<1>12. BlockRuns'
  BY <1>1 DEF IInv, BlockRuns
<1>13. LevelsNoted' /\ LevelsStored'
  <2>1. last'[c] = port[c] /\ \A s \in Source \ {c} : last'[s] = last[s]
    BY <1>1, <1>2 DEF TypeOK
  <2>2. LevelsNoted'
    BY <1>1, <2>1 DEF IInv, LevelsNoted
  <2>3. LevelsStored'
    BY <1>1, <1>6, <2>1 DEF IInv, LevelsStored, Running, Source, Input
  <2> QED BY <2>2, <2>3
<1>14. \A x \in Data : x \in Input \ {c}
  BY InputRolesDisjoint DEF Input
<1>15. DataStored'
  BY <1>1, <1>6, <1>14 DEF IInv, DataStored, Running
<1>16. CommitsSoFar'
  BY <1>1, <1>4, <1>6, <1>7, <1>9, <1>14 DEF CommitsSoFar, IInv, TypeOK, Source, Input
<1>17. FlopsSoFar'
  <2>1. ASSUME NEW f \in Flop
        PROVE  inst'.q[f] =
                 IF HeldInReset(pre.in, f) \/ HeldInReset(inst'.in, f) THEN ResetValue[f]
                 ELSE IF Rtl!Clocked(pre.in, inst'.in, f) THEN pre.d[f]
                 ELSE pre.q[f]
    <3>1. inst.q[f] = IF HeldInReset(pre.in, f) THEN ResetValue[f]
                      ELSE IF Rtl!Clocked(pre.in, inst.in, f) THEN pre.d[f]
                      ELSE pre.q[f]
      BY <1>1, <1>10 DEF IInv, FlopsSoFar
    <3>2. FlopDomain[f] \in Domain /\ FlopDomain[f][1] \in Input
      BY FlopsAreBound, DomainsOfClocks DEF Input
    <3>3. inst'.q[f] = IF port[c] = dom[2] /\ FlopDomain[f] = dom /\ ~HeldInReset(inst'.in, f)
                       THEN inst.d[f] ELSE inst.q[f]
      BY <1>4
    <3>4. CASE FlopDomain[f][1] = c
      <4>1. ~Rtl!Clocked(pre.in, inst.in, f)
        BY <1>1, <1>7, <3>4 DEF Rtl!Clocked
      <4>2. Rtl!Clocked(pre.in, inst'.in, f) <=> port[c] = FlopDomain[f][2]
        BY <1>6, <1>8, <3>4 DEF Rtl!Clocked
      <4>3. port[c] = FlopDomain[f][2] <=> port[c] = dom[2] /\ FlopDomain[f] = dom
        BY <1>3, <3>2, <3>4
      <4> QED
        BY <1>7, <1>10, <3>1, <3>3, <4>1, <4>2, <4>3
    <3>5. CASE FlopDomain[f][1] # c
      <4>1. Rtl!Clocked(pre.in, inst'.in, f) <=> Rtl!Clocked(pre.in, inst.in, f)
        BY <1>6, <3>2, <3>5 DEF Rtl!Clocked
      <4>2. FlopDomain[f] # dom
        BY <1>3, <3>5
      <4> QED
        BY <1>10, <3>1, <3>3, <4>1, <4>2
    <3> QED BY <3>4, <3>5
  <2>2. inst'.q = [f \in Flop |-> inst'.q[f]]
    BY <1>4 DEF Instance, FlopWords
  <2> QED
    BY <1>1, <2>1, <2>2 DEF FlopsSoFar
<1>18. ResetHolds'
  BY <1>1, <1>4, <1>10 DEF IInv, ResetHolds, Running
<1>19. NothingOwed'
  <2>1. SUFFICES ASSUME ~need' PROVE inst'.q = pre.q /\ \A s \in DrivesLogic : inst'.in[s] = pre.in[s]
    BY <1>1 DEF NothingOwed
  <2>2. ~need /\ dom[2] # port[c] /\ c \notin DrivesLogic
    BY <1>1, <2>1
  <2>3. inst.q = pre.q /\ \A s \in DrivesLogic : inst.in[s] = pre.in[s]
    BY <1>1, <2>2 DEF IInv, NothingOwed
  <2>4. inst'.q = inst.q
    BY <1>2, <1>4, <2>2 DEF Instance, FlopWords
  <2> QED
    BY <1>6, <2>2, <2>3, <2>4, WrapperConstants DEF Source, Input
<1>20. SettledUnlessDirty'
  BY <1>1 DEF SettledUnlessDirty
<1>21. RegisteredShown'
  BY <1>1 DEF IInv, RegisteredShown, Running
<1> QED
  BY <1>11, <1>12, <1>13, <1>15, <1>16, <1>17, <1>18, <1>19, <1>20, <1>21 DEF IInv

\* A reset commit keeps them too: an activating edge puts its flops at their
\* reset values, and a flop released by a deactivating one was held before the
\* instant.
LEMMA EdgeCommitResetIInv ==
    ASSUME IInv, NEW r \in Reset, EdgeCommitReset(r)
    PROVE  IInv'
<1>1. /\ at = "commit" /\ at' = at /\ boot = "done" /\ boot' = boot
      /\ r \in toDo /\ toDo' = toDo \ {r} /\ r \in Source
      /\ toDo \cap Clock = {} /\ toDo' \cap Clock = {}
      /\ inst' = CommitReset(inst, r, port[r])
      /\ need' = (need \/ port[r] = ActiveLevel[r] \/ r \in DrivesLogic)
      /\ last' = [last EXCEPT ![r] = port[r]]
      /\ UNCHANGED <<now, port, out, pend, next, nba, trace, truth, pre>>
  BY DEF EdgeCommitReset, IInv, BlockRuns, Source
<1>2. inst \in Instance /\ pre \in Instance /\ port[r] \in Level /\ TypeOK
  BY <1>1 DEF IInv, TypeOK
<1>3. /\ inst' \in Instance
      /\ inst'.d = inst.d /\ inst'.out = inst.out /\ inst'.dirty = inst.dirty
      /\ inst'.in = [inst.in EXCEPT ![r] = port[r]]
      /\ inst'.q = [f \in Flop |->
           IF port[r] = ActiveLevel[r] /\ r \in FlopResets[f]
           THEN ResetValue[f] ELSE inst.q[f]]
  BY <1>1, <1>2, CommitResetResult
<1>4. inst.in \in InputWords /\ r \in Input
  BY <1>2 DEF Instance, Input
<1>5. inst'.in[r] = port[r] /\ \A k \in Input \ {r} : inst'.in[k] = inst.in[k]
  BY <1>3, <1>4 DEF InputWords
<1>6. /\ Settled(pre) /\ inst.d = pre.d /\ inst.out = pre.out /\ inst.dirty = FALSE
      /\ \A x \in Data : inst.in[x] = pre.in[x]
      /\ \A s \in Source : pre.in[s] \in Level
      /\ \A s \in toDo : inst.in[s] = pre.in[s]
  BY <1>1 DEF IInv, CommitsSoFar
<1>7. inst.in[r] = pre.in[r] /\ pre.in[r] # port[r] /\ pre.in[r] \in Level
  BY <1>1, <1>6 DEF IInv, LevelsNoted, LevelsStored, Running
<1>8. ActiveLevel[r] \in Level
  BY FlopsAreBound
<1>9. \A f \in Flop : FlopResets[f] \subseteq Reset /\ FlopResets[f] \subseteq Input
  BY ResetsAreSources DEF Input
<1>10. TypeOK'
  <2>1. last' \in [Source -> Level] /\ need' \in BOOLEAN /\ toDo' \subseteq Source
    BY <1>1, <1>2 DEF TypeOK
  <2> QED
    BY <1>1, <1>2, <1>3, <2>1 DEF TypeOK, trace
<1>11. BlockRuns'
  BY <1>1 DEF IInv, BlockRuns
<1>12. LevelsNoted' /\ LevelsStored'
  <2>1. last'[r] = port[r] /\ \A s \in Source \ {r} : last'[s] = last[s]
    BY <1>1, <1>2 DEF TypeOK
  <2>2. LevelsNoted'
    BY <1>1, <2>1 DEF IInv, LevelsNoted
  <2>3. LevelsStored'
    BY <1>1, <1>5, <2>1 DEF IInv, LevelsStored, Running, Source, Input
  <2> QED BY <2>2, <2>3
<1>13. \A x \in Data : x \in Input \ {r}
  BY InputRolesDisjoint DEF Input
<1>14. DataStored'
  BY <1>1, <1>5, <1>13 DEF IInv, DataStored, Running
<1>15. CommitsSoFar'
  BY <1>1, <1>3, <1>5, <1>6, <1>13 DEF CommitsSoFar, IInv, TypeOK, Source, Input
<1>16. ASSUME NEW f \in Flop
       PROVE  /\ inst'.q[f] = IF HeldInReset(pre.in, f) \/ HeldInReset(inst'.in, f)
                              THEN ResetValue[f]
                              ELSE IF Rtl!Clocked(pre.in, inst'.in, f) THEN pre.d[f]
                              ELSE pre.q[f]
              /\ HeldInReset(inst'.in, f) => inst'.q[f] = ResetValue[f]
  <2>1. /\ inst.q[f] = IF HeldInReset(pre.in, f) \/ HeldInReset(inst.in, f)
                       THEN ResetValue[f]
                       ELSE IF Rtl!Clocked(pre.in, inst.in, f) THEN pre.d[f]
                       ELSE pre.q[f]
        /\ HeldInReset(inst.in, f) => inst.q[f] = ResetValue[f]
    BY <1>1 DEF IInv, FlopsSoFar, ResetHolds, Running
  <2>2. inst'.q[f] = IF port[r] = ActiveLevel[r] /\ r \in FlopResets[f]
                     THEN ResetValue[f] ELSE inst.q[f]
    BY <1>3
  <2>3. FlopDomain[f][1] \in Input \ {r}
    BY FlopsAreBound, DomainsOfClocks, InputRolesDisjoint DEF Input
  <2>4. Rtl!Clocked(pre.in, inst'.in, f) <=> Rtl!Clocked(pre.in, inst.in, f)
    BY <1>5, <2>3 DEF Rtl!Clocked
  <2>5. CASE r \notin FlopResets[f]
    <3>1. HeldInReset(inst'.in, f) <=> HeldInReset(inst.in, f)
      BY <1>5, <1>9, <2>5 DEF HeldInReset, ResetActive
    <3> QED
      BY <2>1, <2>2, <2>4, <2>5, <3>1
  <2>6. CASE r \in FlopResets[f] /\ port[r] = ActiveLevel[r]
    <3>1. HeldInReset(inst'.in, f)
      BY <1>5, <2>6 DEF HeldInReset, ResetActive
    <3> QED
      BY <2>2, <2>6, <3>1
  <2>7. CASE r \in FlopResets[f] /\ port[r] # ActiveLevel[r]
    <3>1. pre.in[r] = ActiveLevel[r]
      BY <1>2, <1>7, <1>8, <2>7 DEF Level
    <3>2. HeldInReset(pre.in, f)
      BY <2>7, <3>1 DEF HeldInReset, ResetActive
    <3> QED
      BY <2>1, <2>2, <2>7, <3>2
  <2> QED
    BY <2>5, <2>6, <2>7
<1>17. FlopsSoFar'
  <2>1. inst'.q = [f \in Flop |-> inst'.q[f]]
    BY <1>3 DEF Instance, FlopWords
  <2> QED
    BY <1>1, <1>16, <2>1 DEF FlopsSoFar
<1>18. ResetHolds'
  BY <1>1, <1>16 DEF ResetHolds
<1>19. NothingOwed'
  <2>1. SUFFICES ASSUME ~need' PROVE inst'.q = pre.q /\ \A s \in DrivesLogic : inst'.in[s] = pre.in[s]
    BY <1>1 DEF NothingOwed
  <2>2. ~need /\ port[r] # ActiveLevel[r] /\ r \notin DrivesLogic
    BY <1>1, <2>1
  <2>3. inst.q = pre.q /\ \A s \in DrivesLogic : inst.in[s] = pre.in[s]
    BY <1>1, <2>2 DEF IInv, NothingOwed
  <2>4. inst'.q = inst.q
    BY <1>2, <1>3, <2>2 DEF Instance, FlopWords
  <2> QED
    BY <1>5, <2>2, <2>3, <2>4, WrapperConstants DEF Source, Input
<1>20. SettledUnlessDirty'
  BY <1>1 DEF SettledUnlessDirty
<1>21. RegisteredShown'
  BY <1>1 DEF IInv, RegisteredShown, Running
<1> QED
  BY <1>10, <1>11, <1>12, <1>14, <1>15, <1>17, <1>18, <1>19, <1>20, <1>21 DEF IInv

\* Finishing without a settle is sound: nothing the logic reads has moved since
\* the instance was settled.
LEMMA EdgeFinishSettles ==
    ASSUME IInv, EdgeFinish
    PROVE  /\ at = "commit" /\ at' = "idle" /\ boot = "done" /\ boot' = boot /\ toDo = {}
           /\ UNCHANGED <<now, port, out, last, pend, toDo, need, truth, pre>>
           /\ inst' \in Instance /\ inst'.in = inst.in /\ inst'.q = inst.q
           /\ Settled(inst') /\ next' = inst'.out /\ nba' = inst'.out
<1>1. /\ at = "commit" /\ at' = "idle" /\ boot = "done" /\ boot' = boot /\ toDo = {}
      /\ inst' = (IF need THEN Settle(inst) ELSE inst)
      /\ next' = (IF need THEN inst'.out ELSE next)
      /\ nba' = next'
      /\ UNCHANGED <<now, port, out, last, pend, toDo, need, truth, pre>>
  BY DEF EdgeFinish, IInv, BlockRuns
<1>2. inst \in Instance /\ pre \in Instance
  BY DEF IInv, TypeOK
<1>3. /\ Settled(pre) /\ inst.d = pre.d /\ inst.out = pre.out
      /\ \A x \in Data : inst.in[x] = pre.in[x]
      /\ next = pre.out
  BY <1>1 DEF IInv, CommitsSoFar, RegisteredShown
<1>4. CASE need
  BY <1>1, <1>2, <1>4, EvaluateResult DEF Settle, Settled
<1>5. CASE ~need
  <2>1. inst.q = pre.q /\ \A s \in Source \cap DrivesLogic : inst.in[s] = pre.in[s]
    BY <1>1, <1>5 DEF IInv, NothingOwed
  <2>2. inst.in \in InputWords /\ pre.in \in InputWords /\ pre.q \in FlopWords
    BY <1>2 DEF Instance
  <2>3. NextD(inst.in, pre.q) = NextD(pre.in, pre.q) /\ OutputOf(inst.in, pre.q) = OutputOf(pre.in, pre.q)
    BY <1>3, <2>1, <2>2, ConesAreSound
  <2>4. Settled(inst)
    BY <1>3, <2>1, <2>3 DEF Settled
  <2> QED
    BY <1>1, <1>2, <1>3, <1>5, <2>4
<1> QED
  BY <1>4, <1>5, <1>1

\* The end of the edge block preserves the invariant.
LEMMA EdgeFinishIInv ==
    ASSUME IInv, EdgeFinish
    PROVE  IInv'
<1>1. /\ at = "commit" /\ at' = "idle" /\ boot = "done" /\ boot' = boot /\ toDo = {}
      /\ UNCHANGED <<now, port, out, last, pend, toDo, need, truth, pre>>
  BY EdgeFinishSettles
<1>2. inst \in Instance /\ TypeOK
  BY DEF IInv, TypeOK
<1>4. /\ inst' \in Instance /\ inst'.in = inst.in /\ inst'.q = inst.q
      /\ Settled(inst') /\ next' = inst'.out /\ nba' = inst'.out
  BY EdgeFinishSettles
<1>5. inst'.out \in OutputWords
  BY <1>4 DEF Instance
<1>6. TraceDump(inst')
  BY DEF EdgeFinish
<1>7. /\ DOMAIN dumps' \subseteq Time /\ dumps' \in [DOMAIN dumps' -> Snapshot]
      /\ pending' \in Time \cup {NoTime} /\ fatal' \in BOOLEAN
  BY <1>2, <1>4, <1>6, TraceDumpType
<1>8. TypeOK'
  BY <1>1, <1>2, <1>4, <1>5, <1>7 DEF TypeOK
<1>9. BlockRuns'
  BY <1>1 DEF IInv, BlockRuns
<1>10. LevelsNoted'
  BY <1>1 DEF IInv, LevelsNoted
<1>11. LevelsStored' /\ DataStored'
  BY <1>1, <1>4 DEF IInv, LevelsStored, DataStored, Running
<1>12. ResetHolds' /\ SettledUnlessDirty'
  BY <1>1, <1>4 DEF IInv, ResetHolds, SettledUnlessDirty, Running
<1>13. CommitsSoFar' /\ NothingOwed' /\ FlopsSoFar'
  BY <1>1 DEF CommitsSoFar, NothingOwed, FlopsSoFar
<1>14. RegisteredShown'
  <2>1. nba' = inst'.out /\ inst'.out = OutputOf(inst'.in, inst'.q)
    BY <1>1, <1>4 DEF Settled
  <2>2. ASSUME NEW o \in Output PROVE nba' # NoOutputs
    BY <1>5, <2>1 DEF OutputWords, NoOutputs
  <2> QED
    BY <1>1, <2>1, <2>2 DEF RegisteredShown, Showing, Running
<1> QED
  BY <1>8, <1>9, <1>10, <1>11, <1>12, <1>13, <1>14 DEF IInv

-----------------------------------------------------------------------------
(* The safety properties.                                                  *)

\* Every step of the wrapper, the simulator and the testbench preserves the
\* invariant.
LEMMA NextIInv ==
    ASSUME IInv, [Next]_vars
    PROVE  IInv'
<1>1. CASE Drive \/ RacyDrive \/ NbaRegion
  BY <1>1, TestbenchIInv
<1>2. CASE Tick
  BY <1>2, TickIInv
<1>3. CASE Finish
  BY <1>3, FinishIInv
<1>4. CASE InitialStart
  BY <1>4, InitialStartIInv
<1>5. CASE InitialInit
  BY <1>5, InitialInitIInv
<1>6. CASE CombRefresh
  BY <1>6, CombRefreshIInv
<1>7. CASE RecordBlock
  BY <1>7, RecordBlockIInv
<1>8. CASE EdgeStart
  BY <1>8, EdgeStartIInv
<1>9. CASE EdgeSettleIfDirty
  BY <1>9, EdgeSettleIfDirtyIInv
<1>10. ASSUME NEW c \in Clock, EdgeCommitClock(c) PROVE IInv'
  BY <1>10, EdgeCommitClockIInv
<1>11. ASSUME NEW r \in Reset, EdgeCommitReset(r) PROVE IInv'
  BY <1>11, EdgeCommitResetIInv
<1>12. CASE EdgeFinish
  BY <1>12, EdgeFinishIInv
<1>13. CASE UNCHANGED vars
  BY <1>13, StutterIInv
<1> QED
  BY <1>1, <1>2, <1>3, <1>4, <1>5, <1>6, <1>7, <1>8, <1>9, <1>10, <1>11, <1>12, <1>13
     DEF Next, EdgeStep

\* The inductive invariant is an invariant, for every design whose
\* combinational cones were soundly computed and every testbench.
THEOREM Inductive == Spec => []IInv
<1>1. IInv /\ [Next]_vars => IInv'
  BY NextIInv
<1> QED
  BY InitIInv, <1>1, PTL DEF Spec

\* The wrapper's variables keep their types.
THEOREM TypeCorrect == Spec => []TypeOK
<1>1. IInv => TypeOK
  BY DEF IInv
<1> QED
  BY Inductive, <1>1, PTL

\* Reset priority: no interleaving of coincident clock and reset commits ever
\* leaves a flop under reset at another value than its reset value.
THEOREM ResetPriority == Spec => []ResetHolds
<1>1. IInv => ResetHolds
  BY DEF IInv
<1> QED
  BY Inductive, <1>1, PTL

\* The commits of every edge block sample a D settled on the inputs and flops
\* of before the instant, although both settles around it are conditional.
THEOREM PreEdgeSampling == Spec => []CommitsReadSettledD
<1>1. IInv => CommitsReadSettledD
  BY DEF IInv, CommitsSoFar, CommitsReadSettledD, Settled
<1> QED
  BY Inductive, <1>1, PTL

\* The dirty flag never lies outside the commits: clear means settled.
THEOREM DirtyFlagSound == Spec => []SettledUnlessDirty
<1>1. IInv => SettledUnlessDirty
  BY DEF IInv
<1> QED
  BY Inductive, <1>1, PTL

\* No change of a port is lost on the way to the instance.
THEOREM NoPortLost == Spec => []PortsStored
<1>1. ASSUME IInv PROVE PortsStored
  <2>1. SUFFICES ASSUME AtRest
                 PROVE  inst.in = port /\ \A s \in Source : last[s] = port[s]
    BY DEF PortsStored
  <2>2. boot = "done" /\ at = "idle" /\ pend = {}
    BY <2>1 DEF AtRest, Quiet, ActiveIdle
  <2>3. \A s \in Source : last[s] = port[s] /\ inst.in[s] = last[s]
    BY <1>1, <2>2 DEF IInv, LevelsNoted, LevelsStored, Running
  <2>4. \A x \in Data : inst.in[x] = port[x]
    BY <1>1, <2>2 DEF IInv, DataStored, Running
  <2>5. inst.in \in [Input -> Value] /\ port \in [Input -> Value]
    BY <1>1 DEF IInv, TypeOK, Instance, InputWords
  <2>6. \A k \in Input : inst.in[k] = port[k]
    BY <2>3, <2>4 DEF Source, Input
  <2> QED
    BY <2>3, <2>5, <2>6
<1> QED
  BY Inductive, <1>1, PTL

\* Registered outputs are never stale at rest, though the edge block refreshes
\* them only after an edge it thinks can matter.
THEOREM RegisteredOutputsNeverStale == Spec => []RegisteredOutputsFresh
<1>1. ASSUME IInv PROVE RegisteredOutputsFresh
  <2>1. SUFFICES ASSUME AtRest, NEW o \in Output \ CombOutput
                 PROVE  out[o] = OutputOf(port, inst.q)[o]
    BY DEF RegisteredOutputsFresh
  <2>2. boot = "done" /\ at = "idle" /\ pend = {} /\ nba = NoOutputs
    BY <2>1 DEF AtRest, Quiet, ActiveIdle
  <2>3. out[o] = OutputOf(inst.in, inst.q)[o]
    BY <1>1, <2>2 DEF IInv, RegisteredShown, Showing, Running
  <2>4. \A s \in Source : inst.in[s] = port[s]
    BY <1>1, <2>2 DEF IInv, LevelsNoted, LevelsStored, Running
  <2>5. inst.in \in InputWords /\ port \in InputWords /\ inst.q \in FlopWords
    BY <1>1 DEF IInv, TypeOK, Instance
  <2>6. OutputOf(inst.in, inst.q)[o] = OutputOf(port, inst.q)[o]
    BY <2>4, <2>5, ConesAreSound
  <2> QED
    BY <2>3, <2>6
<1> QED
  BY Inductive, <1>1, PTL

-----------------------------------------------------------------------------
(* The combinational outputs.                                              *)

\* No blocking assignment to an input of a combinational cone races the edge
\* block's scheduled updates: the testbench the combinational refresh is
\* written for.
ConesNotRaced == RacyInput \cap ConeInput = {}

\* While the refresh block is not woken, and from the edge block's record call
\* until its updates are made, the instance stores the inputs of the cones ...
ConeStored ==
    Running /\ ("comb" \notin pend \/ nba # NoOutputs \/ at # "idle") =>
        \A x \in ConeInput : inst.in[x] = port[x]

\* ... and the combinational outputs show the logic settled on the stored
\* inputs, or will with the scheduled updates.
CombShown ==
    Running /\ at # "commit" /\ ("comb" \notin pend \/ nba # NoOutputs) =>
        \A o \in CombOutput : Showing[o] = OutputOf(inst.in, inst.q)[o]

\* Without a combinational output the refresh block is never woken and neither
\* says anything.
CombInv == CombOutput # {} => ConeStored /\ CombShown

\* A move of ports that leaves the refresh block asleep leaves the cones alone.
LEMMA ConesAsleep ==
    ASSUME CombOutput # {}, NEW p, MoveTo(p), "comb" \notin pend'
    PROVE  "comb" \notin pend /\ \A x \in ConeInput : port'[x] = port[x]
<1>1. port' = p /\ pend' = pend \cup Woken(port, p)
  BY DEF MoveTo
<1>2. ConeInput \subseteq Input
  BY WrapperConstants DEF Input
<1>3. "comb" \notin Woken(port, p)
  BY <1>1
<1>4. {k \in Input : port[k] # p[k]} \cap ConeInput = {}
  BY <1>3 DEF Woken
<1> QED
  BY <1>1, <1>2, <1>4

\* The testbench preserves it.  A racy move comes between the edge block and its
\* updates, but reaches no cone.
LEMMA TestbenchComb ==
    ASSUME ConesNotRaced, CombOutput # {}, IInv, CombInv, Drive \/ RacyDrive \/ NbaRegion
    PROVE  CombInv'
<1>1. at = "idle" /\ at' = "idle" /\ boot' = boot /\ inst' = inst
  BY DEF Drive, RacyDrive, NbaRegion, Quiet, ActiveIdle
<1>2. PICK p : MoveTo(p)
  BY DEF Drive, RacyDrive, NbaRegion
<1>3. CASE Drive \/ NbaRegion
  <2>1. nba' = NoOutputs /\ Showing' = Showing /\ pend = {}
    BY <1>3 DEF Drive, NbaRegion, Quiet, ActiveIdle, Showing
  <2>2. "comb" \notin pend' => \A x \in ConeInput : port'[x] = port[x]
    BY <1>2, ConesAsleep
  <2> QED
    BY <1>1, <2>1, <2>2 DEF CombInv, ConeStored, CombShown, Running
<1>4. CASE RacyDrive
  <2>1. nba' = nba /\ out' = out
    BY <1>4 DEF RacyDrive
  <2>2. PICK r \in Moves(RacyInput) : MoveTo(r)
    BY <1>4 DEF RacyDrive
  <2>3. \A x \in ConeInput : x \in Input \ RacyInput
    BY WrapperConstants DEF ConesNotRaced, Input
  <2>4. \A x \in ConeInput : port'[x] = port[x]
    BY <2>2, <2>3 DEF Moves, MoveTo
  <2>5. "comb" \notin pend' => "comb" \notin pend
    BY <1>2, ConesAsleep
  <2> QED
    BY <1>1, <2>1, <2>4, <2>5 DEF CombInv, ConeStored, CombShown, Showing, Running
<1> QED
  BY <1>3, <1>4

\* A record call outside the refresh block preserves it: where the cones were
\* already stored it moves nothing a combinational output reads.
LEMMA RecordedComb ==
    ASSUME CombOutput # {}, IInv, CombInv, at = "idle", at' # "commit",
           inst' \in Instance, inst'.q = inst.q,
           \A x \in Data : inst'.in[x] = port[x],
           \A s \in Source : inst'.in[s] = inst.in[s],
           "comb" \in pend' <=> "comb" \in pend,
           UNCHANGED <<port, out, boot, nba>>
    PROVE  CombInv'
<1>1. \A x \in ConeInput : inst'.in[x] = port[x]
  BY WrapperConstants
<1>2. ConeStored'
  BY <1>1 DEF ConeStored
<1>3. CombShown'
  <2>1. SUFFICES ASSUME Running, "comb" \notin pend \/ nba # NoOutputs, NEW o \in CombOutput
                 PROVE  Showing[o] = OutputOf(inst'.in, inst'.q)[o]
    BY DEF CombShown, Showing, Running
  <2>2. Showing[o] = OutputOf(inst.in, inst.q)[o]
    BY <2>1 DEF CombInv, CombShown
  <2>3. \A k \in Source \cup ConeInput : inst'.in[k] = inst.in[k]
    BY <1>1, <2>1 DEF CombInv, ConeStored
  <2>4. inst.in \in InputWords /\ inst'.in \in InputWords /\ inst.q \in FlopWords
    BY DEF IInv, TypeOK, Instance
  <2>5. OutputOf(inst'.in, inst.q)[o] = OutputOf(inst.in, inst.q)[o]
    BY <2>3, <2>4, ConesAreSound
  <2> QED
    BY <2>2, <2>5
<1> QED
  BY <1>2, <1>3 DEF CombInv

\* The refresh block preserves it: either its own values stay, or the scheduled
\* updates that will replace them were computed on the same cone inputs.
LEMMA CombRefreshComb ==
    ASSUME CombOutput # {}, IInv, CombInv, CombRefresh, boot = "done"
    PROVE  CombInv'
<1>1. at = "idle" /\ at' = "idle" /\ UNCHANGED <<port, boot, nba>>
  BY DEF CombRefresh
<1>2. /\ inst' \in Instance /\ inst'.q = inst.q /\ Settled(inst')
      /\ \A x \in Data : inst'.in[x] = port[x]
      /\ \A s \in Source : inst'.in[s] = inst.in[s]
      /\ out' = [o \in Output |-> IF o \in CombOutput THEN inst'.out[o] ELSE out[o]]
  BY CombRefreshResult
<1>3. \A x \in ConeInput : inst'.in[x] = port[x]
  BY <1>2, WrapperConstants
<1>4. ConeStored'
  BY <1>1, <1>3 DEF ConeStored
<1>5. CASE nba = NoOutputs
  <2>1. \A o \in CombOutput : Showing'[o] = inst'.out[o]
    BY <1>1, <1>2, <1>5, WrapperConstants DEF Showing
  <2> QED
    BY <1>2, <1>4, <2>1 DEF CombInv, CombShown, Settled
<1>6. CASE nba # NoOutputs
  <2>1. Running
    BY DEF Running
  <2>2. \A k \in Source \cup ConeInput : inst'.in[k] = inst.in[k]
    BY <1>2, <1>3, <1>6, <2>1 DEF CombInv, ConeStored
  <2>3. inst.in \in InputWords /\ inst'.in \in InputWords /\ inst.q \in FlopWords
    BY <1>2 DEF IInv, TypeOK, Instance
  <2>4. \A o \in CombOutput : OutputOf(inst'.in, inst.q)[o] = OutputOf(inst.in, inst.q)[o]
    BY <2>2, <2>3, ConesAreSound
  <2>5. Showing' = Showing
    BY <1>1, <1>6 DEF Showing
  <2> QED
    BY <1>1, <1>2, <1>4, <1>6, <2>1, <2>4, <2>5 DEF CombInv, CombShown
<1> QED
  BY <1>5, <1>6

\* The end of the edge block schedules combinational outputs settled on inputs
\* stored at its start.
LEMMA EdgeFinishComb ==
    ASSUME CombOutput # {}, IInv, CombInv, EdgeFinish
    PROVE  CombInv'
<1>1. /\ at = "commit" /\ boot = "done" /\ UNCHANGED <<port, boot>>
      /\ inst' \in Instance /\ inst'.in = inst.in /\ inst'.q = inst.q
      /\ Settled(inst') /\ nba' = inst'.out
  BY EdgeFinishSettles
<1>2. \A x \in ConeInput : inst'.in[x] = port'[x]
  BY <1>1 DEF CombInv, ConeStored, Running
<1>3. inst'.out \in [Output -> Value] /\ CombOutput \subseteq Output
  BY <1>1, WrapperConstants DEF Instance, OutputWords
<1>4. nba' # NoOutputs
  BY <1>1, <1>3 DEF NoOutputs
<1>5. \A o \in CombOutput : Showing'[o] = OutputOf(inst'.in, inst'.q)[o]
  BY <1>1, <1>4 DEF Showing, Settled
<1> QED
  BY <1>2, <1>5 DEF CombInv, ConeStored, CombShown

\* A commit writes its own source word and no other input.
LEMMA CommitsWriteOneSource ==
    ASSUME NEW i \in Instance, NEW edge \in Level
    PROVE  /\ \A dom \in Domain :
                 CommitClock(i, dom, edge, NoUpdates).in = [i.in EXCEPT ![dom[1]] = edge]
           /\ \A r \in Reset : CommitReset(i, r, edge).in = [i.in EXCEPT ![r] = edge]
<1>1. ASSUME NEW dom \in Domain
      PROVE  CommitClock(i, dom, edge, NoUpdates).in = [i.in EXCEPT ![dom[1]] = edge]
  BY CommitClockResult
<1>2. ASSUME NEW r \in Reset
      PROVE  CommitReset(i, r, edge).in = [i.in EXCEPT ![r] = edge]
  BY CommitResetResult
<1> QED
  BY <1>1, <1>2

\* Every step preserves it.
LEMMA NextComb ==
    ASSUME ConesNotRaced, IInv, CombInv, [Next]_vars
    PROVE  CombInv'
<1> SUFFICES ASSUME CombOutput # {} PROVE CombInv'
  BY DEF CombInv
<1>1. CASE Drive \/ RacyDrive \/ NbaRegion
  BY <1>1, TestbenchComb
<1>2. CASE Tick \/ UNCHANGED vars
  <2>1. UNCHANGED <<port, out, boot, pend, at, nba, inst>>
    BY <1>2 DEF Tick, vars
  <2> QED BY <2>1 DEF CombInv, ConeStored, CombShown, Showing, Running
<1>3. CASE Finish
  <2>1. boot = "done" /\ at = "idle" /\ pend = {} /\ UNCHANGED <<port, out, pend, at, nba>>
    BY <1>3 DEF Finish, Quiet, ActiveIdle
  <2>2. inst'.in = inst.in /\ inst'.q = inst.q
    BY <1>3, EvaluateResult DEF Finish, IInv, TypeOK
  <2> QED BY <2>1, <2>2 DEF CombInv, ConeStored, CombShown, Showing, Running
<1>4. CASE InitialStart
  BY <1>4 DEF InitialStart, CombInv, ConeStored, CombShown, Running
<1>5. CASE InitialInit
  <2>1. /\ boot = "hash0" /\ at' = "idle" /\ UNCHANGED <<port, nba>> /\ out' = inst'.out
    BY <1>5 DEF InitialInit, ActiveIdle
  <2>2. PICK q0 \in InitialQ("zero", TRUE) : inst' = InstanceInit(inst, q0, port)
    BY <1>5 DEF InitialInit
  <2> DEFINE j == InstanceInit(inst, q0, port)
  <2>a. inst \in Instance /\ port \in InputWords /\ q0 \in FlopWords
    BY InitialQType DEF IInv, TypeOK
  <2>b. j.in = port /\ j.out = OutputOf(j.in, j.q)
    BY <2>a, InstanceInitResult
  <2>3. inst'.in = port /\ inst'.out = OutputOf(inst'.in, inst'.q)
    BY <2>2, <2>b
  <2>4. nba' = NoOutputs
    BY <2>1 DEF IInv, RegisteredShown, Running
  <2> QED BY <2>1, <2>3, <2>4 DEF CombInv, ConeStored, CombShown, Showing
<1>6. CASE CombRefresh
  <2>1. CASE boot = "done"
    BY <1>6, <2>1, CombRefreshComb
  <2>2. CASE boot # "done"
    <3>1. ~Running'
      BY <1>6, <2>2 DEF CombRefresh, IInv, BlockRuns, Running
    <3> QED BY <3>1 DEF CombInv, ConeStored, CombShown
  <2> QED BY <2>1, <2>2
<1>7. CASE RecordBlock
  <2>1. /\ at = "idle" /\ at' = "idle" /\ pend' = pend \ {"record"} /\ TypeOK
        /\ UNCHANGED <<port, out, boot, nba>>
    BY <1>7 DEF RecordBlock, IInv
  <2>2. CASE boot = "done"
    <3>1. RecordInputValues
      BY <1>7, <2>2 DEF RecordBlock
    <3>2. /\ inst' \in Instance /\ inst'.q = inst.q
          /\ \A x \in Data : inst'.in[x] = port[x]
          /\ \A s \in Source : inst'.in[s] = inst.in[s]
      BY <2>1, <3>1, RecordResult
    <3> QED BY <2>1, <3>2, RecordedComb
  <2>3. CASE boot # "done"
    <3>1. ~Running'
      BY <1>7, <2>1, <2>3 DEF RecordBlock, IInv, BlockRuns, Running
    <3> QED BY <3>1 DEF CombInv, ConeStored, CombShown
  <2> QED BY <2>2, <2>3
<1>8. CASE EdgeStart
  <2>1. /\ at = "idle" /\ pend' = pend \ {"edge"} /\ TypeOK /\ "edge" \in pend
        /\ UNCHANGED <<port, out, boot, nba>>
    BY <1>8 DEF EdgeStart, IInv
  <2>2. CASE boot = "done"
    <3>1. /\ at' = "settle" /\ inst' \in Instance /\ inst'.q = inst.q
          /\ \A x \in Data : inst'.in[x] = port[x]
          /\ \A s \in Source : inst'.in[s] = inst.in[s]
      BY <1>8, <2>1, <2>2, EdgeStartResult
    <3> QED BY <2>1, <3>1, RecordedComb
  <2>3. CASE boot # "done"
    <3>1. ~Running'
      BY <2>1, <2>3 DEF IInv, BlockRuns, Running
    <3> QED BY <3>1 DEF CombInv, ConeStored, CombShown
  <2> QED BY <2>2, <2>3
<1>9. CASE EdgeSettleIfDirty
  <2>1. /\ at = "settle" /\ at' = "commit" /\ inst' = SettleIfDirty(inst)
        /\ UNCHANGED <<port, boot>>
    BY <1>9 DEF EdgeSettleIfDirty
  <2>2. inst'.in = inst.in
    BY <2>1, EvaluateResult DEF SettleIfDirty, IInv, TypeOK
  <2> QED BY <2>1, <2>2 DEF CombInv, ConeStored, CombShown, Running
<1>10. ASSUME NEW s \in Source, at = "commit", at' = at, UNCHANGED <<port, boot>>,
              inst'.in = [inst.in EXCEPT ![s] = port[s]]
       PROVE  CombInv'
  <2>1. \A x \in ConeInput : inst'.in[x] = inst.in[x]
    BY <1>10, WrapperConstants, InputRolesDisjoint DEF Source, IInv, TypeOK, Instance,
       InputWords, Input
  <2> QED BY <1>10, <2>1 DEF CombInv, ConeStored, CombShown, Running
<1>11. ASSUME NEW c \in Clock, EdgeCommitClock(c) PROVE CombInv'
  <2> DEFINE dom == DomainForEdge(c, port[c])
             j == CommitClock(inst, dom, port[c], NoUpdates)
  <2>1. /\ at = "commit" /\ at' = at /\ UNCHANGED <<port, boot>> /\ c \in Source
        /\ inst' = j
    BY <1>11 DEF EdgeCommitClock, Source
  <2>2. inst \in Instance /\ port[c] \in Level
    BY <2>1 DEF IInv, TypeOK
  <2>3. dom \in Domain /\ dom[1] = c
    BY <2>2, DomainForEdgeResult
  <2> HIDE DEF dom
  <2>4. j.in = [inst.in EXCEPT ![c] = port[c]]
    BY <2>2, <2>3, CommitsWriteOneSource
  <2> HIDE DEF j
  <2> QED BY <2>1, <2>4, <1>10
<1>12. ASSUME NEW r \in Reset, EdgeCommitReset(r) PROVE CombInv'
  <2> DEFINE j == CommitReset(inst, r, port[r])
  <2>1. /\ at = "commit" /\ at' = at /\ UNCHANGED <<port, boot>> /\ r \in Source
        /\ inst' = j
    BY <1>12 DEF EdgeCommitReset, Source
  <2>2. inst \in Instance /\ port[r] \in Level
    BY <2>1 DEF IInv, TypeOK
  <2>3. j.in = [inst.in EXCEPT ![r] = port[r]]
    BY <2>2, CommitsWriteOneSource
  <2> HIDE DEF j
  <2> QED BY <2>1, <2>3, <1>10
<1>13. CASE EdgeFinish
  BY <1>13, EdgeFinishComb
<1> QED
  BY <1>1, <1>2, <1>3, <1>4, <1>5, <1>6, <1>7, <1>8, <1>9, <1>11, <1>12, <1>13
     DEF Next, EdgeStep

\* Combinational outputs are never stale at rest either, whatever order the
\* refresh, record and edge blocks run in, as long as no blocking assignment to
\* an input of a cone races them.
THEOREM CombOutputsNeverStale == ASSUME ConesNotRaced PROVE Spec => []CombOutputsFresh
<1>1. Init => CombInv
  BY DEF Init, CombInv, ConeStored, CombShown, Running
<1>2. IInv /\ CombInv /\ [Next]_vars => CombInv'
  BY NextComb
<1>3. ASSUME IInv, CombInv, PortsStored PROVE CombOutputsFresh
  <2>1. SUFFICES ASSUME AtRest, NEW o \in CombOutput
                 PROVE  out[o] = OutputOf(port, inst.q)[o]
    BY DEF CombOutputsFresh
  <2>2. boot = "done" /\ at = "idle" /\ pend = {} /\ nba = NoOutputs
    BY <2>1 DEF AtRest, Quiet, ActiveIdle
  <2>3. out[o] = OutputOf(inst.in, inst.q)[o]
    BY <1>3, <2>1, <2>2 DEF CombInv, CombShown, Showing, Running
  <2> QED
    BY <1>3, <2>1, <2>3 DEF PortsStored
<1> QED
  BY Inductive, NoPortLost, <1>1, <1>2, <1>3, PTL DEF Spec

-----------------------------------------------------------------------------
(* The wrapper implements RtlSync.                                         *)

\* What RtlSync sees of the instance.
SeenIn == IF at = "commit" THEN pre.in ELSE inst.in
SeenQ == IF at = "commit" THEN pre.q ELSE inst.q

\* RtlSync's reset test is the generated commit functions'.
LEMMA SameResetTest ==
    ASSUME NEW ports, NEW f
    PROVE  Rtl!InReset(ports, f) <=> HeldInReset(ports, f)
BY DEF Rtl!InReset, HeldInReset, ResetActive

\* RtlSync's ports are the wrapper's inputs.
LEMMA SamePorts == Rtl!Port = Input
BY DEF Rtl!Port, Input

\* mate_instance_init is RtlSync's power-up.
LEMMA InitialInitPowersUp ==
    ASSUME IInv, InitialInit
    PROVE  Rtl!PowerUp
<1>1. boot = "hash0" /\ boot' = "done" /\ at' = "idle"
  BY DEF InitialInit, ActiveIdle
<1>2. inst \in Instance /\ port \in InputWords
  BY DEF IInv, TypeOK
<1>3. PICK q0 \in InitialQ("zero", TRUE) : inst' = InstanceInit(inst, q0, port)
  BY DEF InitialInit
<1>4. /\ inst'.in = port
      /\ inst'.q = [f \in Flop |-> IF HeldInReset(port, f) THEN ResetValue[f] ELSE q0[f]]
  BY <1>2, <1>3, InitialQType, InstanceInitResult
<1>5. SeenIn' = port /\ SeenQ' = inst'.q
  BY <1>1, <1>4 DEF SeenIn, SeenQ
<1>6. inst'.q = [f \in Flop |-> IF Rtl!InReset(port, f) THEN ResetValue[f] ELSE q0[f]]
  BY <1>4, SameResetTest
<1>7. SeenIn' \in [Rtl!Port -> Value]
  BY <1>2, <1>5, SamePorts DEF InputWords
<1> QED
  BY <1>1, <1>3, <1>5, <1>6, <1>7 DEF Rtl!PowerUp, Running, SeenIn, SeenQ

\* Bringing data inputs to the instance is RtlSync's DataChange.
LEMMA DataReachesRtl ==
    ASSUME IInv, boot = "done", boot' = "done", at # "commit", at' # "commit",
           inst' \in Instance, inst'.q = inst.q,
           \A s \in Source : inst'.in[s] = inst.in[s]
    PROVE  Rtl!DataChange
BY SamePorts DEF Rtl!DataChange, Running, Instance, InputWords, Source

\* The end of the edge block is RtlSync's Instant: all the edges at once.
LEMMA EdgeFinishIsInstant ==
    ASSUME IInv, EdgeFinish
    PROVE  Rtl!Instant
<1>1. /\ at = "commit" /\ at' = "idle" /\ boot = "done" /\ boot' = boot
      /\ inst' = (IF need THEN Settle(inst) ELSE inst)
  BY DEF EdgeFinish, IInv, BlockRuns
<1>2. inst \in Instance /\ inst.in \in InputWords
  BY DEF IInv, TypeOK, Instance
<1>3. inst'.in = inst.in /\ inst'.q = inst.q
  BY <1>1, <1>2, EvaluateResult DEF Settle
<1>4. Settled(pre) /\ \A x \in Data : inst.in[x] = pre.in[x]
  BY <1>1 DEF IInv, CommitsSoFar
<1>5. inst.q = [f \in Flop |->
            IF HeldInReset(pre.in, f) \/ HeldInReset(inst.in, f) THEN ResetValue[f]
            ELSE IF Rtl!Clocked(pre.in, inst.in, f) THEN pre.d[f]
            ELSE pre.q[f]]
  BY <1>1 DEF IInv, FlopsSoFar
<1>6. inst.q = [f \in Flop |->
            IF Rtl!InReset(pre.in, f) \/ Rtl!InReset(inst.in, f) THEN ResetValue[f]
            ELSE IF Rtl!Clocked(pre.in, inst.in, f) THEN NextD(pre.in, pre.q)[f]
            ELSE pre.q[f]]
  BY <1>4, <1>5, SameResetTest DEF Settled
<1>7. SeenIn = pre.in /\ SeenQ = pre.q /\ SeenIn' = inst.in /\ SeenQ' = inst.q
  BY <1>1, <1>3 DEF SeenIn, SeenQ
<1>8. SeenIn' \in [Rtl!Port -> Value]
  BY <1>2, <1>7, SamePorts DEF InputWords
<1> QED
  BY <1>1, <1>4, <1>6, <1>7, <1>8 DEF Rtl!Instant, Running, SeenIn, SeenQ

\* A step that leaves what RtlSync sees alone is a stuttering step of it.
LEMMA UnseenStep ==
    ASSUME UNCHANGED <<SeenIn, SeenQ>>, Running' = Running
    PROVE  UNCHANGED Rtl!vars
BY DEF Rtl!vars, SeenIn, SeenQ

\* Every step of the wrapper is a step of RtlSync or leaves it alone.
LEMMA StepRefines ==
    ASSUME IInv, [Next]_vars
    PROVE  [Rtl!Next]_(Rtl!vars)
<1> USE DEF Rtl!Next
<1>1. CASE Drive \/ RacyDrive \/ NbaRegion \/ Tick \/ UNCHANGED vars
  <2>1. inst' = inst /\ pre' = pre /\ at' = at /\ boot' = boot
    BY <1>1 DEF Drive, RacyDrive, NbaRegion, Tick, vars
  <2> QED BY <2>1, UnseenStep DEF SeenIn, SeenQ, Running
<1>2. CASE Finish
  <2>1. at = "idle" /\ at' = "idle" /\ boot = "done" /\ boot' = "final"
    BY <1>2 DEF Finish, Quiet, ActiveIdle
  <2>2. inst'.in = inst.in /\ inst'.q = inst.q
    BY <1>2, EvaluateResult DEF Finish, IInv, TypeOK
  <2> QED BY <2>1, <2>2, UnseenStep DEF SeenIn, SeenQ, Running
<1>3. CASE InitialStart
  <2>1. /\ inst' = inst /\ pre' = pre /\ at' = at
        /\ boot = "start" /\ boot' = "hash0"
    BY <1>3 DEF InitialStart
  <2> QED BY <2>1, UnseenStep DEF SeenIn, SeenQ, Running
<1>4. CASE InitialInit
  BY <1>4, InitialInitPowersUp
<1>5. CASE CombRefresh
  <2>1. at = "idle" /\ at' = "idle" /\ boot' = boot /\ pre' = pre
    BY <1>5 DEF CombRefresh
  <2>2. CASE boot = "done"
    <3>1. /\ inst' \in Instance /\ inst'.q = inst.q
          /\ \A s \in Source : inst'.in[s] = inst.in[s]
      BY <1>5, <2>2, CombRefreshResult
    <3> QED BY <2>1, <2>2, <3>1, DataReachesRtl
  <2>3. CASE boot # "done"
    <3>1. inst' = inst
      BY <1>5, <2>3 DEF CombRefresh
    <3> QED BY <2>1, <3>1, UnseenStep DEF SeenIn, SeenQ, Running
  <2> QED BY <2>2, <2>3
<1>6. CASE RecordBlock
  <2>1. at = "idle" /\ at' = "idle" /\ boot' = boot /\ pre' = pre /\ TypeOK
    BY <1>6 DEF RecordBlock, IInv
  <2>2. CASE boot = "done"
    <3>1. RecordInputValues
      BY <1>6, <2>2 DEF RecordBlock
    <3>2. /\ inst' \in Instance /\ inst'.q = inst.q
          /\ \A s \in Source : inst'.in[s] = inst.in[s]
      BY <2>1, <3>1, RecordResult
    <3> QED BY <2>1, <2>2, <3>2, DataReachesRtl
  <2>3. CASE boot # "done"
    <3>1. inst' = inst
      BY <1>6, <2>3 DEF RecordBlock
    <3> QED BY <2>1, <3>1, UnseenStep DEF SeenIn, SeenQ, Running
  <2> QED BY <2>2, <2>3
<1>7. CASE EdgeStart
  <2>1. at = "idle" /\ boot' = boot /\ pre' = pre /\ TypeOK
    BY <1>7 DEF EdgeStart, IInv
  <2>2. CASE boot = "done"
    <3>1. /\ at' = "settle" /\ inst' \in Instance /\ inst'.q = inst.q
          /\ \A s \in Source : inst'.in[s] = inst.in[s]
      BY <1>7, <2>1, <2>2, EdgeStartResult
    <3> QED BY <2>1, <2>2, <3>1, DataReachesRtl
  <2>3. CASE boot # "done"
    <3>1. inst' = inst /\ at' = at
      BY <1>7, <2>3 DEF EdgeStart
    <3> QED BY <2>1, <3>1, UnseenStep DEF SeenIn, SeenQ, Running
  <2> QED BY <2>2, <2>3
<1>8. CASE EdgeSettleIfDirty
  <2>1. at = "settle" /\ at' = "commit" /\ boot' = boot /\ pre' = inst' /\ inst' = SettleIfDirty(inst)
    BY <1>8 DEF EdgeSettleIfDirty
  <2>2. inst'.in = inst.in /\ inst'.q = inst.q
    BY <2>1, EvaluateResult DEF SettleIfDirty, IInv, TypeOK
  <2> QED BY <2>1, <2>2, UnseenStep DEF SeenIn, SeenQ, Running
<1>9. ASSUME NEW c \in Clock, EdgeCommitClock(c) PROVE [Rtl!Next]_(Rtl!vars)
  <2>1. at = "commit" /\ at' = at /\ pre' = pre /\ boot' = boot
    BY <1>9 DEF EdgeCommitClock
  <2> QED BY <2>1, UnseenStep DEF SeenIn, SeenQ, Running
<1>10. ASSUME NEW r \in Reset, EdgeCommitReset(r) PROVE [Rtl!Next]_(Rtl!vars)
  <2>1. at = "commit" /\ at' = at /\ pre' = pre /\ boot' = boot
    BY <1>10 DEF EdgeCommitReset
  <2> QED BY <2>1, UnseenStep DEF SeenIn, SeenQ, Running
<1>11. CASE EdgeFinish
  BY <1>11, EdgeFinishIsInstant
<1> QED
  BY <1>1, <1>2, <1>3, <1>4, <1>5, <1>6, <1>7, <1>8, <1>9, <1>10, <1>11 DEF Next, EdgeStep

\* The generated wrapper, whatever order its blocks and commits run in, shows a
\* testbench the design in which all edges of an instant happen at once.
THEOREM RtlRefinement == Spec => RtlSpec
<1>1. ASSUME Init PROVE Rtl!Init
  <2>1. IInv
    BY <1>1, InitIInv
  <2>2. inst.in \in [Input -> Value] /\ inst.q \in [Flop -> Value]
    BY <2>1 DEF IInv, TypeOK, Instance, InputWords, FlopWords
  <2> QED
    BY <1>1, <2>2, SamePorts DEF Init, Rtl!Init, Running
<1>2. IInv /\ [Next]_vars => [Rtl!Next]_(Rtl!vars)
  BY StepRefines
<1> QED
  BY <1>1, <1>2, Inductive, PTL DEF Spec, RtlSpec, Rtl!Spec


-----------------------------------------------------------------------------
(* The instant pending a dump.                                             *)

\* The pending instant is never ahead of the simulator, and the edge block,
\* whose record call flushes an earlier one, runs with its own instant pending
\* or none.  Without data inputs nothing is ever recorded.
PendingTime ==
    /\ pending # NoTime => pending <= now
    /\ at # "idle" => pending \in {NoTime, now}
    /\ ~Running \/ ~Tracing \/ Data = {} => pending = NoTime
    /\ Data = {} => "record" \notin pend

NoAbort == PendingTime /\ ~fatal

\* The record block is woken only by a data input.
LEMMA RecordAsleep ==
    ASSUME Data = {}, NEW p, MoveTo(p), "record" \notin pend
    PROVE  "record" \notin pend'
BY DEF MoveTo, Woken

\* The record call leaves the current instant pending.
LEMMA RecordPending ==
    ASSUME TypeOK, NoAbort, RecordInputValues, Running, Data # {}
    PROVE  /\ pending' = IF Tracing THEN now ELSE NoTime
           /\ ~fatal'
<1>1. now \in Int /\ pending \in Int
  BY DEF TypeOK, Time, NoTime
<1>2. pending # NoTime => ~(now < pending)
  BY <1>1 DEF NoAbort, PendingTime
<1> QED
  BY <1>2 DEF RecordInputValues, NoAbort, PendingTime

\* Every step of the wrapper keeps the tracer from aborting.
LEMMA NextNoAbort ==
    ASSUME IInv, NoAbort, [Next]_vars
    PROVE  NoAbort'
<1>1. /\ TypeOK /\ BlockRuns
      /\ now \in Int /\ pending \in Int
  BY DEF IInv, TypeOK, Time, NoTime
<1>2. CASE Drive \/ RacyDrive \/ NbaRegion
  <2>1. PICK p : MoveTo(p)
    BY <1>2 DEF Drive, RacyDrive, NbaRegion
  <2>2. UNCHANGED <<now, boot, at, pending, fatal>>
    BY <1>2 DEF Drive, RacyDrive, NbaRegion
  <2> QED
    BY <2>1, <2>2, RecordAsleep DEF NoAbort, PendingTime, Running
<1>3. CASE Tick
  BY <1>1, <1>3 DEF Tick, Quiet, ActiveIdle, NoAbort, PendingTime, Running
<1>4. CASE Finish
  <2>1. /\ at' = "idle" /\ boot = "done" /\ boot' = "final" /\ UNCHANGED <<now, pend, fatal>>
        /\ pending' \in {NoTime, pending}
    BY <1>4 DEF Finish, Quiet, ActiveIdle
  <2> QED
    BY <2>1 DEF NoAbort, PendingTime, Running
<1>5. CASE InitialStart
  BY <1>5 DEF InitialStart, NoAbort, PendingTime, Running
<1>6. CASE InitialInit
  <2>1. /\ boot = "hash0" /\ at' = "idle" /\ pend' = {} /\ TraceDump(inst')
    BY <1>6 DEF InitialInit, ActiveIdle
  <2>2. pending = NoTime
    BY <2>1 DEF NoAbort, PendingTime, Running
  <2> QED
    BY <2>1, <2>2 DEF TraceDump, NoAbort, PendingTime
<1>7. CASE CombRefresh
  BY <1>7 DEF CombRefresh, trace, NoAbort, PendingTime, Running
<1>8. CASE RecordBlock
  <2>1. /\ at = "idle" /\ at' = "idle" /\ "record" \in pend /\ boot # "final"
        /\ UNCHANGED <<now, boot>> /\ pend' \subseteq pend
    BY <1>1, <1>8 DEF RecordBlock, BlockRuns
  <2>2. CASE boot = "done"
    <3>1. RecordInputValues /\ Running /\ Data # {}
      BY <1>8, <2>1, <2>2 DEF RecordBlock, NoAbort, PendingTime, Running
    <3>2. pending' = (IF Tracing THEN now ELSE NoTime) /\ ~fatal'
      BY <1>1, <3>1, RecordPending
    <3> QED
      BY <1>1, <2>1, <3>1, <3>2 DEF NoAbort, PendingTime, Running
  <2>3. CASE boot # "done"
    BY <1>8, <2>1, <2>3 DEF RecordBlock, trace, NoAbort, PendingTime, Running
  <2> QED BY <2>2, <2>3
<1>9. CASE EdgeStart
  <2>1. /\ at = "idle" /\ "edge" \in pend /\ boot # "final"
        /\ UNCHANGED <<now, boot>> /\ pend' \subseteq pend
    BY <1>1, <1>9 DEF EdgeStart, BlockRuns
  <2>2. CASE boot = "done" /\ Data # {}
    <3>1. RecordInputValues /\ Running
      BY <1>9, <2>2 DEF EdgeStart, Running
    <3>2. pending' = (IF Tracing THEN now ELSE NoTime) /\ ~fatal'
      BY <1>1, <2>2, <3>1, RecordPending
    <3> QED
      BY <1>1, <2>1, <2>2, <3>1, <3>2 DEF NoAbort, PendingTime, Running
  <2>3. CASE boot = "done" /\ Data = {}
    <3>1. UNCHANGED trace /\ pending = NoTime
      BY <1>9, <2>3 DEF EdgeStart, NoAbort, PendingTime
    <3> QED
      BY <2>1, <2>3, <3>1 DEF trace, NoAbort, PendingTime
  <2>4. CASE boot # "done"
    BY <1>9, <2>1, <2>4 DEF EdgeStart, trace, NoAbort, PendingTime, Running
  <2> QED BY <2>2, <2>3, <2>4
<1>10. ASSUME at # "idle", UNCHANGED <<now, boot, pend, pending, fatal>>
       PROVE  NoAbort'
  BY <1>10 DEF NoAbort, PendingTime, Running
<1>11. CASE EdgeSettleIfDirty
  BY <1>10, <1>11 DEF EdgeSettleIfDirty, trace
<1>12. ASSUME NEW c \in Clock, EdgeCommitClock(c) PROVE NoAbort'
  BY <1>10, <1>12 DEF EdgeCommitClock, trace
<1>13. ASSUME NEW r \in Reset, EdgeCommitReset(r) PROVE NoAbort'
  BY <1>10, <1>13 DEF EdgeCommitReset, trace
<1>14. CASE EdgeFinish
  <2>1. /\ at = "commit" /\ at' = "idle" /\ TraceDump(inst') /\ UNCHANGED <<now, boot, pend>>
    BY <1>14 DEF EdgeFinish
  <2>2. pending \in {NoTime, now}
    BY <2>1 DEF NoAbort, PendingTime
  <2>3. pending' \in {NoTime, pending} /\ ~fatal'
    BY <2>1, <2>2 DEF TraceDump
  <2> QED
    BY <2>1, <2>2, <2>3 DEF NoAbort, PendingTime, Running
<1>15. CASE UNCHANGED vars
  BY <1>15 DEF vars, NoAbort, PendingTime, Running
<1> QED
  BY <1>2, <1>3, <1>4, <1>5, <1>6, <1>7, <1>8, <1>9, <1>11, <1>12, <1>13, <1>14, <1>15
     DEF Next, EdgeStep

\* The invariant of the tracer, beside the wrapper's own.
LEMMA AbortInductive == Spec => []NoAbort
<1>1. Init => NoAbort
  BY DEF Init, NoAbort, PendingTime, Running
<1>2. IInv /\ NoAbort /\ [Next]_vars => NoAbort'
  BY NextNoAbort
<1> QED
  BY Inductive, <1>1, <1>2, PTL DEF Spec

\* No order of the record, edge and refresh blocks makes an event-ordering check
\* of the DPI functions abort the simulation.
THEOREM NeverFatal == Spec => []NoFatal
<1>1. NoAbort => NoFatal
  BY DEF NoAbort, NoFatal
<1> QED
  BY AbortInductive, <1>1, PTL

-----------------------------------------------------------------------------
(* Logs of dumps.                                                          *)

\* The waveform that `log' makes shows v at time t: v is the last dump made for
\* t or before.
WaveIs(log, t, v) ==
    \E s \in DOMAIN log \cap 0 .. t :
        (\A u \in DOMAIN log \cap 0 .. t : u <= s) /\ log[s] = v

\* WaveAt is the value shown.
LEMMA WaveAtIs ==
    ASSUME NEW t, NEW v, WaveIs(dumps, t, v)
    PROVE  WaveAt(t) = v
<1>1. PICK s \in DumpedBy(t) : (\A u \in DumpedBy(t) : u <= s) /\ dumps[s] = v
  BY DEF WaveIs, DumpedBy
<1>2. DumpedBy(t) \subseteq Int
  BY DEF DumpedBy
<1>3. ASSUME NEW r \in DumpedBy(t), \A u \in DumpedBy(t) : u <= r
      PROVE  r = s
  <2>1. r <= s /\ s <= r /\ r \in Int /\ s \in Int
    BY <1>1, <1>2, <1>3
  <2> QED BY <2>1
<1> DEFINE last1 == CHOOSE r \in DumpedBy(t) : \A u \in DumpedBy(t) : u <= r
<1>4. last1 \in DumpedBy(t) /\ \A u \in DumpedBy(t) : u <= last1
  BY <1>1
<1>5. last1 = s
  BY <1>3, <1>4
<1> QED
  BY <1>1, <1>5 DEF WaveAt

\* A dump made for the latest time in the log shows from that time on, and
\* leaves what was shown before alone.
LEMMA DumpShows ==
    ASSUME NEW log, NEW s \in Nat, DOMAIN log \subseteq 0 .. s, NEW snap, NEW t \in Nat
    PROVE  /\ t >= s => WaveIs(Upsert(log, s, snap), t, snap)
           /\ t < s => \A v : WaveIs(log, t, v) => WaveIs(Upsert(log, s, snap), t, v)
<1> DEFINE new == Upsert(log, s, snap)
<1>1. DOMAIN new = DOMAIN log \cup {s} /\ new[s] = snap
      /\ \A u \in DOMAIN log : u # s => new[u] = log[u]
  BY DEF Upsert
<1> HIDE DEF new
<1>2. ASSUME t >= s PROVE WaveIs(new, t, snap)
  <2>1. s \in DOMAIN new \cap 0 .. t
    BY <1>1, <1>2
  <2>2. \A u \in DOMAIN new \cap 0 .. t : u <= s
    BY <1>1
  <2> QED BY <1>1, <2>1, <2>2 DEF WaveIs
<1>3. ASSUME t < s, NEW v, WaveIs(log, t, v) PROVE WaveIs(new, t, v)
  <2>1. DOMAIN new \cap 0 .. t = DOMAIN log \cap 0 .. t
    BY <1>1, <1>3
  <2>2. \A u \in DOMAIN log \cap 0 .. t : new[u] = log[u]
    BY <1>1, <1>3
  <2> QED BY <1>3, <2>1, <2>2 DEF WaveIs
<1> QED
  BY <1>2, <1>3 DEF new

\* Until the next dump the waveform shows the last one.
LEMMA WaveHolds ==
    ASSUME NEW log, NEW s \in Nat, DOMAIN log \subseteq 0 .. s,
           NEW v, WaveIs(log, s, v), NEW t \in Nat, t >= s
    PROVE  WaveIs(log, t, v)
<1>1. DOMAIN log \cap 0 .. t = DOMAIN log \cap 0 .. s
  OBVIOUS
<1> QED
  BY <1>1 DEF WaveIs

-----------------------------------------------------------------------------
(* The waveform of a design without combinational outputs.                 *)

\* The tracer is on, and no refresh block stores inputs past the record call.
\* (With one, an instant still pending is dumped with inputs that came later.)
TracedDesign == Tracing /\ CombOutput = {}

\* Instants end in order, and no dump is ahead of the simulator.
LogTimes ==
    /\ DOMAIN truth \subseteq 0 .. now
    /\ boot # "final" => now \notin DOMAIN truth
    /\ ~Running => DOMAIN truth = {}
    /\ DOMAIN dumps \subseteq 0 .. now
    /\ "comb" \notin pend

\* The waveform of the instants that ended before the pending one is final.
ClosedInstants ==
    \A t \in DOMAIN truth : pending = NoTime \/ t < pending => WaveIs(dumps, t, truth[t])

\* When none is pending, the waveform is up to date with the instance ...
UpToDate ==
    Running /\ pending = NoTime /\ at # "commit" =>
        WaveIs(dumps, now, Observed(inst.in, inst.q))

\* ... and when one is, nothing has happened since: its flush, from the words in
\* storage, will show it and every instant that ended after it.
OpenInstants ==
    pending # NoTime =>
        /\ DOMAIN dumps \subseteq 0 .. pending
        /\ at # "commit" => \A t \in DOMAIN truth :
               t >= pending => truth[t] = Observed(inst.in, inst.q)

TraceInv == LogTimes /\ ClosedInstants /\ UpToDate /\ OpenInstants

\* The dump of a settled instance is what its instant is.
LEMMA SettledShown ==
    ASSUME NEW i, Settled(i)
    PROVE  Shown(i) = Observed(i.in, i.q)
BY DEF Settled, Shown, Observed

\* So is the dump of an evaluated one.
LEMMA EvaluatedShown ==
    ASSUME NEW i \in Instance
    PROVE  Shown(Evaluate(i)) = Observed(i.in, i.q)
<1>1. /\ Evaluate(i).in = i.in /\ Evaluate(i).q = i.q
      /\ Evaluate(i).d = NextD(i.in, i.q) /\ Evaluate(i).out = OutputOf(i.in, i.q)
  BY EvaluateResult
<1> QED
  BY <1>1 DEF Shown, Observed

\* The times the invariant speaks of are natural numbers.
LEMMA TimesAreNat ==
    ASSUME TypeOK
    PROVE  /\ now \in Nat /\ DOMAIN truth \subseteq Nat /\ DOMAIN dumps \subseteq Nat
           /\ pending # NoTime => pending \in Nat
BY WrapperConstants DEF TypeOK, Time

\* A step that moves neither time, the logs, the pending instant nor the stored
\* inputs and flops preserves it.
LEMMA UntracedStep ==
    ASSUME TraceInv, UNCHANGED <<now, boot, pending, dumps, truth>>,
           inst'.in = inst.in, inst'.q = inst.q, at' = "commit" \/ at # "commit",
           "comb" \notin pend'
    PROVE  TraceInv'
<1>1. LogTimes'
  BY DEF TraceInv, LogTimes, Running
<1>2. ClosedInstants'
  BY DEF TraceInv, ClosedInstants
<1>3. UpToDate'
  BY DEF TraceInv, UpToDate, Running
<1>4. OpenInstants'
  BY DEF TraceInv, OpenInstants
<1> QED
  BY <1>1, <1>2, <1>3, <1>4 DEF TraceInv

\* Making the pending dump from storage closes the pending instant and every
\* later one that has ended.
LEMMA FlushCloses ==
    ASSUME TypeOK, TraceInv, pending # NoTime, at # "commit",
           dumps' = DumpAt(pending, Evaluate(inst)), NEW t \in Nat
    PROVE  /\ t >= pending => WaveIs(dumps', t, Observed(inst.in, inst.q))
           /\ t \in DOMAIN truth => WaveIs(dumps', t, truth[t])
           /\ DOMAIN dumps' \subseteq 0 .. pending
<1>1. pending \in Nat /\ DOMAIN dumps \subseteq 0 .. pending
  BY TimesAreNat DEF TraceInv, OpenInstants
<1>2. Shown(Evaluate(inst)) = Observed(inst.in, inst.q)
  BY EvaluatedShown DEF TypeOK
<1>3. dumps' = Upsert(dumps, pending, Observed(inst.in, inst.q))
  BY <1>2 DEF DumpAt
<1>4. t >= pending => WaveIs(dumps', t, Observed(inst.in, inst.q))
  BY <1>1, <1>3, DumpShows
<1>5. ASSUME t \in DOMAIN truth PROVE WaveIs(dumps', t, truth[t])
  <2>1. CASE t >= pending
    BY <1>4, <1>5, <2>1 DEF TraceInv, OpenInstants
  <2>2. CASE t < pending
    <3>1. WaveIs(dumps, t, truth[t])
      BY <1>5, <2>2 DEF TraceInv, ClosedInstants
    <3> QED BY <1>1, <1>3, <2>2, <3>1, DumpShows
  <2> QED BY <1>1, <2>1, <2>2
<1>6. DOMAIN dumps' \subseteq 0 .. pending
  BY <1>1, <1>3 DEF Upsert
<1> QED
  BY <1>4, <1>5, <1>6

\* A dump of a settled instance for the current instant, with no earlier one
\* pending, brings the waveform up to date.
LEMMA DumpNow ==
    ASSUME TracedDesign, IInv, TraceInv, TraceDump(inst'), pending \in {NoTime, now},
           boot # "final", boot' # "final", Running', at' = "idle", Settled(inst'),
           UNCHANGED <<now, truth>>, "comb" \notin pend'
    PROVE  TraceInv'
<1>1. now \in Nat /\ DOMAIN truth \subseteq 0 .. now \ {now} /\ DOMAIN dumps \subseteq 0 .. now
  BY TimesAreNat DEF IInv, TraceInv, LogTimes
<1>2. pending' = NoTime /\ dumps' = Upsert(dumps, now, Observed(inst'.in, inst'.q))
  BY SettledShown DEF TraceDump, TracedDesign, DumpAt
<1>3. LogTimes'
  <2>1. DOMAIN dumps' \subseteq 0 .. now
    BY <1>1, <1>2 DEF Upsert
  <2> QED BY <2>1 DEF TraceInv, LogTimes
<1>4. ClosedInstants'
  <2>1. ASSUME NEW t \in DOMAIN truth PROVE WaveIs(dumps', t, truth[t])
    <3>1. t \in Nat /\ t < now /\ (pending = NoTime \/ t < pending)
      BY <1>1
    <3>2. WaveIs(dumps, t, truth[t])
      BY <3>1 DEF TraceInv, ClosedInstants
    <3> QED BY <1>1, <1>2, <3>1, <3>2, DumpShows
  <2> QED BY <2>1 DEF ClosedInstants
<1>5. UpToDate'
  <2>1. WaveIs(dumps', now, Observed(inst'.in, inst'.q))
    BY <1>1, <1>2, DumpShows
  <2> QED BY <2>1 DEF UpToDate
<1>6. OpenInstants'
  BY <1>2 DEF OpenInstants
<1> QED
  BY <1>3, <1>4, <1>5, <1>6 DEF TraceInv

\* The record call flushes an earlier pending instant from storage before it
\* stores the new inputs, so it closes what has ended and opens the current
\* instant.
LEMMA RecordTraced ==
    ASSUME TracedDesign, IInv, NoAbort, TraceInv, RecordInputValues,
           boot = "done", at = "idle", at' # "commit",
           UNCHANGED <<now, boot, truth>>, "comb" \notin pend'
    PROVE  TraceInv'
<1>1. /\ TypeOK /\ now \in Nat /\ DOMAIN truth \subseteq 0 .. now \ {now}
      /\ DOMAIN dumps \subseteq 0 .. now
      /\ pending # NoTime => pending \in Nat /\ pending <= now
  BY TimesAreNat DEF IInv, TraceInv, LogTimes, NoAbort, PendingTime
<1>2. pending' = now /\ now # NoTime
  BY <1>1 DEF RecordInputValues, TracedDesign, NoTime
<1>3. /\ DOMAIN dumps' \subseteq 0 .. now
      /\ \A t \in DOMAIN truth : WaveIs(dumps', t, truth[t])
  <2>1. CASE FlushDue
    <3>1. dumps' = DumpAt(pending, Evaluate(inst)) /\ pending # NoTime
      BY <2>1 DEF RecordInputValues, FlushDue
    <3>2. DOMAIN dumps' \subseteq 0 .. pending /\ pending \in Nat /\ pending <= now
      BY <1>1, <3>1, FlushCloses
    <3>3. ASSUME NEW t \in DOMAIN truth PROVE WaveIs(dumps', t, truth[t])
      <4>1. t \in Nat
        BY <1>1
      <4> QED BY <1>1, <3>1, <4>1, FlushCloses
    <3> QED BY <1>1, <3>2, <3>3
  <2>2. CASE ~FlushDue
    <3>1. dumps' = dumps
      BY <2>2 DEF RecordInputValues
    <3>2. pending \in {NoTime, now}
      BY <1>1, <2>2 DEF FlushDue, TracedDesign
    <3>3. \A t \in DOMAIN truth : pending = NoTime \/ t < pending
      BY <1>1, <3>2
    <3> QED BY <1>1, <3>1, <3>3 DEF TraceInv, ClosedInstants
  <2> QED BY <2>1, <2>2
<1>4. LogTimes'
  BY <1>3 DEF TraceInv, LogTimes, Running
<1>5. ClosedInstants'
  BY <1>3 DEF ClosedInstants
<1>6. UpToDate'
  BY <1>2 DEF UpToDate
<1>7. OpenInstants'
  <2>1. \A t \in DOMAIN truth : ~(t >= now)
    BY <1>1
  <2> QED BY <1>2, <1>3, <2>1 DEF OpenInstants
<1> QED
  BY <1>4, <1>5, <1>6, <1>7 DEF TraceInv

\* An instant ends with the words in storage being those of its last ports, so
\* the waveform shows it already or its flush will.
LEMMA TickTraced ==
    ASSUME IInv, PortsStored, NoAbort, TraceInv, Tick
    PROVE  TraceInv'
<1>1. /\ at = "idle" /\ boot = "done" /\ pend = {} /\ now' = now + 1
      /\ UNCHANGED <<boot, pend, at, pending, dumps, inst>>
      /\ truth' = Upsert(truth, now, Observed(port, inst.q))
      /\ AtRest
  BY DEF Tick, Quiet, ActiveIdle, AtRest
<1>2. inst.in = port
  BY <1>1 DEF PortsStored
<1>3. /\ now \in Nat /\ DOMAIN truth \subseteq 0 .. now \ {now} /\ DOMAIN dumps \subseteq 0 .. now
      /\ pending # NoTime => pending \in Nat /\ pending <= now
  BY <1>1, TimesAreNat DEF IInv, TraceInv, LogTimes, NoAbort, PendingTime
<1>4. /\ DOMAIN truth' = DOMAIN truth \cup {now}
      /\ truth'[now] = Observed(inst.in, inst.q)
      /\ \A t \in DOMAIN truth : truth'[t] = truth[t]
  BY <1>1, <1>2, <1>3 DEF Upsert
<1>5. LogTimes'
  BY <1>1, <1>3, <1>4 DEF LogTimes, Running
<1>6. ClosedInstants'
  <2>1. SUFFICES ASSUME NEW t \in DOMAIN truth', pending = NoTime \/ t < pending
                 PROVE  WaveIs(dumps, t, truth'[t])
    BY <1>1 DEF ClosedInstants
  <2>2. CASE t \in DOMAIN truth
    BY <1>4, <2>1, <2>2 DEF TraceInv, ClosedInstants
  <2>3. CASE t = now
    <3>1. pending = NoTime
      BY <1>3, <2>1, <2>3
    <3> QED BY <1>1, <1>4, <2>3, <3>1 DEF TraceInv, UpToDate, Running
  <2> QED BY <1>4, <2>1, <2>2, <2>3
<1>7. UpToDate'
  <2>1. SUFFICES ASSUME pending = NoTime
                 PROVE  WaveIs(dumps, now + 1, Observed(inst.in, inst.q))
    BY <1>1 DEF UpToDate
  <2>2. WaveIs(dumps, now, Observed(inst.in, inst.q))
    BY <1>1, <2>1 DEF TraceInv, UpToDate, Running
  <2> QED BY <1>3, <2>2, WaveHolds
<1>8. OpenInstants'
  BY <1>1, <1>4 DEF TraceInv, OpenInstants
<1> QED
  BY <1>5, <1>6, <1>7, <1>8 DEF TraceInv

\* So does the last one, which the destruction of the context flushes.
LEMMA FinishTraced ==
    ASSUME TracedDesign, IInv, PortsStored, NoAbort, TraceInv, Finish
    PROVE  TraceInv'
<1>1. /\ at = "idle" /\ at' = "idle" /\ boot = "done" /\ boot' = "final" /\ pend' = {}
      /\ now' = now /\ truth' = Upsert(truth, now, Observed(port, inst.q))
      /\ AtRest
  BY DEF Finish, Quiet, ActiveIdle, AtRest
<1>2. inst.in = port /\ inst \in Instance /\ TypeOK
  BY <1>1 DEF PortsStored, IInv, TypeOK
<1>3. /\ now \in Nat /\ DOMAIN truth \subseteq 0 .. now \ {now} /\ DOMAIN dumps \subseteq 0 .. now
      /\ pending # NoTime => pending \in Nat /\ pending <= now
  BY <1>1, TimesAreNat DEF IInv, TraceInv, LogTimes, NoAbort, PendingTime
<1>4. /\ DOMAIN truth' = DOMAIN truth \cup {now}
      /\ truth'[now] = Observed(inst.in, inst.q)
      /\ \A t \in DOMAIN truth : truth'[t] = truth[t]
  BY <1>1, <1>2, <1>3 DEF Upsert
<1>5. /\ pending' = NoTime /\ inst'.in = inst.in /\ inst'.q = inst.q
      /\ DOMAIN dumps' \subseteq 0 .. now
      /\ WaveIs(dumps', now, Observed(inst.in, inst.q))
      /\ \A t \in DOMAIN truth : WaveIs(dumps', t, truth[t])
  <2>1. CASE pending # NoTime
    <3>1. inst' = Evaluate(inst) /\ pending' = NoTime /\ dumps' = DumpAt(pending, Evaluate(inst))
      BY <2>1 DEF Finish, TracedDesign
    <3>2. inst'.in = inst.in /\ inst'.q = inst.q
      BY <1>2, <3>1, EvaluateResult
    <3>3. /\ WaveIs(dumps', now, Observed(inst.in, inst.q))
          /\ DOMAIN dumps' \subseteq 0 .. pending
      BY <1>1, <1>2, <1>3, <2>1, <3>1, FlushCloses
    <3>4. ASSUME NEW t \in DOMAIN truth PROVE WaveIs(dumps', t, truth[t])
      <4>1. t \in Nat
        BY <1>3
      <4> QED BY <1>1, <1>2, <2>1, <3>1, <4>1, FlushCloses
    <3>5. DOMAIN dumps' \subseteq 0 .. now
      BY <1>3, <2>1, <3>3
    <3> QED BY <3>1, <3>2, <3>3, <3>4, <3>5
  <2>2. CASE pending = NoTime
    <3>1. UNCHANGED <<inst, dumps, pending>>
      BY <2>2 DEF Finish
    <3>2. WaveIs(dumps, now, Observed(inst.in, inst.q))
      BY <1>1, <2>2 DEF TraceInv, UpToDate, Running
    <3> QED BY <1>3, <2>2, <3>1, <3>2 DEF TraceInv, ClosedInstants
  <2> QED BY <2>1, <2>2
<1>6. LogTimes'
  BY <1>1, <1>3, <1>4, <1>5 DEF LogTimes, Running
<1>7. ClosedInstants' /\ UpToDate' /\ OpenInstants'
  BY <1>1, <1>4, <1>5 DEF ClosedInstants, UpToDate, OpenInstants
<1> QED
  BY <1>6, <1>7 DEF TraceInv

\* Every step preserves it.
LEMMA NextTraced ==
    ASSUME TracedDesign, IInv, PortsStored, NoAbort, TraceInv, [Next]_vars
    PROVE  TraceInv'
<1>1. /\ TypeOK /\ BlockRuns /\ inst \in Instance
      /\ "comb" \notin pend
  BY DEF IInv, TypeOK, TraceInv, LogTimes
<1>2. CASE Drive \/ RacyDrive \/ NbaRegion
  <2>1. PICK p : MoveTo(p)
    BY <1>2 DEF Drive, RacyDrive, NbaRegion
  <2>2. "comb" \notin pend'
    BY <1>1, <2>1 DEF MoveTo, Woken, TracedDesign
  <2>3. at = "idle" /\ UNCHANGED <<now, boot, at, inst, pending, dumps, truth>>
    BY <1>2 DEF Drive, RacyDrive, NbaRegion, Quiet, ActiveIdle
  <2> QED
    BY <2>2, <2>3, UntracedStep
<1>3. CASE Tick
  BY <1>3, TickTraced
<1>4. CASE Finish
  BY <1>4, FinishTraced
<1>5. CASE InitialStart
  <2>1. /\ ~Running /\ ~Running' /\ boot # "final" /\ boot' # "final" /\ pend' = pend
        /\ UNCHANGED <<now, inst, pending, dumps, truth>>
    BY <1>5 DEF InitialStart, Running
  <2>2. pending = NoTime
    BY <2>1 DEF NoAbort, PendingTime
  <2> QED
    BY <2>1, <2>2 DEF TraceInv, LogTimes, ClosedInstants, UpToDate, OpenInstants
<1>6. CASE InitialInit
  <2>1. /\ boot = "hash0" /\ boot' = "done" /\ at' = "idle" /\ pend' = pend
        /\ UNCHANGED <<now, truth>> /\ TraceDump(inst')
    BY <1>6 DEF InitialInit, ActiveIdle
  <2>2. PICK q0 \in InitialQ("zero", TRUE) : inst' = InstanceInit(inst, q0, port)
    BY <1>6 DEF InitialInit
  <2> DEFINE j == InstanceInit(inst, q0, port)
  <2>3. port \in InputWords /\ q0 \in FlopWords
    BY <1>1, InitialQType DEF TypeOK
  <2>4. j.d = NextD(j.in, j.q) /\ j.out = OutputOf(j.in, j.q)
    BY <1>1, <2>3, InstanceInitResult
  <2>5. Settled(inst')
    BY <2>2, <2>4 DEF Settled
  <2>6. pending = NoTime
    BY <2>1 DEF NoAbort, PendingTime, Running
  <2>7. Running'
    BY <2>1 DEF Running
  <2> QED
    BY <1>1, <2>1, <2>5, <2>6, <2>7, DumpNow
<1>7. CASE CombRefresh
  BY <1>1, <1>7 DEF CombRefresh
<1>8. CASE RecordBlock
  <2>1. /\ at = "idle" /\ at' = "idle" /\ "record" \in pend
        /\ UNCHANGED <<now, boot, truth>> /\ pend' \subseteq pend
    BY <1>8 DEF RecordBlock
  <2>2. CASE boot = "done"
    <3>1. RecordInputValues
      BY <1>8, <2>2 DEF RecordBlock
    <3> QED
      BY <1>1, <2>1, <2>2, <3>1, RecordTraced
  <2>3. CASE boot # "done"
    <3>1. UNCHANGED <<inst, pending, dumps>>
      BY <1>8, <2>3 DEF RecordBlock, trace
    <3> QED
      BY <1>1, <2>1, <3>1, UntracedStep
  <2> QED BY <2>2, <2>3
<1>9. CASE EdgeStart
  <2>1. /\ at = "idle" /\ at' # "commit"
        /\ UNCHANGED <<now, boot, truth>> /\ pend' \subseteq pend
    BY <1>9 DEF EdgeStart
  <2>2. CASE boot = "done" /\ Data # {}
    <3>1. RecordInputValues
      BY <1>9, <2>2 DEF EdgeStart
    <3> QED
      BY <1>1, <2>1, <2>2, <3>1, RecordTraced
  <2>3. CASE boot # "done" \/ Data = {}
    <3>1. UNCHANGED <<inst, pending, dumps>>
      BY <1>9, <2>3 DEF EdgeStart, trace
    <3> QED
      BY <1>1, <2>1, <3>1, UntracedStep
  <2> QED BY <2>2, <2>3
<1>10. CASE EdgeSettleIfDirty
  <2>1. /\ at' = "commit" /\ inst' = SettleIfDirty(inst) /\ pend' = pend
        /\ UNCHANGED <<now, boot, pending, dumps, truth>>
    BY <1>10 DEF EdgeSettleIfDirty, trace
  <2>2. inst'.in = inst.in /\ inst'.q = inst.q
    BY <1>1, <2>1, EvaluateResult DEF SettleIfDirty
  <2> QED
    BY <1>1, <2>1, <2>2, UntracedStep
<1>11. ASSUME at = "commit", UNCHANGED <<now, boot, pend, at, pending, dumps, truth>>
       PROVE  TraceInv'
  BY <1>11 DEF TraceInv, LogTimes, ClosedInstants, UpToDate, OpenInstants, Running
<1>12. ASSUME NEW c \in Clock, EdgeCommitClock(c) PROVE TraceInv'
  BY <1>11, <1>12 DEF EdgeCommitClock, trace
<1>13. ASSUME NEW r \in Reset, EdgeCommitReset(r) PROVE TraceInv'
  BY <1>11, <1>13 DEF EdgeCommitReset, trace
<1>14. CASE EdgeFinish
  <2>1. /\ at = "commit" /\ at' = "idle" /\ boot = "done" /\ boot' = boot
        /\ UNCHANGED <<now, pend, truth>> /\ Settled(inst')
    BY <1>14, EdgeFinishSettles
  <2>2. pending \in {NoTime, now}
    BY <2>1 DEF NoAbort, PendingTime
  <2>3. TraceDump(inst') /\ Running'
    BY <1>14, <2>1 DEF EdgeFinish, Running
  <2> QED
    BY <1>1, <2>1, <2>2, <2>3, DumpNow
<1>15. CASE UNCHANGED vars
  <2>1. UNCHANGED <<now, boot, pend, at, inst, pending, dumps, truth>>
    BY <1>15 DEF vars
  <2> QED
    BY <2>1 DEF TraceInv, LogTimes, ClosedInstants, UpToDate, OpenInstants, Running
<1> QED
  BY <1>2, <1>3, <1>4, <1>5, <1>6, <1>7, <1>8, <1>9, <1>10, <1>12, <1>13, <1>14, <1>15
     DEF Next, EdgeStep

\* The waveform of a design without combinational outputs is true: however the
\* record calls, edges and instants follow each other, what the dump of an
\* instant shows, made late and from storage, is what the instant was when it
\* ended.
THEOREM WaveformIsTrue == ASSUME TracedDesign PROVE Spec => []WaveformTrue
<1>1. Init => TraceInv
  BY DEF Init, NoSnapshots, TraceInv, LogTimes, ClosedInstants, UpToDate, OpenInstants, Running
<1>2. IInv /\ PortsStored /\ NoAbort /\ TraceInv /\ [Next]_vars => TraceInv'
  BY NextTraced
<1>3. TraceInv => WaveformTrue
  BY WaveAtIs DEF TraceInv, ClosedInstants, WaveformTrue
<1> QED
  BY Inductive, NoPortLost, AbortInductive, <1>1, <1>2, <1>3, PTL DEF Spec

=============================================================================
