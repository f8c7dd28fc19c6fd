----------------------------- MODULE DpiWrapper -----------------------------
(***************************************************************************)
(* The SystemVerilog wrapper and the DPI functions that                    *)
(* src/src/dpi_codegen/dpi_codegen.cpp generates around an instance (makeSv *)
(* and makeCpp), under the event regions of a simulator: processes woken   *)
(* by a change run to completion in any order in the Active region, then   *)
(* the nonblocking updates of the instant are made, and time advances only *)
(* when nothing is left to do.                                             *)
(*                                                                         *)
(* Ports and `initialized' are two-state.  A process woken by an event is  *)
(* in `pend' until it runs; the edge block runs in steps, one per DPI call *)
(* that matters, and no other process runs meanwhile.                      *)
(***************************************************************************)
EXTENDS MateInstance

CONSTANTS
    CombOutput,     \* outputs with a data input in their combinational cone
    ConeInput,      \* data inputs in such a cone
    DrivesLogic,    \* clocks and resets read by the logic
    Tracing,        \* +MATE_DPI_TRACE was given
    RacyInput,      \* data inputs the testbench writes with blocking assignments
    MaxTime         \* bound: the last instant explored

Source == Clock \cup Reset

ASSUME WrapperConstants ==
    /\ CombOutput \subseteq Output
    /\ ConeInput \subseteq Data
    /\ DrivesLogic \subseteq Source
    /\ Tracing \in BOOLEAN
    /\ RacyInput \subseteq Data
    /\ MaxTime \in Nat

\* What analyzeWrapperCombDependence and sourceSignalDrivesLogic conclude from
\* the graph: an output outside CombOutput depends on no data input, one in it
\* on no data input outside ConeInput, and nothing depends on a clock or reset
\* outside DrivesLogic.
ASSUME ConesAreSound ==
    \A in1, in2 \in InputWords, q \in FlopWords :
        /\ (\A s \in Source \cap DrivesLogic : in1[s] = in2[s])
             /\ (\A x \in Data : in1[x] = in2[x])
           => NextD(in1, q) = NextD(in2, q) /\ OutputOf(in1, q) = OutputOf(in2, q)
        /\ \A o \in Output \ CombOutput :
             (\A s \in Source : in1[s] = in2[s])
             => OutputOf(in1, q)[o] = OutputOf(in2, q)[o]
        /\ \A o \in CombOutput :
             (\A k \in Source \cup ConeInput : in1[k] = in2[k])
             => OutputOf(in1, q)[o] = OutputOf(in2, q)[o]

NoTime == -1
NoSnapshots == [t \in {} |-> 0]
NoOutputs == [o \in {} |-> 0]

VARIABLES
    now,      \* $time
    port,     \* the wrapper's input ports
    out,      \* its output ports
    boot,     \* its initial block: "start", "hash0" (waiting at #0), "done",
              \* and "final" when the final block has run
    last,     \* last_<clock>, last_<reset>
    pend,     \* woken always blocks: "comb", "record", "edge"
    at,       \* the edge block: "idle", "settle", "commit"
    toDo,     \* sources found changed and not yet committed
    need,     \* need_settle
    next,     \* next_<output> variables, written by the DPI calls
    nba,      \* scheduled nonblocking output updates, NoOutputs when none
    inst,     \* the instance behind ctx
    pending,  \* pending_trace_time, NoTime when unset
    dumps,    \* the waveform: time -> last dump made for it
    truth,    \* history: time -> what the instant was when it ended
    pre,      \* history: the instance before the first commit of the edge block
    fatal     \* a DPI call has aborted the simulation

trace == <<pending, dumps, fatal>>
vars == <<now, port, out, boot, last, pend, at, toDo, need, next, nba, inst,
          pending, dumps, truth, pre, fatal>>

Time == 0 .. MaxTime
Snapshot == [in : InputWords, d : FlopWords, q : FlopWords, out : OutputWords]

\* Every variable has its type; in particular the flops stay within their
\* leaves' width through power-up (flops_init masks initializers), commits and
\* resets, and clock and reset levels stay two-state.
TypeOK ==
    /\ now \in Time
    /\ port \in InputWords /\ \A s \in Source : port[s] \in Level
    /\ out \in OutputWords
    /\ boot \in {"start", "hash0", "done", "final"}
    /\ last \in [Source -> Level]
    /\ pend \subseteq {"comb", "record", "edge"}
    /\ at \in {"idle", "settle", "commit"}
    /\ toDo \subseteq Source
    /\ need \in BOOLEAN
    /\ next \in OutputWords
    /\ nba \in OutputWords \cup {NoOutputs}
    /\ inst \in Instance
    /\ pending \in Time \cup {NoTime}
    /\ DOMAIN dumps \subseteq Time /\ dumps \in [DOMAIN dumps -> Snapshot]
    /\ DOMAIN truth \subseteq Time /\ truth \in [DOMAIN truth -> Snapshot]
    /\ pre \in Instance
    /\ fatal \in BOOLEAN

Init ==
    /\ now = 0
    /\ port \in InputWords /\ \A s \in Source : port[s] \in Level
    /\ out = [o \in Output |-> 0] /\ next = [o \in Output |-> 0]
    /\ boot = "start"
    /\ last = [s \in Source |-> 0]
    /\ pend = {} /\ at = "idle" /\ toDo = {} /\ need = FALSE
    /\ nba = NoOutputs
    /\ inst = Allocated /\ pre = Allocated
    /\ pending = NoTime
    /\ dumps = NoSnapshots /\ truth = NoSnapshots
    /\ fatal = FALSE

-----------------------------------------------------------------------------
(* The simulator and the testbench.                                        *)

Woken(before, after) ==
    LET moved == {k \in Input : before[k] # after[k]}
    IN  {b \in {"comb", "record", "edge"} :
            CASE b = "comb" -> CombOutput # {} /\ moved \cap ConeInput # {}
              [] b = "record" -> moved \cap Data # {}
              [] b = "edge" -> moved \cap Source # {}}

\* The values the ports of S can be moved to, clocks and resets to levels.
Moves(S) ==
    {p \in InputWords : /\ \A s \in Source : p[s] \in Level
                       /\ \A k \in Input \ S : p[k] = port[k]}

MoveTo(p) ==
    /\ port' = p
    /\ pend' = pend \cup Woken(port, p)

ActiveIdle == at = "idle" /\ pend = {} /\ boot # "final" /\ ~fatal
Quiet == ActiveIdle /\ nba = NoOutputs

\* The testbench moves any ports in an Active region with nothing else to do.
Drive ==
    /\ Quiet
    /\ \E p \in Moves(Input) : p # port /\ MoveTo(p)
    /\ UNCHANGED <<now, out, boot, last, at, toDo, need, next, nba, inst,
                   pending, dumps, truth, pre, fatal>>

\* A blocking assignment to data inputs races the blocks already woken and
\* the updates already scheduled.
RacyDrive ==
    /\ at = "idle" /\ boot # "final" /\ ~fatal
    /\ \E p \in Moves(RacyInput) : p # port /\ MoveTo(p)
    /\ UNCHANGED <<now, out, boot, last, at, toDo, need, next, nba, inst,
                   pending, dumps, truth, pre, fatal>>

\* The NBA region: the wrapper's outputs and whatever ports the testbench
\* assigned with `<=' change together.
NbaRegion ==
    /\ ActiveIdle
    /\ nba # NoOutputs
    /\ out' = nba
    /\ nba' = NoOutputs
    /\ \E p \in Moves(Input) : MoveTo(p)
    /\ UNCHANGED <<now, boot, last, at, toDo, need, next, inst,
                   pending, dumps, truth, pre, fatal>>

Upsert(log, t, snap) == [s \in DOMAIN log \cup {t} |-> IF s = t THEN snap ELSE log[s]]

\* What a waveform must show of an instant: its last input values, its flops,
\* and the logic settled on both.
Observed(ins, q) == [in |-> ins, d |-> NextD(ins, q), q |-> q, out |-> OutputOf(ins, q)]

Tick ==
    /\ Quiet /\ boot = "done"
    /\ now < MaxTime
    /\ now' = now + 1
    /\ truth' = Upsert(truth, now, Observed(port, inst.q))
    /\ UNCHANGED <<port, out, boot, last, pend, at, toDo, need, next, nba, inst,
                   pending, dumps, pre, fatal>>

-----------------------------------------------------------------------------
(* The DPI functions.                                                      *)

DataPorts == [x \in Data |-> port[x]]
Shown(i) == [in |-> i.in, d |-> i.d, q |-> i.q, out |-> i.out]
DumpAt(t, i) == Upsert(dumps, t, Shown(i))

\* <prefix>_record_input_values: flush the pending instant when time has moved
\* on, then store the data inputs.
FlushDue == Tracing /\ pending # NoTime /\ pending < now

\* Mutant: stores the new instant's inputs before flushing the pending one.
RecordInputValuesFirst ==
    /\ inst' = IF FlushDue THEN Evaluate(RecordInputs(inst, DataPorts))
                            ELSE RecordInputs(inst, DataPorts)
    /\ dumps' = IF FlushDue THEN DumpAt(pending, inst') ELSE dumps
    /\ pending' = IF Tracing THEN now ELSE pending
    /\ fatal' = (Tracing /\ pending # NoTime /\ now < pending)

RecordInputValues ==
    /\ inst' = RecordInputs(IF FlushDue THEN Evaluate(inst) ELSE inst, DataPorts)
    /\ dumps' = IF FlushDue THEN DumpAt(pending, Evaluate(inst)) ELSE dumps
    /\ pending' = IF Tracing THEN now ELSE pending
    /\ fatal' = (Tracing /\ pending # NoTime /\ now < pending)

\* <prefix>_trace_dump, after instance i has been reached.
TraceDump(i) ==
    /\ dumps' = IF Tracing THEN DumpAt(now, i) ELSE dumps
    /\ pending' = IF Tracing THEN NoTime ELSE pending
    /\ fatal' = (Tracing /\ pending # NoTime /\ pending # now)

\* final, at $finish: the Context is destroyed, flushing the pending instant.
Finish ==
    /\ Quiet /\ boot = "done"
    /\ boot' = "final"
    /\ truth' = Upsert(truth, now, Observed(port, inst.q))
    /\ IF Tracing /\ pending # NoTime
       THEN /\ inst' = Evaluate(inst)
            /\ dumps' = DumpAt(pending, inst')
            /\ pending' = NoTime
       ELSE UNCHANGED <<inst, dumps, pending>>
    /\ UNCHANGED <<now, port, out, last, pend, at, toDo, need, next, nba, pre, fatal>>

-----------------------------------------------------------------------------
(* The wrapper's processes.                                                *)

\* initial: create the context, note the levels, wait at #0.
InitialStart ==
    /\ boot = "start" /\ at = "idle" /\ ~fatal
    /\ boot' = "hash0"
    /\ last' = [s \in Source |-> port[s]]
    /\ UNCHANGED <<now, port, out, pend, at, toDo, need, next, nba, inst,
                   pending, dumps, truth, pre, fatal>>

\* ... and, once the Active region is empty, initialise the instance.
InitialInit ==
    /\ boot = "hash0" /\ ActiveIdle
    /\ boot' = "done"
    /\ \E q0 \in InitialQ("zero", TRUE) : inst' = InstanceInit(inst, q0, port)
    /\ next' = inst'.out
    /\ out' = inst'.out
    /\ TraceDump(inst')
    /\ UNCHANGED <<now, port, last, pend, at, toDo, need, nba, truth, pre>>

\* Mutant: stores the inputs without evaluating.
CombRefreshUnevaluated ==
    /\ at = "idle" /\ "comb" \in pend /\ ~fatal
    /\ pend' = pend \ {"comb"}
    /\ IF boot = "done"
       THEN /\ inst' = RecordInputs(inst, DataPorts)
            /\ next' = inst'.out
            /\ out' = [o \in Output |-> IF o \in CombOutput THEN inst'.out[o] ELSE out[o]]
       ELSE UNCHANGED <<inst, next, out>>
    /\ UNCHANGED <<now, port, boot, last, at, toDo, need, nba, trace, truth, pre>>

\* always @(cone inputs): evaluate and refresh the combinational outputs.
CombRefresh ==
    /\ at = "idle" /\ "comb" \in pend /\ ~fatal
    /\ pend' = pend \ {"comb"}
    /\ IF boot = "done"
       THEN /\ inst' = SetInputs(inst, DataPorts)
            /\ next' = inst'.out
            /\ out' = [o \in Output |-> IF o \in CombOutput THEN inst'.out[o] ELSE out[o]]
       ELSE UNCHANGED <<inst, next, out>>
    /\ UNCHANGED <<now, port, boot, last, at, toDo, need, nba, trace, truth, pre>>

\* always @(data inputs): record, evaluate nothing.
RecordBlock ==
    /\ at = "idle" /\ "record" \in pend /\ ~fatal
    /\ pend' = pend \ {"record"}
    /\ IF boot = "done" THEN RecordInputValues ELSE UNCHANGED <<inst, trace>>
    /\ UNCHANGED <<now, port, out, boot, last, at, toDo, need, next, nba, truth, pre>>

\* Mutant: no record call.
EdgeStartUnrecorded ==
    /\ at = "idle" /\ "edge" \in pend /\ ~fatal
    /\ pend' = pend \ {"edge"}
    /\ IF boot = "done"
       THEN toDo' = {s \in Source : port[s] # last[s]} /\ at' = "settle" /\ UNCHANGED last
       ELSE last' = [s \in Source |-> port[s]] /\ UNCHANGED <<toDo, at>>
    /\ UNCHANGED <<now, port, out, boot, need, next, nba, inst, trace, truth, pre>>

\* Mutant: an else-if chain, one changed source a run.
EdgeStartOneSource ==
    /\ at = "idle" /\ "edge" \in pend /\ ~fatal
    /\ pend' = pend \ {"edge"}
    /\ IF boot = "done"
       THEN /\ toDo' \in {S \in SUBSET {s \in Source : port[s] # last[s]} :
                             \A s1, s2 \in S : s1 = s2}
            /\ IF Data # {} THEN RecordInputValues ELSE UNCHANGED <<inst, trace>>
            /\ at' = "settle"
            /\ UNCHANGED last
       ELSE /\ last' = [s \in Source |-> port[s]]
            /\ UNCHANGED <<toDo, inst, trace, at>>
    /\ UNCHANGED <<now, port, out, boot, need, next, nba, truth, pre>>

\* always @(clocks or resets): what changed, then the record call.
EdgeStart ==
    /\ at = "idle" /\ "edge" \in pend /\ ~fatal
    /\ pend' = pend \ {"edge"}
    /\ IF boot = "done"
       THEN /\ toDo' = {s \in Source : port[s] # last[s]}
            /\ IF Data # {} THEN RecordInputValues ELSE UNCHANGED <<inst, trace>>
            /\ at' = "settle"
            /\ UNCHANGED last
       ELSE /\ last' = [s \in Source |-> port[s]]
            /\ UNCHANGED <<toDo, inst, trace, at>>
    /\ UNCHANGED <<now, port, out, boot, need, next, nba, truth, pre>>

\* Mutant: the commits run on whatever D holds.
EdgeSettleNever ==
    /\ at = "settle" /\ ~fatal
    /\ next' = inst.out
    /\ need' = Tracing
    /\ pre' = inst
    /\ at' = "commit"
    /\ UNCHANGED <<now, port, out, boot, last, pend, toDo, nba, inst, trace, truth>>

\* <prefix>_settle_if_dirty, before any commit.
EdgeSettleIfDirty ==
    /\ at = "settle" /\ ~fatal
    /\ inst' = SettleIfDirty(inst)
    /\ next' = inst'.out
    /\ need' = Tracing
    /\ pre' = inst'
    /\ at' = "commit"
    /\ UNCHANGED <<now, port, out, boot, last, pend, toDo, nba, trace, truth>>

\* Mutant: an inactive edge never asks for a settle.
EdgeCommitClockQuiet(c) ==
    /\ at = "commit" /\ c \in toDo \cap Clock
    /\ LET dom == DomainForEdge(c, port[c]) IN
       /\ inst' = CommitClock(inst, dom, port[c], NoUpdates)
       /\ need' = (need \/ dom[2] = port[c])
    /\ last' = [last EXCEPT ![c] = port[c]]
    /\ toDo' = toDo \ {c}
    /\ UNCHANGED <<now, port, out, boot, pend, at, next, nba, trace, truth, pre>>

\* Mutant: settles after every clock.
EdgeCommitClockSettling(c) ==
    /\ at = "commit" /\ c \in toDo \cap Clock
    /\ inst' = Settle(CommitClock(inst, DomainForEdge(c, port[c]), port[c], NoUpdates))
    /\ last' = [last EXCEPT ![c] = port[c]]
    /\ toDo' = toDo \ {c}
    /\ UNCHANGED <<now, port, out, boot, pend, at, need, next, nba, trace, truth, pre>>

\* <prefix>_commit_<clock>_<edge>, in any order of the clock ports.
EdgeCommitClock(c) ==
    /\ at = "commit" /\ c \in toDo \cap Clock
    /\ LET dom == DomainForEdge(c, port[c]) IN
       /\ inst' = CommitClock(inst, dom, port[c], NoUpdates)
       /\ need' = (need \/ dom[2] = port[c] \/ c \in DrivesLogic)
    /\ last' = [last EXCEPT ![c] = port[c]]
    /\ toDo' = toDo \ {c}
    /\ UNCHANGED <<now, port, out, boot, pend, at, next, nba, trace, truth, pre>>

\* Mutant: a released reset is not stored.
EdgeCommitResetActive(r) ==
    /\ at = "commit" /\ toDo \cap Clock = {} /\ r \in toDo
    /\ inst' = IF port[r] = ActiveLevel[r] THEN CommitReset(inst, r, port[r]) ELSE inst
    /\ need' = (need \/ port[r] = ActiveLevel[r] \/ r \in DrivesLogic)
    /\ last' = [last EXCEPT ![r] = port[r]]
    /\ toDo' = toDo \ {r}
    /\ UNCHANGED <<now, port, out, boot, pend, at, next, nba, trace, truth, pre>>

\* <prefix>_commit_<reset>_<edge>, after every clock.
EdgeCommitReset(r) ==
    /\ at = "commit" /\ toDo \cap Clock = {} /\ r \in toDo
    /\ inst' = CommitReset(inst, r, port[r])
    /\ need' = (need \/ port[r] = ActiveLevel[r] \/ r \in DrivesLogic)
    /\ last' = [last EXCEPT ![r] = port[r]]
    /\ toDo' = toDo \ {r}
    /\ UNCHANGED <<now, port, out, boot, pend, at, next, nba, trace, truth, pre>>

\* Mutant: the outputs are taken before the settle.
EdgeFinishEarly ==
    /\ at = "commit" /\ toDo = {}
    /\ inst' = IF need THEN Settle(inst) ELSE inst
    /\ next' = IF need THEN inst'.out ELSE next
    /\ TraceDump(inst')
    /\ nba' = next
    /\ at' = "idle"
    /\ UNCHANGED <<now, port, out, boot, last, pend, toDo, need, truth, pre>>

\* The single settle, if one is needed, the dump and the output updates.
EdgeFinish ==
    /\ at = "commit" /\ toDo = {}
    /\ inst' = IF need THEN Settle(inst) ELSE inst
    /\ next' = IF need THEN inst'.out ELSE next
    /\ TraceDump(inst')
    /\ nba' = next'
    /\ at' = "idle"
    /\ UNCHANGED <<now, port, out, boot, last, pend, toDo, need, truth, pre>>

EdgeStep ==
    \/ EdgeStart
    \/ EdgeSettleIfDirty
    \/ \E c \in Clock : EdgeCommitClock(c)
    \/ \E r \in Reset : EdgeCommitReset(r)
    \/ EdgeFinish

Next ==
    \/ Drive \/ RacyDrive \/ NbaRegion \/ Tick \/ Finish
    \/ InitialStart \/ InitialInit
    \/ CombRefresh \/ RecordBlock \/ EdgeStep

Spec == Init /\ [][Next]_vars

\* A simulator runs every woken process and leaves no region unfinished.
Fairness ==
    /\ WF_vars(InitialStart) /\ WF_vars(InitialInit)
    /\ WF_vars(CombRefresh) /\ WF_vars(RecordBlock)
    /\ WF_vars(EdgeStep) /\ WF_vars(NbaRegion)

FairSpec == Spec /\ Fairness
-----------------------------------------------------------------------------
(* What the wrapper owes the testbench.                                    *)

Running == boot \in {"done", "final"}
AtRest == boot = "done" /\ Quiet

\* Reset priority end to end: whenever the stored level of one of a flop's
\* resets is active, the flop holds its reset value, also between the commits
\* of coincident edges, at power-up and when a clock and a reset move together.
ResetHolds ==
    Running => \A f \in Flop : HeldInReset(inst.in, f) => inst.q[f] = ResetValue[f]

\* "The pre-edge D snapshot is the one left by the previous settle, so the
\* instance must BE settled when the commits run" (mate_model_abi.h): the first
\* commit finds D settled on the stored inputs and flops, and no commit of the
\* instant disturbs that snapshot, though the edge block skips the evaluation
\* when no recorded input changed and the settle after an edge that neither
\* commits anything nor moves a signal the logic reads.
CommitsReadSettledD ==
    at = "commit" => pre.d = NextD(pre.in, pre.q) /\ inst.d = pre.d

\* A clear flag outside the commits means settled words.
SettledUnlessDirty ==
    Running /\ at # "commit" /\ ~inst.dirty => Settled(inst)

\* "Keeps instance storage fresh for edge handlers" (makeSv, input recording):
\* once no process is woken, the instance stores every port and the wrapper's
\* last_ levels are the current ones.
PortsStored == AtRest => /\ inst.in = port
                         /\ \A s \in Source : last[s] = port[s]

\* "Purely registered outputs are written exclusively by the edge block"
\* (makeSv): at rest they still show the logic settled on the current ports.
RegisteredOutputsFresh ==
    AtRest => \A o \in Output \ CombOutput : out[o] = OutputOf(port, inst.q)[o]

\* "a comb-dependent output must refresh on (cone) input changes between edges"
\* (analyzeWrapperCombDependence): at rest a combinational output shows the
\* logic settled on the current ports.
CombOutputsFresh ==
    AtRest => \A o \in CombOutput : out[o] = OutputOf(port, inst.q)[o]

\* The waveform value at time t is that of the last dump made for t or before.
DumpedBy(t) == DOMAIN dumps \cap 0 .. t
WaveAt(t) == dumps[CHOOSE s \in DumpedBy(t) : \A u \in DumpedBy(t) : u <= s]

\* "a call arriving with a later time means the pending instant is complete --
\* evaluate once with its settled inputs (already in storage) and trace it at
\* its own timestamp" (makeCpp), and the Context flushes the last one: once its
\* dump has been made, the waveform of an instant is what that instant was when
\* it ended.
WaveformTrue ==
    \A t \in DOMAIN truth :
        pending = NoTime \/ t < pending => WaveAt(t) = truth[t]

\* None of the event-ordering checks of the DPI functions aborts the
\* simulation ("pending recorded instant was never flushed", "input recording
\* time went backwards").
NoFatal == ~fatal

\* The edges of one instant take effect together, as RtlSync says: the
\* commits of an instant count when the edge block has finished.
Rtl == INSTANCE RtlSync WITH
         up <- Running,
         in <- IF at = "commit" THEN pre.in ELSE inst.in,
         q <- IF at = "commit" THEN pre.q ELSE inst.q,
         PowerUpQ <- InitialQ("zero", TRUE)

RtlSpec == Rtl!Spec

\* Every change of a port reaches the instance, even when the testbench goes
\* on racing the blocks that carry it.
PortsReachInstance ==
    \A k \in Input : (Running /\ port[k] # inst.in[k]) ~> (port[k] = inst.in[k])
=============================================================================
