----------------------------- MODULE SyncDomains -----------------------------
(***************************************************************************)
(* Clock-domain crossing on the flat graph of a compiled design: types are *)
(* seeded at top-level inputs and flop outputs and swept over the nodes    *)
(* until nothing changes (passes/sync_domain_propagate.cpp), the type of   *)
(* every flop's D is found again by a recursion over its cone, each flop   *)
(* is checked against it (passes/cdc_check.cpp), and last the graph is     *)
(* searched for combinational loops (validateNoCombLoops in                *)
(* src/src/mateir/module.cpp).  The order is that of                       *)
(* systemverilog_pipeline.cpp: loops are still there when types are swept. *)
(*                                                                         *)
(* Nodes are numbered in the order of dfg.nodes.  A graph g is             *)
(*   kind[n]   "input" (a top-level input or a flop's q), "const" or "op"  *)
(*   in[n]     the sequence of nodes that n reads                          *)
(*   seed[n]   for every input node the type of its port or flop           *)
(*   flops     a sequence of [d: leaves of D, clock: ClockId, sync: listed *)
(*             in the module's synchronizer_flops]                         *)
(*   infer     crossings are recorded as synchronizers, not rejected       *)
(***************************************************************************)
EXTENDS Integers, Sequences, FiniteSets

CONSTANT Graphs

Async == [is |-> "async"]
Static == [is |-> "static"]
Clock(c) == [is |-> "clock", id |-> c]
Reset(r) == [is |-> "reset", id |-> r]
Sync(c, rs) == [is |-> "sync", clock |-> c, resets |-> rs]
NoType == [is |-> "none"]       \* std::nullopt

Nodes(g) == DOMAIN g.kind
InputsOf(g, n) == {g.in[n][i] : i \in DOMAIN g.in[n]}

\* A port or flop is seeded with a class of its own, never as static
\* (topPortSyncType, seedFlopSyncTypes).
GraphsWellFormed ==
    \A g \in Graphs :
        /\ g.kind \in Seq({"input", "const", "op"})
        /\ DOMAIN g.in = Nodes(g) /\ \A n \in Nodes(g) : g.in[n] \in Seq(Nodes(g))
        /\ \A n \in Nodes(g) : g.kind[n] # "op" => g.in[n] = <<>>
        /\ DOMAIN g.seed = {n \in Nodes(g) : g.kind[n] = "input"}
        /\ \A n \in DOMAIN g.seed : g.seed[n].is \in {"async", "clock", "reset", "sync"}
        /\ g.flops \in Seq([d : Seq(Nodes(g)), clock : Nat, sync : BOOLEAN])
ASSUME GraphsAssumption == GraphsWellFormed

VARIABLES
    g,          \* the graph being compiled
    phase,      \* "sweep", "dtypes", "cdc", "loops", then "accepted", or
                \* "crossing", "loop" (CompilerErrors), "overflow" (no return)
    nodeSync,   \* types found so far, node -> type
    pos,        \* next node of the sweep
    changed,    \* this sweep has changed a type
    flop,       \* flop whose D is being typed, or that is being checked
    stack,      \* calls of computeSyncTypeFromFanin that have not returned
    memo,       \* its memo, node -> type
    dSync,      \* types of the D inputs, flop -> type
    synchronizers   \* flops in synchronizer_flops

sweepVars == <<nodeSync, pos, changed>>
coneVars == <<stack, memo, dSync>>
vars == <<g, phase, sweepVars, flop, coneVars, synchronizers>>

-----------------------------------------------------------------------------
\* Mutant of Merge: the clocks are not compared.
MergeFirstClock(S) ==
    LET syncs == {t \in S : t.is = "sync"}
    IN  IF \E t \in S : t.is \in {"async", "clock", "reset"} THEN Async
        ELSE IF syncs # {}
             THEN Sync((CHOOSE t \in syncs : TRUE).clock, UNION {t.resets : t \in syncs})
             ELSE IF Static \in S THEN Static ELSE Async

\* mergeSyncTypes.
Merge(S) ==
    LET syncs == {t \in S : t.is = "sync"}
    IN  IF \/ \E t \in S : t.is \in {"async", "clock", "reset"}
           \/ \E t, u \in syncs : t.clock # u.clock
        THEN Async
        ELSE IF syncs # {}
             THEN Sync((CHOOSE t \in syncs : TRUE).clock, UNION {t.resets : t \in syncs})
             ELSE IF Static \in S THEN Static ELSE Async

\* What a reading node sees: constants are left out.
Read(n) == {m \in InputsOf(g, n) : g.kind[m] # "const"}

\* seedDeclaredInputSyncTypes and seedFlopSyncTypes.
Init ==
    /\ g \in Graphs
    /\ phase = "sweep"
    /\ nodeSync = g.seed
    /\ pos = 1
    /\ changed = FALSE
    /\ flop = 1
    /\ stack = <<>>
    /\ memo = [n \in {} |-> NoType]
    /\ dSync = [f \in {} |-> NoType]
    /\ synchronizers = {f \in DOMAIN g.flops : g.flops[f].sync}

\* Extends or overwrites a map.
Put(map, x, y) == [z \in DOMAIN map \cup {x} |-> IF z = x THEN y ELSE map[z]]

-----------------------------------------------------------------------------
\* propagateNodeSyncTypes.  A node whose inputs are not all typed waits for the
\* next sweep; one without inputs is static unless it was seeded.
Skipped(n) ==
    \/ \E m \in Read(n) : m \notin DOMAIN nodeSync
    \/ Read(n) = {} /\ n \in DOMAIN nodeSync
Computed(n) == IF Read(n) = {} THEN Static ELSE Merge({nodeSync[m] : m \in Read(n)})

\* Mutant of SweepNode: every computed type counts as a change.
SweepNodeAlwaysChanged ==
    /\ phase = "sweep" /\ pos \in Nodes(g)
    /\ pos' = pos + 1
    /\ IF Skipped(pos) THEN UNCHANGED <<nodeSync, changed>>
       ELSE nodeSync' = Put(nodeSync, pos, Computed(pos)) /\ changed' = TRUE
    /\ UNCHANGED <<g, phase, flop, coneVars, synchronizers>>

SweepNode ==
    /\ phase = "sweep" /\ pos \in Nodes(g)
    /\ pos' = pos + 1
    /\ IF Skipped(pos) \/ (pos \in DOMAIN nodeSync /\ nodeSync[pos] = Computed(pos))
       THEN UNCHANGED <<nodeSync, changed>>
       ELSE nodeSync' = Put(nodeSync, pos, Computed(pos)) /\ changed' = TRUE
    /\ UNCHANGED <<g, phase, flop, coneVars, synchronizers>>

\* Mutant of SweepAgain: one sweep.
SweepOnce ==
    /\ phase = "sweep" /\ pos \notin Nodes(g)
    /\ pos' = 1 /\ changed' = FALSE
    /\ phase' = "dtypes"
    /\ UNCHANGED <<g, nodeSync, flop, coneVars, synchronizers>>

SweepAgain ==
    /\ phase = "sweep" /\ pos \notin Nodes(g)
    /\ pos' = 1 /\ changed' = FALSE
    /\ phase' = IF changed THEN "sweep" ELSE "dtypes"
    /\ UNCHANGED <<g, nodeSync, flop, coneVars, synchronizers>>

-----------------------------------------------------------------------------
\* collectFlopDSyncTypes.
Cone(n) ==
    LET reach[k \in 0 .. Cardinality(Nodes(g))] ==
            IF k = 0 THEN {n}
            ELSE LET below == reach[k - 1] IN below \cup UNION {InputsOf(g, m) : m \in below}
    IN  reach[Cardinality(Nodes(g))]
Leaves(f) == {g.flops[f].d[i] : i \in DOMAIN g.flops[f].d}
ConeOfD(f) == UNION {Cone(n) : n \in Leaves(f)}

\* hasNonConstFanin, a search with a visited set.
HasNonConstFanin(f) == \E n \in ConeOfD(f) : g.kind[n] = "input"

Typing(f) == phase = "dtypes" /\ f = flop /\ f \in DOMAIN g.flops

NextFlop == flop' = flop + 1 /\ memo' = [n \in {} |-> NoType]

StaticD(f) ==
    /\ Typing(f) /\ ~HasNonConstFanin(f)
    /\ dSync' = Put(dSync, f, Static)
    /\ NextFlop
    /\ UNCHANGED <<g, phase, sweepVars, stack, synchronizers>>

\* The first element of a sequence of nodes that still has to be computed.
Pending(s) == {i \in DOMAIN s : g.kind[s[i]] # "const" /\ s[i] \notin DOMAIN memo}
FirstPending(s) == s[CHOOSE i \in Pending(s) : \A j \in Pending(s) : i <= j]

\* A call of computeSyncTypeFromFanin, for a leaf of D or an input of the node
\* on top.  The memo is written on return only: a call for a node that is being
\* computed repeats the calls in between for ever.
CallFanin(f) ==
    LET s == IF stack = <<>> THEN g.flops[f].d ELSE g.in[Head(stack)]
        n == FirstPending(s)
    IN  /\ Typing(f) /\ HasNonConstFanin(f) /\ Pending(s) # {}
        /\ IF \E i \in DOMAIN stack : stack[i] = n
           THEN phase' = "overflow" /\ UNCHANGED stack
           ELSE stack' = <<n>> \o stack /\ UNCHANGED phase
        /\ UNCHANGED <<g, sweepVars, flop, memo, dSync, synchronizers>>

TypesOf(S) == {memo[m] : m \in {k \in S : g.kind[k] # "const"}} \ {NoType}
\* Mutant of FromSeed: the seeds are not looked up.
FromSeedStatic(n) == IF g.kind[n] # "input" THEN NoType ELSE Static

FromSeed(n) == IF g.kind[n] # "input" THEN NoType
               ELSE IF n \in DOMAIN nodeSync THEN nodeSync[n] ELSE Static
FromInputs(n) ==
    IF Read(n) = {} THEN FromSeed(n)
    ELSE IF TypesOf(Read(n)) = {} THEN NoType ELSE Merge(TypesOf(Read(n)))

ReturnFanin(f) ==
    /\ Typing(f) /\ stack # <<>> /\ Pending(g.in[Head(stack)]) = {}
    /\ memo' = Put(memo, Head(stack), FromInputs(Head(stack)))
    /\ stack' = Tail(stack)
    /\ UNCHANGED <<g, phase, sweepVars, flop, dSync, synchronizers>>

TypedD(f) ==
    /\ Typing(f) /\ HasNonConstFanin(f) /\ stack = <<>> /\ Pending(g.flops[f].d) = {}
    /\ dSync' = Put(dSync, f, IF TypesOf(Leaves(f)) = {} THEN NoType ELSE Merge(TypesOf(Leaves(f))))
    /\ NextFlop
    /\ UNCHANGED <<g, phase, sweepVars, stack, synchronizers>>

AllTyped ==
    /\ phase = "dtypes" /\ flop \notin DOMAIN g.flops
    /\ phase' = "cdc" /\ flop' = 1
    /\ UNCHANGED <<g, sweepVars, coneVars, synchronizers>>

-----------------------------------------------------------------------------
\* Mutants of OwnDomain: any synchronous data will do; constants will not.
AnySync(f, t) == t = Static \/ t.is = "sync"
OwnSyncOnly(f, t) == t.is = "sync" /\ t.clock = g.flops[f].clock

\* validateCdcForModule.
OwnDomain(f, t) == t = Static \/ (t.is = "sync" /\ t.clock = g.flops[f].clock)

CheckFlop(f) ==
    /\ phase = "cdc" /\ f = flop /\ f \in DOMAIN g.flops
    /\ LET crosses == f \notin synchronizers /\ ~OwnDomain(f, dSync[f])
       IN  IF crosses /\ (~g.infer \/ dSync[f] = NoType)
           THEN phase' = "crossing" /\ UNCHANGED <<flop, synchronizers>>
           ELSE /\ flop' = f + 1
                /\ synchronizers' = IF crosses THEN synchronizers \cup {f} ELSE synchronizers
                /\ UNCHANGED phase
    /\ UNCHANGED <<g, sweepVars, coneVars>>

AllChecked ==
    /\ phase = "cdc" /\ flop \notin DOMAIN g.flops
    /\ phase' = "loops"
    /\ UNCHANGED <<g, sweepVars, flop, coneVars, synchronizers>>

\* validateNoCombLoops: Kahn's algorithm, layer by layer.
Sortable ==
    LET sorted[k \in 0 .. Cardinality(Nodes(g))] ==
            IF k = 0 THEN {}
            ELSE LET before == sorted[k - 1] IN {n \in Nodes(g) : InputsOf(g, n) \subseteq before}
    IN  sorted[Cardinality(Nodes(g))]

ValidateNoCombLoops ==
    /\ phase = "loops"
    /\ phase' = IF Sortable = Nodes(g) THEN "accepted" ELSE "loop"
    /\ UNCHANGED <<g, sweepVars, flop, coneVars, synchronizers>>

Final == {"accepted", "crossing", "loop", "overflow"}
Finished == phase \in Final /\ UNCHANGED vars

Steps ==
    \/ SweepNode \/ SweepAgain
    \/ \E f \in DOMAIN g.flops :
          StaticD(f) \/ CallFanin(f) \/ ReturnFanin(f) \/ TypedD(f) \/ CheckFlop(f)
    \/ AllTyped \/ AllChecked \/ ValidateNoCombLoops
Next == Steps \/ Finished

Spec == Init /\ [][Next]_vars

-----------------------------------------------------------------------------
\* The reference: what the sources in a cone say, whatever lies in between.
Sources(S) == {g.seed[m] : m \in {k \in S : g.kind[k] = "input"}}
ConeType(S) ==
    LET clocks == {t.clock : t \in {u \in Sources(S) : u.is = "sync"}}
    IN  IF Sources(S) = {} THEN Static
        ELSE IF (\A t \in Sources(S) : t.is = "sync") /\ Cardinality(clocks) = 1
             THEN Sync(CHOOSE c \in clocks : TRUE, UNION {t.resets : t \in Sources(S)})
             ELSE Async

LoopsBack(n) == \E m \in InputsOf(g, n) : n \in Cone(m)
LoopFree(S) == \A n \in S : ~LoopsBack(n)

\* A flop crosses when something it samples is not of its own clock domain.
Crosses(f) ==
    \E t \in Sources(ConeOfD(f)) : t.is # "sync" \/ t.clock # g.flops[f].clock

\* Types name nodes and flops of the graph, and the recursion has no node twice.
TypeOK ==
    /\ g \in Graphs
    /\ phase \in {"sweep", "dtypes", "cdc", "loops"} \cup Final
    /\ DOMAIN nodeSync \subseteq Nodes(g) /\ pos \in 1 .. Len(g.kind) + 1 /\ changed \in BOOLEAN
    /\ flop \in 1 .. Len(g.flops) + 1 /\ synchronizers \subseteq DOMAIN g.flops
    /\ DOMAIN memo \subseteq Nodes(g) /\ DOMAIN dSync \subseteq DOMAIN g.flops
    /\ \A i, j \in DOMAIN stack : stack[i] \in Nodes(g) /\ (stack[i] = stack[j] => i = j)

\* Sweeping in whatever order the nodes were created ends with every node below
\* no loop typed by all the sources of its cone and by nothing else: the order of
\* dfg.nodes, the number of sweeps and the grouping of merges do not show
\* (propagateNodeSyncTypes, mergeSyncTypes).
SweepReachesConeTypes ==
    phase \in {"loops", "crossing", "overflow"} =>
        \A n \in Nodes(g) :
            g.kind[n] = "op" /\ LoopFree(Cone(n)) =>
                n \in DOMAIN nodeSync /\ nodeSync[n] = ConeType(Cone(n))

\* The recursion over the cone of D, with its memo and its own treatment of
\* constants, gives what the sweep gave the leaves of D (flop_d_domains is
\* checked, node_sync is what the IR keeps).
RecursionAgreesWithSweep ==
    phase \in {"loops", "crossing"} =>
        \A f \in DOMAIN g.flops : dSync[f] = ConeType(ConeOfD(f))

\* A compile is accepted only if every flop that is not a synchronizer samples
\* its own domain and constants, and no combinational loop is left.
AcceptedIsSafe ==
    phase = "accepted" =>
        /\ \A f \in DOMAIN g.flops \ synchronizers : ~Crosses(f)
        /\ LoopFree(Nodes(g))

\* The errors are about what they say: a rejected crossing is one, of an
\* undeclared flop, when synchronizers are not inferred; a reported loop is one;
\* and without a loop the recursion ends.
RejectedForCause ==
    /\ phase = "crossing" =>
         ~g.infer /\ \E f \in DOMAIN g.flops : ~g.flops[f].sync /\ Crosses(f)
    /\ phase \in {"loop", "overflow"} => ~LoopFree(Nodes(g))

\* With inference exactly the crossing flops join the declared synchronizers:
\* a compile with the emitted list accepts, and not one flop more is exempt.
InferredAreCrossings ==
    g.infer /\ phase = "accepted" =>
        synchronizers = {f \in DOMAIN g.flops : g.flops[f].sync \/ Crosses(f)}

\* The sweeps come to an end on every graph, loops included: a type once found
\* never changes, whatever is found later, and a sweep asks for another one only
\* when it has typed a node more (`changed' in propagateNodeSyncTypes).
SweepsEnd ==
    [][/\ \A n \in DOMAIN nodeSync : n \in DOMAIN nodeSync' /\ nodeSync'[n] = nodeSync[n]
       /\ changed' /\ ~changed => DOMAIN nodeSync' # DOMAIN nodeSync]_vars
=============================================================================
