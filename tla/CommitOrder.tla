----------------------------- MODULE CommitOrder -----------------------------
(***************************************************************************)
(* The protocol src/src/abi/mate_model_abi.h prescribes for the edges that *)
(* land in one simulation instant:                                         *)
(*                                                                         *)
(*   mate_settle_if_dirty(...)                                             *)
(*   for each domain with an edge this instant: mate_commit_clock/reset    *)
(*   mate_settle(...)                                                      *)
(*                                                                         *)
(* run side by side on two instances of one model that see the same inputs *)
(* and the same edges and commit them each in an order of its own.         *)
(***************************************************************************)
EXTENDS MateInstance

CONSTANT ReleaseWithEdge   \* may a reset be released at a clock's active edge

ASSUME ReleaseWithEdgeBoolean == ReleaseWithEdge \in BOOLEAN

Source == Clock \cup Reset

VARIABLES
    left, right,       \* the two instances
    edges,             \* this instant's edges: source -> level
    leftToDo, rightToDo,  \* the sources whose edge is still to be committed
    at                 \* "idle", "committing"

vars == <<left, right, edges, leftToDo, rightToDo, at>>

\* Both instances keep well-formed words, and the edges still to be committed
\* are edges of the instant.
TypeOK ==
    /\ left \in Instance /\ right \in Instance
    /\ \E S \in SUBSET Source : edges \in [S -> Level]
    /\ leftToDo \subseteq DOMAIN edges /\ rightToDo \subseteq DOMAIN edges
    /\ at \in {"idle", "committing"}

NoEdges == [s \in {} |-> 0]

Init ==
    /\ \E q0 \in InitialQ("zero", TRUE), in0 \in InputWords :
        /\ \A s \in Source : in0[s] \in Level
        /\ left = InstanceInit(Allocated, q0, in0)
    /\ right = left
    /\ edges = NoEdges
    /\ leftToDo = {} /\ rightToDo = {}
    /\ at = "idle"

\* Inputs arrive between edges, with or without an evaluation.
Drive ==
    /\ at = "idle"
    /\ \E upd \in [Data -> Value] :
        \/ left' = RecordInputs(left, upd) /\ right' = RecordInputs(right, upd)
        \/ left' = SetInputs(left, upd) /\ right' = SetInputs(right, upd)
    /\ UNCHANGED <<edges, leftToDo, rightToDo, at>>

Releases(moved) == \E r \in Reset \cap DOMAIN moved : moved[r] # ActiveLevel[r]
Clocks(moved) == \E c \in Clock \cap DOMAIN moved : <<c, moved[c]>> \in Domain

\* The edges of an instant: each moves its source to the other level.
InstantStarts ==
    /\ at = "idle"
    /\ \E S \in SUBSET Source \ {{}} :
        LET moved == [s \in S |-> 1 - left.in[s]] IN
        /\ ~ReleaseWithEdge => ~(Releases(moved) /\ Clocks(moved))
        /\ edges' = moved
        /\ leftToDo' = S /\ rightToDo' = S
    /\ left' = SettleIfDirty(left) /\ right' = SettleIfDirty(right)
    /\ at' = "committing"

\* Mutant: every commit settles.
CommitSourceSettling(i, s) ==
    Evaluate(IF s \in Clock
             THEN CommitClock(i, DomainForEdge(s, edges[s]), edges[s], NoUpdates)
             ELSE CommitReset(i, s, edges[s]))

CommitSource(i, s) ==
    IF s \in Clock
    THEN CommitClock(i, DomainForEdge(s, edges[s]), edges[s], NoUpdates)
    ELSE CommitReset(i, s, edges[s])

CommitLeft(s) ==
    /\ at = "committing" /\ s \in leftToDo
    /\ left' = CommitSource(left, s)
    /\ leftToDo' = leftToDo \ {s}
    /\ UNCHANGED <<right, edges, rightToDo, at>>

CommitRight(s) ==
    /\ at = "committing" /\ s \in rightToDo
    /\ right' = CommitSource(right, s)
    /\ rightToDo' = rightToDo \ {s}
    /\ UNCHANGED <<left, edges, leftToDo, at>>

InstantEnds ==
    /\ at = "committing" /\ leftToDo = {} /\ rightToDo = {}
    /\ left' = Settle(left) /\ right' = Settle(right)
    /\ edges' = NoEdges
    /\ at' = "idle"
    /\ UNCHANGED <<leftToDo, rightToDo>>

Next ==
    \/ Drive
    \/ InstantStarts
    \/ \E s \in Source : CommitLeft(s) \/ CommitRight(s)
    \/ InstantEnds

Spec == Init /\ [][Next]_vars

-----------------------------------------------------------------------------
\* "every domain committing in the same instant reads the same pre-edge D
\* snapshot ... and the commit order becomes unobservable" (mate_model_abi.h,
\* mate_commit_clock): between instants the two instances are the same.
CommitOrderUnobservable == at = "idle" => left = right

\* The snapshot half of that sentence: while an instant's edges commit, on
\* either instance, D stays what it was when the first of them committed.
SnapshotHeld ==
    [][at = "committing" /\ at' = "committing"
       => left'.d = left.d /\ right'.d = right.d /\ left.d = right.d]_vars
=============================================================================
