-------------------------- MODULE CommitOrderProofs --------------------------
(***************************************************************************)
(* The order in which the edges of an instant are committed cannot be      *)
(* observed, for every design, as long as no reset is released in the      *)
(* instant of an active clock edge.                                        *)
(***************************************************************************)
EXTENDS CommitOrder, MateInstanceLemmas

-----------------------------------------------------------------------------
(* The inductive invariant.                                                *)

\* Edges S of the instant put flop f into reset.
Asserted(S, f) == \E r \in S \cap FlopResets[f] : edges[r] = ActiveLevel[r]

\* Edges S contain the one that clocks flop f.
Clocked(S, f) == \E c \in S \cap Clock : FlopDomain[f] = <<c, edges[c]>>

\* What flop f of instance b holds once edges S have been committed, whatever
\* the order.
FlopAfter(b, S, f) ==
    IF Asserted(S, f) THEN ResetValue[f]
    ELSE IF Clocked(S, f) /\ ~HeldInReset(b.in, f) THEN b.d[f] ELSE b.q[f]

\* Instance i is b with edges S committed.
Committed(b, S, i) ==
    /\ i \in Instance
    /\ i.d = b.d /\ i.out = b.out /\ i.dirty = b.dirty
    /\ \A k \in Input : i.in[k] = IF k \in S THEN edges[k] ELSE b.in[k]
    /\ \A f \in Flop : i.q[f] = FlopAfter(b, S, f)

\* The edges toggle their sources, and none of them releases a reset while
\* another clocks a domain.
EdgesToggle(b) ==
    /\ b \in Instance
    /\ \A s \in DOMAIN edges : edges[s] = 1 - b.in[s]
    /\ ~(Releases(edges) /\ Clocks(edges))

LevelsStored == \A s \in Source : left.in[s] \in Level

\* Half-way through an instant both instances are the instance of before it
\* with the edges committed that each of them has committed.
SameOrigin ==
    \E b \in Instance :
        /\ EdgesToggle(b)
        /\ Committed(b, DOMAIN edges \ leftToDo, left)
        /\ Committed(b, DOMAIN edges \ rightToDo, right)

IInv ==
    /\ TypeOK
    /\ LevelsStored
    /\ at = "idle" => left = right
    /\ at = "committing" => SameOrigin

-----------------------------------------------------------------------------
\* Equal words make equal instances.
LEMMA SameWords ==
    ASSUME NEW i \in Instance, NEW j \in Instance,
           i.d = j.d, i.out = j.out, i.dirty = j.dirty,
           \A k \in Input : i.in[k] = j.in[k], \A f \in Flop : i.q[f] = j.q[f]
    PROVE  i = j
<1>1. i.in = j.in
  BY DEF Instance, InputWords
<1>2. i.q = j.q
  BY DEF Instance, FlopWords
<1> QED
  BY <1>1, <1>2 DEF Instance

\* A commit of one more edge of the instant.
LEMMA OneMore ==
    ASSUME NEW b, NEW S \in SUBSET DOMAIN edges, NEW s \in DOMAIN edges \ S, NEW i,
           EdgesToggle(b), Committed(b, S, i),
           DOMAIN edges \subseteq Source, \A x \in DOMAIN edges : edges[x] \in Level
    PROVE  Committed(b, S \cup {s}, CommitSource(i, s))
<1> DEFINE j == CommitSource(i, s)
<1>1. i \in Instance /\ s \in Source /\ s \in Input /\ edges[s] \in Level
  BY DEF Committed, Source, Input
<1>2. CASE s \in Clock
  <2> DEFINE dom == DomainForEdge(s, edges[s])
  <2>1. dom \in Domain /\ dom[1] = s
    BY <1>1, <1>2, DomainsOfClocks DEF DomainForEdge, Level
  <2>2. edges[s] = dom[2] <=> <<s, edges[s]>> \in Domain
    BY <1>1, <1>2, DomainsOfClocks DEF DomainForEdge, Level
  <2>3. edges[s] = dom[2] => dom = <<s, edges[s]>>
    BY <2>1, <2>2 DEF DomainForEdge
  <2>4. j = CommitClock(i, dom, edges[s], NoUpdates)
    BY <1>2 DEF CommitSource
  <2> HIDE DEF j, dom
  <2>5. /\ j \in Instance
        /\ j.d = i.d /\ j.out = i.out /\ j.dirty = i.dirty
        /\ j.in = [i.in EXCEPT ![s] = edges[s]]
        /\ j.q = [f \in Flop |->
             IF edges[s] = dom[2] /\ FlopDomain[f] = dom /\ ~HeldInReset(j.in, f)
             THEN i.d[f] ELSE i.q[f]]
    BY <1>1, <2>1, <2>4, CommitClockResult
  <2>6. \A k \in Input : j.in[k] = IF k \in S \cup {s} THEN edges[k] ELSE b.in[k]
    BY <2>5, <1>1 DEF Committed, Instance, InputWords
  <2>7. ASSUME NEW f \in Flop PROVE j.q[f] = FlopAfter(b, S \cup {s}, f)
    <3>1. FlopResets[f] \subseteq Reset /\ FlopDomain[f] \in Domain /\ s \notin FlopResets[f]
      BY <1>2, FlopsAreBound, InputRolesDisjoint
    <3>2. Asserted(S \cup {s}, f) <=> Asserted(S, f)
      BY <3>1 DEF Asserted
    <3>3. i.q[f] = FlopAfter(b, S, f) /\ i.d[f] = b.d[f]
      BY DEF Committed
    <3>4. CASE FlopDomain[f] = <<s, edges[s]>>
      <4>1. edges[s] = dom[2] /\ FlopDomain[f] = dom
        BY <3>1, <3>4, <2>2, <2>3
      <4>2. \A r \in Reset \cap DOMAIN edges : edges[r] = ActiveLevel[r]
        BY <3>1, <3>4, <1>2 DEF EdgesToggle, Releases, Clocks
      <4>3. Clocked(S \cup {s}, f)
        BY <3>4, <1>2 DEF Clocked
      <4>4. ~Clocked(S, f)
        BY <3>4 DEF Clocked
      <4>5. CASE Asserted(S, f)
        <5>1. PICK r \in S \cap FlopResets[f] : edges[r] = ActiveLevel[r]
          BY <4>5 DEF Asserted
        <5>2. j.in[r] = ActiveLevel[r]
          BY <5>1, <2>6, <3>1 DEF Input
        <5>3. HeldInReset(j.in, f)
          BY <5>1, <5>2 DEF HeldInReset, ResetActive
        <5> QED BY <5>3, <4>5, <3>2, <3>3, <2>5 DEF FlopAfter
      <4>6. CASE ~Asserted(S, f)
        <5>1. \A r \in FlopResets[f] : r \notin S \cup {s}
          BY <4>6, <4>2, <3>1 DEF Asserted
        <5>2. \A r \in FlopResets[f] : j.in[r] = b.in[r]
          BY <5>1, <2>6, <3>1 DEF Input
        <5>3. HeldInReset(j.in, f) <=> HeldInReset(b.in, f)
          BY <5>2 DEF HeldInReset, ResetActive
        <5> QED BY <5>3, <4>1, <4>3, <4>4, <4>6, <3>2, <3>3, <2>5 DEF FlopAfter
      <4> QED BY <4>5, <4>6
    <3>5. CASE FlopDomain[f] # <<s, edges[s]>>
      <4>1. ~(edges[s] = dom[2] /\ FlopDomain[f] = dom)
        BY <3>5, <2>3
      <4>2. Clocked(S \cup {s}, f) <=> Clocked(S, f)
        BY <3>5 DEF Clocked
      <4> QED BY <4>1, <4>2, <3>2, <3>3, <2>5 DEF FlopAfter
    <3> QED BY <3>4, <3>5
  <2> QED BY <2>5, <2>6, <2>7 DEF Committed, j
<1>3. CASE s \notin Clock
  <2>1. s \in Reset /\ j = CommitReset(i, s, edges[s])
    BY <1>1, <1>3 DEF Source, CommitSource
  <2> HIDE DEF j
  <2>2. /\ j \in Instance
        /\ j.d = i.d /\ j.out = i.out /\ j.dirty = i.dirty
        /\ j.in = [i.in EXCEPT ![s] = edges[s]]
        /\ j.q = [f \in Flop |->
             IF edges[s] = ActiveLevel[s] /\ s \in FlopResets[f]
             THEN ResetValue[f] ELSE i.q[f]]
    BY <1>1, <2>1, CommitResetResult
  <2>3. \A k \in Input : j.in[k] = IF k \in S \cup {s} THEN edges[k] ELSE b.in[k]
    BY <2>2, <1>1 DEF Committed, Instance, InputWords
  <2>4. ASSUME NEW f \in Flop PROVE j.q[f] = FlopAfter(b, S \cup {s}, f)
    <3>1. i.q[f] = FlopAfter(b, S, f)
      BY DEF Committed
    <3>2. Clocked(S \cup {s}, f) <=> Clocked(S, f)
      BY <1>3 DEF Clocked
    <3>3. Asserted(S \cup {s}, f)
            <=> Asserted(S, f) \/ (edges[s] = ActiveLevel[s] /\ s \in FlopResets[f])
      BY DEF Asserted
    <3> QED BY <3>1, <3>2, <3>3, <2>2 DEF FlopAfter
  <2> QED BY <2>2, <2>3, <2>4 DEF Committed, j
<1> QED BY <1>2, <1>3

-----------------------------------------------------------------------------
(* The invariant is inductive.                                             *)

\* Both instances are powered up alike.
LEMMA InitIInv == Init => IInv
<1> SUFFICES ASSUME Init PROVE IInv
  OBVIOUS
<1>1. PICK q0 \in InitialQ("zero", TRUE), in0 \in InputWords :
        /\ \A s \in Source : in0[s] \in Level
        /\ left = InstanceInit(Allocated, q0, in0)
  BY DEF Init
<1>2. Allocated \in Instance
  BY ValuesHoldLevels DEF Allocated, Instance, InputWords, FlopWords, OutputWords, Level
<1>3. q0 \in FlopWords
  BY <1>1 DEF InitialQ
<1>4. left \in Instance /\ left.in = in0
  BY <1>1, <1>2, <1>3, InstanceInitResult
<1>5. edges = NoEdges /\ right = left /\ at = "idle" /\ leftToDo = {} /\ rightToDo = {}
  BY DEF Init
<1>6. \E S \in SUBSET Source : edges \in [S -> Level]
  <2>1. {} \in SUBSET Source /\ edges \in [{} -> Level]
    BY <1>5 DEF NoEdges
  <2> QED BY <2>1
<1>7. TypeOK
  BY <1>4, <1>5, <1>6 DEF TypeOK
<1> QED
  BY <1>1, <1>4, <1>5, <1>7 DEF IInv, LevelsStored

\* Inputs reach both instances alike.
LEMMA DriveIInv ==
    ASSUME IInv, Drive
    PROVE  IInv'
<1>1. at = "idle" /\ left = right /\ left \in Instance /\ LevelsStored
  BY DEF IInv, Drive, TypeOK
<1>2. PICK upd \in [Data -> Value] :
        \/ left' = RecordInputs(left, upd) /\ right' = RecordInputs(right, upd)
        \/ left' = SetInputs(left, upd) /\ right' = SetInputs(right, upd)
  BY DEF Drive
<1>3. Data \in SUBSET Input
  BY DEF Input
<1> DEFINE r == RecordInputs(left, upd)
<1>4. r \in Instance /\ \A k \in Input : r.in[k] = IF k \in Data THEN upd[k] ELSE left.in[k]
  BY <1>1, <1>3, RecordInputsResult
<1>5. Evaluate(r) \in Instance /\ Evaluate(r).in = r.in
  BY <1>4, EvaluateResult
<1>6. left' = right' /\ (left' = r \/ left' = Evaluate(r))
  BY <1>1, <1>2 DEF SetInputs
<1> HIDE DEF r
<1>7. left' \in Instance /\ right' \in Instance /\ left'.in = r.in
  BY <1>4, <1>5, <1>6
<1>8. \A s \in Source : s \in Input /\ s \notin Data
  BY InputRolesDisjoint DEF Source, Input
<1>9. LevelsStored'
  BY <1>1, <1>4, <1>7, <1>8 DEF LevelsStored
<1>10. UNCHANGED <<edges, leftToDo, rightToDo, at>>
  BY DEF Drive
<1>11. TypeOK'
  BY <1>7, <1>10 DEF IInv, TypeOK
<1> QED
  BY <1>1, <1>6, <1>9, <1>10, <1>11 DEF IInv

\* An instant starts from one instance.
LEMMA InstantStartsIInv ==
    ASSUME ~ReleaseWithEdge, IInv, InstantStarts
    PROVE  IInv'
<1>1. at = "idle" /\ left = right /\ left \in Instance /\ LevelsStored
  BY DEF IInv, InstantStarts, TypeOK
<1>2. PICK S \in SUBSET Source \ {{}} :
        LET moved == [s \in S |-> 1 - left.in[s]]
        IN  /\ ~(Releases(moved) /\ Clocks(moved))
            /\ edges' = moved
            /\ leftToDo' = S /\ rightToDo' = S
  BY DEF InstantStarts
<1>3. left' = SettleIfDirty(left) /\ right' = left' /\ at' = "committing"
  BY <1>1 DEF InstantStarts
<1>4. left' \in Instance /\ left'.in = left.in
  BY <1>1, <1>3, EvaluateResult DEF SettleIfDirty
<1>5. edges' = [s \in S |-> 1 - left.in[s]] /\ DOMAIN edges' = S /\ S \subseteq Source
  BY <1>2
<1>6. edges' \in [S -> Level]
  BY <1>1, <1>5 DEF LevelsStored, Level
<1>7. TypeOK'
  BY <1>2, <1>3, <1>4, <1>5, <1>6 DEF TypeOK
<1>8. LevelsStored'
  BY <1>1, <1>4 DEF LevelsStored
<1>9. ~(Releases(edges') /\ Clocks(edges'))
  BY <1>2, <1>5
<1>10. PICK b \in Instance : b = left'
  BY <1>4
<1>11. EdgesToggle(b)'
  BY <1>4, <1>5, <1>9, <1>10 DEF EdgesToggle, Releases, Clocks
<1>12. \A f \in Flop : FlopAfter(b, {}, f)' = b.q[f]
  BY DEF FlopAfter, Asserted, Clocked
<1>13. Committed(b, {}, left)' /\ Committed(b, {}, right)'
  BY <1>3, <1>10, <1>12 DEF Committed
<1>14. DOMAIN edges' \ leftToDo' = {} /\ DOMAIN edges' \ rightToDo' = {}
  BY <1>2, <1>5
<1>15. SameOrigin'
  BY <1>10, <1>11, <1>13, <1>14 DEF SameOrigin
<1> QED
  BY <1>3, <1>7, <1>8, <1>15 DEF IInv

\* One of the instances commits an edge.
LEMMA CommitIInv ==
    ASSUME IInv, NEW s \in Source, CommitLeft(s) \/ CommitRight(s)
    PROVE  IInv'
<1>1. at = "committing" /\ at' = at /\ edges' = edges
  BY DEF CommitLeft, CommitRight
<1>2. PICK b \in Instance :
        /\ EdgesToggle(b)
        /\ Committed(b, DOMAIN edges \ leftToDo, left)
        /\ Committed(b, DOMAIN edges \ rightToDo, right)
  BY <1>1 DEF IInv, SameOrigin
<1>3. /\ DOMAIN edges \subseteq Source /\ \A x \in DOMAIN edges : edges[x] \in Level
      /\ leftToDo \subseteq DOMAIN edges /\ rightToDo \subseteq DOMAIN edges
  BY DEF IInv, TypeOK
<1>4. EdgesToggle(b)'
  BY <1>1, <1>2 DEF EdgesToggle, Releases, Clocks
<1>5. CASE CommitLeft(s)
  <2> DEFINE S == DOMAIN edges \ leftToDo
  <2>1. /\ s \in leftToDo /\ leftToDo' = leftToDo \ {s} /\ left' = CommitSource(left, s)
        /\ right' = right /\ rightToDo' = rightToDo
    BY <1>5 DEF CommitLeft
  <2>2. Committed(b, S \cup {s}, CommitSource(left, s))
    BY <1>2, <1>3, <2>1, OneMore
  <2>3. DOMAIN edges' \ leftToDo' = S \cup {s} /\ DOMAIN edges' \ rightToDo' = DOMAIN edges \ rightToDo
    BY <1>1, <1>3, <2>1
  <2>4. Committed(b, DOMAIN edges \ leftToDo, left)'
    BY <1>1, <2>1, <2>2, <2>3 DEF Committed, FlopAfter, Asserted, Clocked
  <2>5. Committed(b, DOMAIN edges \ rightToDo, right)'
    BY <1>1, <1>2, <2>1, <2>3 DEF Committed, FlopAfter, Asserted, Clocked
  <2>6. SameOrigin'
    BY <1>4, <2>4, <2>5 DEF SameOrigin
  <2>7. left' \in Instance /\ right' \in Instance
    BY <2>1, <2>2 DEF Committed, IInv, TypeOK
  <2>8. TypeOK'
    BY <1>1, <2>1, <2>7 DEF IInv, TypeOK
  <2>9. \A k \in Source : left'.in[k] = IF k \in S \cup {s} THEN edges[k] ELSE b.in[k]
    BY <2>1, <2>2 DEF Committed, Source, Input
  <2>10. \A k \in Source : left.in[k] = IF k \in S THEN edges[k] ELSE b.in[k]
    BY <1>2 DEF Committed, Source, Input
  <2>11. LevelsStored'
    BY <1>3, <2>1, <2>9, <2>10 DEF IInv, LevelsStored
  <2> QED
    BY <1>1, <2>6, <2>8, <2>11 DEF IInv
<1>6. CASE CommitRight(s)
  <2> DEFINE S == DOMAIN edges \ rightToDo
  <2>1. /\ s \in rightToDo /\ rightToDo' = rightToDo \ {s} /\ right' = CommitSource(right, s)
        /\ left' = left /\ leftToDo' = leftToDo
    BY <1>6 DEF CommitRight
  <2>2. Committed(b, S \cup {s}, CommitSource(right, s))
    BY <1>2, <1>3, <2>1, OneMore
  <2>3. DOMAIN edges' \ rightToDo' = S \cup {s} /\ DOMAIN edges' \ leftToDo' = DOMAIN edges \ leftToDo
    BY <1>1, <1>3, <2>1
  <2>4. Committed(b, DOMAIN edges \ rightToDo, right)'
    BY <1>1, <2>1, <2>2, <2>3 DEF Committed, FlopAfter, Asserted, Clocked
  <2>5. Committed(b, DOMAIN edges \ leftToDo, left)'
    BY <1>1, <1>2, <2>1, <2>3 DEF Committed, FlopAfter, Asserted, Clocked
  <2>6. SameOrigin'
    BY <1>4, <2>4, <2>5 DEF SameOrigin
  <2>7. left' \in Instance /\ right' \in Instance
    BY <2>1, <2>2 DEF Committed, IInv, TypeOK
  <2>8. TypeOK'
    BY <1>1, <2>1, <2>7 DEF IInv, TypeOK
  <2>9. LevelsStored'
    BY <2>1 DEF IInv, LevelsStored
  <2> QED
    BY <1>1, <2>6, <2>8, <2>9 DEF IInv
<1> QED
  BY <1>5, <1>6

\* When all edges are committed the instances are the same.
LEMMA AllCommitted ==
    ASSUME IInv, at = "committing", leftToDo = {}, rightToDo = {}
    PROVE  left = right
<1>1. PICK b \in Instance :
        /\ Committed(b, DOMAIN edges, left)
        /\ Committed(b, DOMAIN edges, right)
  BY DEF IInv, SameOrigin
<1>2. /\ left \in Instance /\ right \in Instance
      /\ left.d = right.d /\ left.out = right.out /\ left.dirty = right.dirty
      /\ \A k \in Input : left.in[k] = right.in[k]
      /\ \A f \in Flop : left.q[f] = right.q[f]
  BY <1>1 DEF Committed
<1> QED
  BY <1>2, SameWords

\* The instant ends with one settle on each.
LEMMA InstantEndsIInv ==
    ASSUME IInv, InstantEnds
    PROVE  IInv'
<1>1. at = "committing" /\ leftToDo = {} /\ rightToDo = {}
  BY DEF InstantEnds
<1>2. left = right
  BY <1>1, AllCommitted
<1>3. /\ left' = Evaluate(left) /\ right' = left' /\ at' = "idle"
      /\ edges' = NoEdges /\ leftToDo' = {} /\ rightToDo' = {}
  BY <1>1, <1>2 DEF InstantEnds, Settle
<1>4. left' \in Instance /\ left'.in = left.in
  BY <1>3, EvaluateResult DEF IInv, TypeOK
<1>5. \E S \in SUBSET Source : edges' \in [S -> Level]
  <2>1. {} \in SUBSET Source /\ edges' \in [{} -> Level]
    BY <1>3 DEF NoEdges
  <2> QED BY <2>1
<1>6. TypeOK'
  BY <1>3, <1>4, <1>5 DEF TypeOK
<1> QED
  BY <1>3, <1>4, <1>6 DEF IInv, LevelsStored

\* Doing nothing preserves the invariant.
LEMMA StutterIInv ==
    ASSUME IInv, UNCHANGED vars
    PROVE  IInv'
<1>1. /\ left' = left /\ right' = right /\ edges' = edges /\ at' = at
      /\ leftToDo' = leftToDo /\ rightToDo' = rightToDo
  BY DEF vars
<1>2. ASSUME SameOrigin PROVE SameOrigin'
  <2>1. PICK b \in Instance :
          /\ EdgesToggle(b)
          /\ Committed(b, DOMAIN edges \ leftToDo, left)
          /\ Committed(b, DOMAIN edges \ rightToDo, right)
    BY <1>2 DEF SameOrigin
  <2>2. EdgesToggle(b)'
    BY <1>1, <2>1 DEF EdgesToggle, Releases, Clocks
  <2>3. Committed(b, DOMAIN edges \ leftToDo, left)'
    BY <1>1, <2>1 DEF Committed, FlopAfter, Asserted, Clocked
  <2>4. Committed(b, DOMAIN edges \ rightToDo, right)'
    BY <1>1, <2>1 DEF Committed, FlopAfter, Asserted, Clocked
  <2> QED BY <2>2, <2>3, <2>4 DEF SameOrigin
<1>3. TypeOK'
  BY <1>1 DEF IInv, TypeOK
<1>4. LevelsStored'
  BY <1>1 DEF IInv, LevelsStored
<1> QED
  BY <1>1, <1>2, <1>3, <1>4 DEF IInv

\* While no reset is released at an active clock edge, the two instances are one
\* instance with some of the instant's edges committed.
THEOREM Inductive == ASSUME ~ReleaseWithEdge PROVE Spec => []IInv
<1>1. IInv /\ [Next]_vars => IInv'
  BY DriveIInv, InstantStartsIInv, CommitIInv, InstantEndsIInv, StutterIInv DEF Next
<1> QED
  BY <1>1, InitIInv, PTL DEF Spec

\* The order in which a caller of the ABI commits the edges of an instant makes
\* no difference once it has settled (mate_commit_clock, mate_commit_reset).
THEOREM OrderUnobservable == ASSUME ~ReleaseWithEdge PROVE Spec => []CommitOrderUnobservable
<1>1. IInv => CommitOrderUnobservable
  BY DEF IInv, CommitOrderUnobservable
<1> QED
  BY <1>1, Inductive, PTL

\* Every commit of an instant, on either instance, reads the D of before the
\* first one.
THEOREM PreEdgeSnapshot == ASSUME ~ReleaseWithEdge PROVE Spec => SnapshotHeld
<1> DEFINE Held == at = "committing" /\ at' = "committing"
                     => left'.d = left.d /\ right'.d = right.d /\ left.d = right.d
<1>1. ASSUME IInv, [Next]_vars, at = "committing", at' = "committing"
      PROVE  left'.d = left.d /\ right'.d = right.d /\ left.d = right.d
  <2>1. IInv'
    BY <1>1, DriveIInv, InstantStartsIInv, CommitIInv, InstantEndsIInv, StutterIInv DEF Next
  <2>2. left.d = right.d /\ left'.d = right'.d
    BY <1>1, <2>1 DEF IInv, SameOrigin, Committed
  <2>3. left' = left \/ right' = right
    BY <1>1 DEF Next, Drive, InstantStarts, InstantEnds, CommitLeft, CommitRight, vars
  <2> QED BY <2>2, <2>3
<1>2. IInv /\ [Next]_vars => [Held]_vars
  BY <1>1
<1> QED
  BY <1>2, Inductive, PTL DEF Spec, SnapshotHeld

-----------------------------------------------------------------------------
(* Types, which hold whatever the edges of an instant do: when a reset is  *)
(* released at an active clock edge too, where the instances may differ.   *)

TypeInv == TypeOK /\ \A s \in Source : left.in[s] \in Level /\ right.in[s] \in Level

\* A commit keeps an instance well formed, and its sources at levels.
LEMMA CommitSourceTyped ==
    ASSUME NEW i \in Instance, NEW s \in Source, s \in DOMAIN edges, edges[s] \in Level,
           \A k \in Source : i.in[k] \in Level
    PROVE  /\ CommitSource(i, s) \in Instance
           /\ \A k \in Source : CommitSource(i, s).in[k] \in Level
<1> DEFINE j == CommitSource(i, s)
<1>1. s \in Input /\ Source \subseteq Input /\ i.in \in InputWords /\ i \in Instance /\ edges[s] \in Level
  BY DEF Source, Input, Instance
<1>2. j \in Instance /\ j.in = [i.in EXCEPT ![s] = edges[s]]
  <2>1. CASE s \in Clock
    <3> DEFINE dom == DomainForEdge(s, edges[s])
    <3>1. dom \in Domain /\ dom[1] = s
      BY <2>1, DomainsOfClocks DEF DomainForEdge, Level
    <3>2. j = CommitClock(i, dom, edges[s], NoUpdates)
      BY <2>1 DEF CommitSource
    <3> HIDE DEF j, dom
    <3>3. /\ j \in Instance
          /\ j.d = i.d /\ j.out = i.out /\ j.dirty = i.dirty
          /\ j.in = [i.in EXCEPT ![s] = edges[s]]
          /\ j.q = [f \in Flop |->
               IF edges[s] = dom[2] /\ FlopDomain[f] = dom /\ ~HeldInReset(j.in, f)
               THEN i.d[f] ELSE i.q[f]]
      BY <1>1, <3>1, <3>2, CommitClockResult
    <3> QED BY <3>1, <3>3
  <2>2. CASE s \notin Clock
    <3>1. s \in Reset /\ j = CommitReset(i, s, edges[s])
      BY <2>2 DEF Source, CommitSource
    <3> HIDE DEF j
    <3>2. /\ j \in Instance
          /\ j.d = i.d /\ j.out = i.out /\ j.dirty = i.dirty
          /\ j.in = [i.in EXCEPT ![s] = edges[s]]
          /\ j.q = [f \in Flop |->
               IF edges[s] = ActiveLevel[s] /\ s \in FlopResets[f]
               THEN ResetValue[f] ELSE i.q[f]]
      BY <1>1, <3>1, CommitResetResult
    <3> QED BY <3>2
  <2> QED BY <2>1, <2>2
<1> HIDE DEF j
<1>3. \A k \in Source : j.in[k] \in Level
  BY <1>1, <1>2 DEF InputWords
<1> QED BY <1>2, <1>3 DEF j

\* Inputs recorded, evaluated or not, leave an instance well formed and its
\* sources where they were.
LEMMA DriveTyped ==
    ASSUME NEW i \in Instance, NEW upd \in [Data -> Value]
    PROVE  \A j \in {RecordInputs(i, upd), SetInputs(i, upd)} :
              j \in Instance /\ \A k \in Source : j.in[k] = i.in[k]
<1>1. Data \in SUBSET Input
  BY DEF Input
<1> DEFINE r == RecordInputs(i, upd)
<1>2. r \in Instance /\ \A k \in Input : r.in[k] = IF k \in Data THEN upd[k] ELSE i.in[k]
  BY <1>1, RecordInputsResult
<1>3. \A k \in Source : k \in Input /\ k \notin Data
  BY InputRolesDisjoint DEF Source, Input
<1>4. SetInputs(i, upd) = Evaluate(r)
  BY DEF SetInputs
<1> HIDE DEF r
<1>5. Evaluate(r) \in Instance /\ Evaluate(r).in = r.in
  BY <1>2, EvaluateResult
<1> QED BY <1>2, <1>3, <1>4, <1>5 DEF r

\* Every step keeps the types.
LEMMA NextTyped == TypeInv /\ [Next]_vars => TypeInv'
<1> SUFFICES ASSUME TypeInv, [Next]_vars PROVE TypeInv'
  OBVIOUS
<1>1. /\ left \in Instance /\ right \in Instance
      /\ DOMAIN edges \subseteq Source /\ \A s \in DOMAIN edges : edges[s] \in Level
      /\ \A s \in Source : left.in[s] \in Level /\ right.in[s] \in Level
  BY DEF TypeInv, TypeOK
<1>2. CASE Drive
  <2>1. PICK upd \in [Data -> Value] :
          \/ left' = RecordInputs(left, upd) /\ right' = RecordInputs(right, upd)
          \/ left' = SetInputs(left, upd) /\ right' = SetInputs(right, upd)
    BY <1>2 DEF Drive
  <2>2. left' \in Instance /\ \A k \in Source : left'.in[k] = left.in[k]
    BY <1>1, <2>1, DriveTyped
  <2>3. right' \in Instance /\ \A k \in Source : right'.in[k] = right.in[k]
    BY <1>1, <2>1, DriveTyped
  <2> QED BY <1>1, <1>2, <2>2, <2>3 DEF Drive, TypeInv, TypeOK
<1>3. CASE InstantStarts
  <2>1. PICK S \in SUBSET Source \ {{}} :
          edges' = [s \in S |-> 1 - left.in[s]] /\ leftToDo' = S /\ rightToDo' = S
    BY <1>3 DEF InstantStarts
  <2>2. S \in SUBSET Source /\ edges' \in [S -> Level]
    BY <1>1, <2>1 DEF Level
  <2>3. left' = SettleIfDirty(left) /\ right' = SettleIfDirty(right) /\ at' = "committing"
    BY <1>3 DEF InstantStarts
  <2>4. left' \in Instance /\ left'.in = left.in
    BY <1>1, <2>3, EvaluateResult DEF SettleIfDirty
  <2>5. right' \in Instance /\ right'.in = right.in
    BY <1>1, <2>3, EvaluateResult DEF SettleIfDirty
  <2> QED BY <1>1, <2>1, <2>2, <2>3, <2>4, <2>5 DEF TypeInv, TypeOK
<1>4. ASSUME NEW s \in Source, CommitLeft(s) PROVE TypeInv'
  <2>1. s \in DOMAIN edges /\ edges[s] \in Level
    BY <1>1, <1>4 DEF CommitLeft, TypeInv, TypeOK
  <2>2. left' \in Instance /\ \A k \in Source : left'.in[k] \in Level
    BY <1>1, <1>4, <2>1, CommitSourceTyped DEF CommitLeft
  <2> QED BY <1>1, <1>4, <2>2 DEF CommitLeft, TypeInv, TypeOK
<1>5. ASSUME NEW s \in Source, CommitRight(s) PROVE TypeInv'
  <2>1. s \in DOMAIN edges /\ edges[s] \in Level
    BY <1>1, <1>5 DEF CommitRight, TypeInv, TypeOK
  <2>2. right' \in Instance /\ \A k \in Source : right'.in[k] \in Level
    BY <1>1, <1>5, <2>1, CommitSourceTyped DEF CommitRight
  <2> QED BY <1>1, <1>5, <2>2 DEF CommitRight, TypeInv, TypeOK
<1>6. CASE InstantEnds
  <2>1. left' \in Instance /\ left'.in = left.in
    BY <1>1, <1>6, EvaluateResult DEF InstantEnds, Settle
  <2>2. right' \in Instance /\ right'.in = right.in
    BY <1>1, <1>6, EvaluateResult DEF InstantEnds, Settle
  <2>3. \E S \in SUBSET Source : edges' \in [S -> Level]
    <3>1. {} \in SUBSET Source /\ edges' \in [{} -> Level]
      BY <1>6 DEF InstantEnds, NoEdges
    <3> QED BY <3>1
  <2> QED BY <1>1, <1>6, <2>1, <2>2, <2>3 DEF InstantEnds, TypeInv, TypeOK
<1>7. CASE UNCHANGED vars
  BY <1>7 DEF vars, TypeInv, TypeOK
<1> QED BY <1>2, <1>3, <1>4, <1>5, <1>6, <1>7 DEF Next

\* Both instances keep words within their leaves (copyWordsToStorage masks
\* them) and the edges left are edges of the instant, in any order of the
\* commits and for any edges.
THEOREM TypeCorrect == Spec => []TypeOK
<1>1. Init => TypeInv
  BY InitIInv DEF IInv, TypeInv, LevelsStored, Init
<1>2. TypeInv => TypeOK
  BY DEF TypeInv
<1> QED
  BY <1>1, <1>2, NextTyped, PTL DEF Spec
=============================================================================
