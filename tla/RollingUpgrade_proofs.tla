------------------------ MODULE RollingUpgrade_proofs ------------------------
(***************************************************************************)
(* Proofs about RollingUpgrade, for every list of requests, set of nodes,  *)
(* MaxUnavailable and bound.                                               *)
(***************************************************************************)
EXTENDS RollingUpgrade, FiniteSetTheorems, TLAPS

\* The places between having a slot and reporting: the calls of upgradeNode.
Calling == {"preflight", "cordon", "reconcile", "check", "wait", "uncordon"}

Goroutine == [pc : Places, ok : BOOLEAN, ticks : 0 .. Ticks]

\* The semaphore has at least one slot, the requests are numbered 1 .. N.
LEMMA Constants == N \in Nat /\ Cap \in Nat /\ Cap >= 1 /\ \A i \in Idx : Node(i) \in STRING
<1>1. N \in Nat
  BY RequestedAssumption DEF N
<1>2. Cap \in Nat /\ Cap >= 1
  BY MaxUnavailableAssumption DEF Cap
<1>3. \A i \in Idx : Node(i) \in STRING
  BY RequestedAssumption DEF N, Idx, Node
<1> QED BY <1>1, <1>2, <1>3

\* The goroutines at work are a finite set.
LEMMA AtWorkFinite == IsFiniteSet(AtWork) /\ Cardinality(AtWork) \in Nat
<1>1. IsFiniteSet(Idx)
  BY Constants, FS_Interval DEF Idx
<1>2. AtWork \subseteq Idx
  BY DEF AtWork
<1> QED BY <1>1, <1>2, FS_Subset, FS_CardinalityType

\* Every call of upgradeNode takes its goroutine to another call or to its report, and
\* changes nothing else on the caller's side.
Moves(i, to) ==
  /\ g' \in [Idx -> Goroutine]
  /\ g'[i].pc \in to
  /\ \A j \in Idx : j # i => g'[j] = g[j]

LEMMA CallStep ==
  ASSUME TypeOK, NEW i \in Idx,
         \/ Preflight(i) \/ CordonNode(i) \/ TriggerReconcile(i)
         \/ CheckNow(i) \/ Wait(i) \/ UncordonNode(i)
  PROVE  /\ UNCHANGED callerVars
         /\ g[i].pc \in Calling
         /\ Moves(i, Calling \cup {"report"})
<1>g. g \in [Idx -> Goroutine] /\ Ticks \in Nat
  BY BoundsAssumption DEF TypeOK, Goroutine
<1>m. ASSUME NEW p \in Calling \cup {"report"}, Goto(i, p)
      PROVE  Moves(i, Calling \cup {"report"})
  BY <1>g, <1>m DEF Goto, Moves, Goroutine, Calling, Places
<1>s. ASSUME Synced(i) \/ GiveUp(i)
      PROVE  Moves(i, Calling \cup {"report"})
  BY <1>g, <1>s DEF Synced, GiveUp, Moves, Goroutine, Calling, Places
<1>n. ASSUME NotSynced(i), At(i, "check") \/ (At(i, "wait") /\ g[i].ticks # Ticks)
      PROVE  Moves(i, Calling \cup {"report"})
  <2>1. g[i].ticks + 1 \in 0 .. Ticks \/ ~At(i, "wait")
    BY <1>g, <1>n DEF Goroutine, At
  <2> QED BY <1>g, <1>n, <2>1 DEF NotSynced, Moves, Goroutine, Calling, Places, At
<1>1. CASE Preflight(i)
  BY <1>1, <1>m DEF Preflight, At, Calling
<1>2. CASE CordonNode(i)
  BY <1>2, <1>m DEF CordonNode, At, Calling
<1>3. CASE TriggerReconcile(i)
  BY <1>3, <1>m DEF TriggerReconcile, At, Calling
<1>4. CASE CheckNow(i)
  BY <1>4, <1>s, <1>n DEF CheckNow, At, Calling
<1>5. CASE Wait(i)
  BY <1>5, <1>s, <1>n DEF Wait, At, Calling
<1>6. CASE UncordonNode(i)
  BY <1>6, <1>m DEF UncordonNode, At, Calling
<1> QED BY <1>1, <1>2, <1>3, <1>4, <1>5, <1>6

\* The variables that describe the caller, and those that describe the nodes, have their
\* types.
CallerTyped ==
  /\ main \in [pc : {"head", "pause", "look", "acquire", "drain", "done", "cut"},
               i : 1 .. N + 1, drained : 0 .. Cap]
  /\ sem \in Nat
  /\ g \in [Idx -> Goroutine]
  /\ results \in [Idx -> 0 .. 1]
  /\ returned \in [Idx -> 0 .. 1]

NodesTyped ==
  /\ cancelled \in BOOLEAN
  /\ cordoned \in [Nodes -> BOOLEAN]
  /\ health \in [Nodes -> {"down", "starting", "syncing", "synced"}]
  /\ leaked \subseteq Nodes
  /\ troubles \in 0 .. MaxTroubles

\* TypeOK is the two together.
LEMMA TypeSplit == TypeOK <=> CallerTyped /\ NodesTyped
BY DEF TypeOK, CallerTyped, NodesTyped, Goroutine

\* A goroutine past its launch has a node with a client.
LEMMA AtWorkHasClient ==
  ASSUME Placed, NEW i \in Idx, g[i].pc # "none"
  PROVE  Node(i) \in Nodes
BY DEF Placed

\* Every step keeps the types of the node side.
LEMMA NodesTypeStep ==
  ASSUME TypeOK, Placed, [Next]_vars
  PROVE  NodesTyped'
<1>t. NodesTyped /\ MaxTroubles \in Nat
  BY TypeSplit, BoundsAssumption
<1>1. CASE MainStep
  BY <1>1, <1>t DEF MainStep, NextNode, Pause, Look, Launch, Drain, NodesTyped, nodeVars
<1>2. CASE Cancel
  BY <1>2, <1>t DEF Cancel, NodesTyped, nodeVars
<1>3. ASSUME NEW i \in Idx, UpgradeStep(i)
      PROVE  NodesTyped'
  <2>n. At(i, "cordon") \/ At(i, "reconcile") \/ At(i, "uncordon") => Node(i) \in Nodes
    BY AtWorkHasClient DEF At
  <2>1. CASE Preflight(i)
    BY <2>1, <1>t DEF Preflight, NodesTyped, nodeVars, CallFails, Trouble
  <2>2. CASE CordonNode(i)
    <3>1. Node(i) \in Nodes
      BY <2>2, <2>n DEF CordonNode
    <3>2. cordoned' \in [Nodes -> BOOLEAN] /\ leaked' \subseteq Nodes
      BY <2>2, <1>t, <3>1 DEF CordonNode, NodesTyped
    <3>3. UNCHANGED <<cancelled, health>> /\ troubles' \in 0 .. MaxTroubles
      BY <2>2, <1>t DEF CordonNode, NodesTyped, CallFails, Trouble
    <3> QED BY <1>t, <3>2, <3>3 DEF NodesTyped
  <2>3. CASE TriggerReconcile(i)
    BY <2>3, <1>t, <2>n DEF TriggerReconcile, NodesTyped, CallFails, Trouble
  <2>4. CASE CheckNow(i)
    BY <2>4, <1>t DEF CheckNow, NodesTyped, nodeVars, Synced, NotSynced, CallFails, Trouble
  <2>5. CASE Wait(i)
    BY <2>5, <1>t
    DEF Wait, NodesTyped, nodeVars, Synced, NotSynced, GiveUp, CallFails, Trouble
  <2>6. CASE UncordonNode(i)
    <3>1. Node(i) \in Nodes
      BY <2>6, <2>n DEF UncordonNode
    <3>2. cordoned' \in [Nodes -> BOOLEAN] /\ leaked' \subseteq Nodes
      BY <2>6, <1>t, <3>1 DEF UncordonNode, NodesTyped
    <3>3. UNCHANGED <<cancelled, health>> /\ troubles' \in 0 .. MaxTroubles
      BY <2>6, <1>t DEF UncordonNode, NodesTyped, CallFails, Trouble
    <3> QED BY <1>t, <3>2, <3>3 DEF NodesTyped
  <2>7. CASE Report(i) \/ Release(i)
    BY <2>7, <1>t DEF Report, Release, NodesTyped, nodeVars
  <2> QED BY <1>3, <2>1, <2>2, <2>3, <2>4, <2>5, <2>6, <2>7 DEF UpgradeStep
<1>4. ASSUME NEW n \in Nodes, Progress(n) \/ LoopHeals(n) \/ FallBehind(n) \/ AgentRestart(n)
      PROVE  NodesTyped'
  <2>1. CASE Progress(n)
    BY <2>1, <1>t DEF Progress, NodesTyped
  <2>2. CASE LoopHeals(n)
    BY <2>2, <1>t DEF LoopHeals, NodesTyped
  <2>3. CASE FallBehind(n)
    BY <2>3, <1>t DEF FallBehind, NodesTyped, Trouble
  <2>4. CASE AgentRestart(n)
    BY <2>4, <1>t DEF AgentRestart, NodesTyped, Trouble
  <2> QED BY <1>4, <2>1, <2>2, <2>3, <2>4
<1>5. CASE UNCHANGED vars
  BY <1>5, <1>t DEF vars, NodesTyped
<1> QED BY <1>1, <1>2, <1>3, <1>4, <1>5 DEF Next

\* A step that leaves the caller's side alone keeps what the invariant says of it.
LEMMA CallerStutter ==
  ASSUME IInv, UNCHANGED <<callerVars, g>>
  PROVE  CallerTyped' /\ Placed' /\ Counted' /\ Indexed' /\ Slots' /\ Settled'
<1>1. CallerTyped
  BY TypeSplit DEF IInv
<1>2. AtWork' = AtWork
  BY DEF AtWork, callerVars
<1> QED
  BY <1>1, <1>2 DEF IInv, CallerTyped, Placed, Counted, Indexed, Slots, Settled, callerVars

\* The caller's part of IInv; with the types of the nodes it is all of IInv.
CallerInv == CallerTyped /\ Placed /\ Counted /\ Indexed /\ Slots /\ Settled

\* IInv in those two parts: the steps of one leave the other alone.
LEMMA InvSplit == IInv <=> CallerInv /\ NodesTyped
BY TypeSplit DEF IInv, CallerInv

\* The state of RollingUpgrade itself, and what a step makes of it.
Caller == [pc : {"head", "pause", "look", "acquire", "drain", "done", "cut"},
           i : 1 .. N + 1, drained : 0 .. Cap]
MainIs(pc, i, drained) ==
  main' \in Caller /\ main'.pc = pc /\ main'.i = i /\ main'.drained = drained

\* RollingUpgrade's own steps.
LEMMA MainInvariant ==
  ASSUME IInv, MainStep
  PROVE  CallerInv'
<1>c. N \in Nat /\ Cap \in Nat /\ Cap >= 1 /\ Idx = 1 .. N
  BY Constants DEF Idx
<1>t. CallerInv
  BY InvSplit
<1>1. CASE NextNode
  <2>1. AtWork' = AtWork
    BY <1>1 DEF AtWork, NextNode
  <2> QED
    BY <1>1, <1>c, <1>t, <2>1
    DEF NextNode, CallerInv, CallerTyped, Placed, Counted, Indexed, Slots, Settled
<1>2. CASE Pause
  <2>1. AtWork' = AtWork
    BY <1>2 DEF AtWork, Pause
  <2> QED
    BY <1>2, <1>c, <1>t, <2>1
    DEF Pause, CallerInv, CallerTyped, Placed, Counted, Indexed, Slots, Settled
<1>m. main \in Caller
  BY <1>t DEF CallerInv, CallerTyped, Caller
<1>3. CASE Look
  <2> DEFINE k == main.i
  <2>1. k \in Idx /\ k + 1 \in 1 .. N + 1 /\ main.drained = 0 /\ main.pc = "look"
    BY <1>3, <1>c, <1>t, <1>m DEF Look, CallerInv, Indexed, Caller
  <2>2. AtWork' = AtWork /\ UNCHANGED <<g, sem, returned>>
    BY <1>3 DEF AtWork, Look
  <2>3. CASE Node(k) \in Nodes
    <3>1. MainIs("acquire", k, 0) /\ UNCHANGED results
      BY <1>3, <1>m, <2>1, <2>3 DEF Look, MainIs, Caller
    <3>2. CallerTyped' /\ Placed' /\ Counted'
      BY <2>1, <2>2, <3>1, <1>t DEF CallerInv, CallerTyped, Placed, Counted, MainIs, Caller
    <3> QED
      BY <2>1, <2>2, <2>3, <3>1, <3>2, <1>c, <1>t
      DEF CallerInv, Indexed, Slots, Settled, MainIs
  <2>4. CASE Node(k) \notin Nodes
    <3>1. MainIs("head", k + 1, 0)
      BY <1>3, <1>m, <2>1, <2>4 DEF Look, MainIs, Caller
    <3>2. results[k] = 0 /\ results \in [Idx -> 0 .. 1]
      BY <1>t, <2>1, <1>c DEF CallerInv, CallerTyped, Counted
    <3>3. results' = [results EXCEPT ![k] = 1]
      BY <1>3, <2>4, <3>2 DEF Look
    <3>4. CallerTyped'
      BY <2>1, <2>2, <3>1, <3>2, <3>3, <1>t DEF CallerInv, CallerTyped, MainIs, Caller
    <3>5. Placed' /\ Counted'
      BY <2>1, <2>2, <2>4, <3>1, <3>2, <3>3, <1>c, <1>t
      DEF CallerInv, Placed, Counted, MainIs
    <3> QED
      BY <2>1, <2>2, <3>1, <3>4, <3>5, <1>c, <1>t DEF CallerInv, Indexed, Slots, Settled, MainIs
  <2> QED BY <2>3, <2>4
<1>4. CASE Launch
  <2> DEFINE k == main.i
  <2>1. /\ k \in Idx /\ k + 1 \in 1 .. N + 1 /\ Node(k) \in Nodes
        /\ main.drained = 0 /\ main.pc = "acquire"
    BY <1>4, <1>c, <1>t, <1>m DEF Launch, CallerInv, Indexed, Caller
  <2>2. g[k].pc = "none" /\ k \notin AtWork
    BY <1>t, <2>1, <1>c DEF CallerInv, Placed, AtWork
  <2>3. Moves(k, {"cordon", "preflight"})
    BY <1>4, <1>t, <2>1 DEF Launch, Moves, CallerInv, CallerTyped, Goroutine, Places
  <2>4. AtWork' = AtWork \cup {k}
    BY <2>1, <2>3 DEF AtWork, Moves
  <2>5. Cardinality(AtWork') = Cardinality(AtWork) + 1
    BY <2>2, <2>4, AtWorkFinite, FS_AddElement
  <2>6. sem' = sem + 1 /\ sem < Cap /\ UNCHANGED <<results, returned>>
    BY <1>4 DEF Launch
  <2>7. MainIs("head", k + 1, 0)
    BY <1>4, <1>m, <2>1 DEF Launch, MainIs, Caller
  <2>8. CallerTyped'
    BY <2>3, <2>6, <2>7, <1>t DEF CallerInv, CallerTyped, Moves, MainIs, Caller
  <2>9. Placed'
    BY <2>1, <2>3, <2>7, <1>t, <1>c DEF CallerInv, Placed, Moves, MainIs
  <2>10. Counted'
    BY <2>1, <2>2, <2>3, <2>6, <2>7, <1>t, <1>c DEF CallerInv, Counted, Moves, MainIs
  <2>11. Indexed' /\ Slots' /\ Settled'
    BY <2>1, <2>5, <2>6, <2>7, <1>t, <1>c, AtWorkFinite
    DEF CallerInv, CallerTyped, Indexed, Slots, Settled, MainIs
  <2> QED BY <2>8, <2>9, <2>10, <2>11 DEF CallerInv
<1>5. CASE Drain
  <2>1. AtWork' = AtWork /\ UNCHANGED <<g, results>> /\ main.pc = "drain" /\ main.i = N + 1
    BY <1>5, <1>t DEF AtWork, Drain, CallerInv, Indexed
  <2>2. CASE main.drained < Cap
    <3>1. MainIs("drain", N + 1, main.drained + 1)
      BY <1>5, <1>c, <1>m, <2>1, <2>2 DEF Drain, MainIs, Caller
    <3>2. sem' = sem + 1 /\ sem < Cap /\ UNCHANGED returned
      BY <1>5, <2>2 DEF Drain
    <3>3. CallerTyped'
      BY <2>1, <3>1, <3>2, <1>t DEF CallerInv, CallerTyped, MainIs, Caller
    <3>4. main'.i = main.i
      BY <2>1, <3>1 DEF MainIs
    <3>5. Placed' /\ Counted'
      BY <2>1, <3>4, <1>t DEF CallerInv, Placed, Counted
    <3>6. Slots'
      <4>1. sem = Cardinality(AtWork) + main.drained /\ main.drained \in Nat
        BY <1>c, <1>m, <1>t DEF CallerInv, Slots, Caller
      <4>2. sem' = Cardinality(AtWork') + (main.drained + 1) /\ sem' <= Cap
        BY <2>1, <3>2, <4>1, <1>c, AtWorkFinite
      <4> QED BY <3>1, <4>2 DEF Slots, MainIs
    <3> QED BY <3>1, <3>3, <3>5, <3>6 DEF CallerInv, Indexed, Settled, MainIs
  <2>3. CASE ~(main.drained < Cap)
    <3>1. main.drained = Cap
      BY <2>3, <1>c, <1>m DEF Caller
    <3>2. MainIs("done", N + 1, Cap) /\ returned' = results /\ UNCHANGED sem
      BY <1>5, <1>c, <1>m, <2>1, <2>3, <3>1 DEF Drain, MainIs, Caller
    <3>3. AtWork = {}
      <4>1. Cardinality(AtWork) = 0
        BY <3>1, <1>c, <1>t, AtWorkFinite DEF CallerInv, CallerTyped, Slots
      <4> QED BY <4>1, AtWorkFinite, FS_EmptySet
    <3>4. ASSUME NEW i \in Idx PROVE results[i] = 1
      <4>1. i < main.i /\ ~(i >= main.i)
        BY <2>1, <1>c
      <4>2. g[i].pc = "end" \/ Node(i) \notin Nodes
        BY <3>3, <4>1, <1>t DEF AtWork, CallerInv, Placed
      <4> QED BY <4>1, <4>2, <1>t DEF CallerInv, Counted
    <3>5. CallerTyped' /\ Placed' /\ Counted'
      BY <2>1, <3>2, <1>c, <1>t DEF CallerInv, CallerTyped, Placed, Counted, MainIs, Caller
    <3> QED
      BY <2>1, <3>1, <3>2, <3>4, <3>5, <1>t DEF CallerInv, Indexed, Slots, Settled, MainIs
  <2> QED BY <2>2, <2>3
<1> QED BY <1>1, <1>2, <1>3, <1>4, <1>5 DEF MainStep

\* The goroutines' steps: a call keeps the goroutine at work, a report counts its result,
\* a release takes it off the set of those at work and off the semaphore at once.
LEMMA GoroutineInvariant ==
  ASSUME IInv, NEW i \in Idx, UpgradeStep(i)
  PROVE  CallerInv'
<1>c. N \in Nat /\ Cap \in Nat /\ Cap >= 1 /\ Idx = 1 .. N
  BY Constants DEF Idx
<1>t. CallerInv
  BY InvSplit
<1>1. CASE \/ Preflight(i) \/ CordonNode(i) \/ TriggerReconcile(i)
           \/ CheckNow(i) \/ Wait(i) \/ UncordonNode(i)
  <2>1. UNCHANGED callerVars /\ g[i].pc \in Calling /\ Moves(i, Calling \cup {"report"})
    BY <1>1, CallStep DEF IInv
  <2>2. AtWork' = AtWork
    BY <2>1 DEF AtWork, Moves, Calling
  <2>3. CallerTyped' /\ Placed' /\ Counted'
    BY <2>1, <1>t
    DEF CallerInv, CallerTyped, Placed, Counted, Moves, Calling, callerVars
  <2> QED
    BY <2>1, <2>2, <2>3, <1>t DEF CallerInv, Indexed, Slots, Settled, callerVars
<1>2. CASE Report(i)
  <2>1. g[i].pc = "report" /\ Moves(i, {"release"})
    BY <1>2, <1>t DEF Report, At, Goto, Moves, CallerInv, CallerTyped, Goroutine, Places
  <2>2. AtWork' = AtWork
    BY <2>1 DEF AtWork, Moves
  <2>3. i < main.i /\ Node(i) \in Nodes /\ results[i] = 0
    BY <2>1, <1>c, <1>t DEF CallerInv, CallerTyped, Placed, Counted
  <2>4. results' = [results EXCEPT ![i] = 1] /\ UNCHANGED <<main, sem, returned>>
    BY <1>2, <2>3 DEF Report
  <2>5. CallerTyped' /\ Placed' /\ Counted'
    BY <2>1, <2>3, <2>4, <1>c, <1>t
    DEF CallerInv, CallerTyped, Placed, Counted, Moves
  <2> QED
    BY <2>2, <2>4, <2>5, <1>t DEF CallerInv, Indexed, Slots, Settled
<1>3. CASE Release(i)
  <2>1. g[i].pc = "release" /\ Moves(i, {"end"})
    BY <1>3, <1>t DEF Release, At, Goto, Moves, CallerInv, CallerTyped, Goroutine, Places
  <2>2. AtWork' = AtWork \ {i} /\ i \in AtWork
    BY <2>1 DEF AtWork, Moves
  <2>3. Cardinality(AtWork') = Cardinality(AtWork) - 1
    BY <2>2, AtWorkFinite, FS_RemoveElement
  <2>4. sem' = sem - 1 /\ UNCHANGED <<main, results, returned>>
    BY <1>3 DEF Release
  <2>5. sem >= 1 /\ Cardinality(AtWork) >= 1 /\ main.drained \in Nat
    BY <2>2, AtWorkFinite, FS_EmptySet, <1>c, <1>t DEF CallerInv, CallerTyped, Slots
  <2>6. CallerTyped' /\ Placed' /\ Counted'
    BY <2>1, <2>4, <2>5, <1>c, <1>t
    DEF CallerInv, CallerTyped, Placed, Counted, Moves
  <2> QED
    BY <2>3, <2>4, <2>5, <2>6, <1>c, <1>t, AtWorkFinite
    DEF CallerInv, CallerTyped, Indexed, Slots, Settled
<1> QED BY <1>1, <1>2, <1>3 DEF UpgradeStep

-----------------------------------------------------------------------------
(* The theorems.                                                           *)

\* The initial states satisfy the invariant.
LEMMA InitInvariant ==
  ASSUME Init
  PROVE  IInv
<1>c. N \in Nat /\ Cap \in Nat /\ Cap >= 1 /\ Idx = 1 .. N
  BY Constants DEF Idx
<1>1. AtWork = {} /\ Cardinality(AtWork) = 0
  BY FS_EmptySet DEF Init, AtWork
<1>2. TypeOK
  <2>1. main \in Caller
    BY <1>c DEF Init, Caller
  <2>2. g \in [Idx -> Goroutine]
    BY <1>c, BoundsAssumption DEF Init, Goroutine, Places
  <2>3. sem \in Nat /\ results \in [Idx -> 0 .. 1] /\ returned \in [Idx -> 0 .. 1]
    BY <1>c DEF Init, NoResults
  <2>4. NodesTyped
    <3>1. cordoned \in [Nodes -> BOOLEAN]
      BY DEF Init
    <3>2. health \in [Nodes -> {"down", "starting", "syncing", "synced"}]
      BY DEF Init
    <3>3. leaked \subseteq Nodes /\ troubles \in 0 .. MaxTroubles
      <4>1. leaked = {} /\ troubles = 0
        BY DEF Init
      <4> QED BY <4>1, BoundsAssumption
    <3>4. cancelled \in BOOLEAN
      BY DEF Init
    <3> QED BY <3>1, <3>2, <3>3, <3>4 DEF NodesTyped
  <2> QED BY <2>1, <2>2, <2>3, <2>4, TypeSplit DEF CallerTyped, Caller
<1>3. Placed /\ Counted
  BY <1>c DEF Init, Placed, Counted, NoResults
<1>4. Indexed /\ Slots /\ Settled
  BY <1>c, <1>1 DEF Init, Indexed, Slots, Settled
<1> QED BY <1>2, <1>3, <1>4 DEF IInv

\* Every step keeps it.
LEMMA NextInvariant ==
  ASSUME IInv, [Next]_vars
  PROVE  IInv'
<1>1. NodesTyped'
  BY NodesTypeStep DEF IInv
<1>2. CallerInv'
  <2>1. CASE MainStep
    BY <2>1, MainInvariant
  <2>2. ASSUME NEW i \in Idx, UpgradeStep(i)
        PROVE  CallerInv'
    BY <2>2, GoroutineInvariant
  <2>3. CASE UNCHANGED <<callerVars, g>>
    BY <2>3, CallerStutter DEF CallerInv
  <2>4. CASE Cancel
    BY <2>4, <2>3 DEF Cancel
  <2>5. ASSUME NEW n \in Nodes,
               Progress(n) \/ LoopHeals(n) \/ FallBehind(n) \/ AgentRestart(n)
        PROVE  CallerInv'
    BY <2>5, <2>3 DEF Progress, LoopHeals, FallBehind, AgentRestart
  <2>6. CASE UNCHANGED vars
    BY <2>6, <2>3 DEF vars, callerVars
  <2> QED BY <2>1, <2>2, <2>4, <2>5, <2>6 DEF Next
<1>3. (CallerTyped /\ NodesTyped => TypeOK)'
  BY TypeSplit, PTL
<1> QED BY <1>1, <1>2, <1>3 DEF IInv, CallerInv

\* IInv is an invariant of every behaviour.
THEOREM Invariance == Spec => []IInv
BY InitInvariant, NextInvariant, PTL DEF Spec

\* Every variable keeps its type, whatever is requested and whatever fails.
THEOREM TypeCorrect == Spec => []TypeOK
<1>1. IInv => TypeOK
  BY DEF IInv
<1> QED BY <1>1, Invariance, PTL

\* Never more than MaxUnavailable upgrades (one, if that is smaller) are under way: each
\* of them holds a slot of its own.
THEOREM BoundedUnavailability == Spec => []AtMostMaxUnavailable
<1>1. IInv => AtMostMaxUnavailable
  <2> SUFFICES ASSUME IInv
               PROVE  Cardinality(AtWork) <= Cap
    BY DEF AtMostMaxUnavailable
  <2>1. main.drained \in Nat /\ sem = Cardinality(AtWork) + main.drained /\ sem <= Cap
    BY Constants DEF IInv, TypeOK, Slots
  <2> QED BY <2>1, AtWorkFinite, Constants
<1> QED BY <1>1, Invariance, PTL

\* A call that returns from its last line leaves no goroutine behind and hands over one
\* result for each request: the drained slots leave no room for another goroutine.
THEOREM CompleteReturns == Spec => []ReturnIsComplete
<1>1. IInv => ReturnIsComplete
  <2> SUFFICES ASSUME IInv, main.pc = "done"
               PROVE  AtWork = {} /\ \A i \in Idx : returned[i] = 1
    BY DEF ReturnIsComplete
  <2>1. main.drained = Cap /\ \A i \in Idx : returned[i] = 1
    BY DEF IInv, Settled
  <2>2. Cardinality(AtWork) = 0
    BY <2>1, AtWorkFinite, Constants DEF IInv, Slots
  <2> QED BY <2>1, <2>2, AtWorkFinite, FS_EmptySet
<1> QED BY <1>1, Invariance, PTL
-----------------------------------------------------------------------------
(* Cordons.                                                                *)

Holding == {"reconcile", "check", "wait", "uncordon"}

\* A call of upgradeNode other than the cordon and the uncordon keeps the goroutine's
\* hold on its node's cordon and leaves the cordon itself alone.
LEMMA HoldStep ==
  ASSUME TypeOK, NEW i \in Idx,
         \/ Preflight(i) \/ TriggerReconcile(i) \/ CheckNow(i) \/ Wait(i)
         \/ Report(i) \/ Release(i)
  PROVE  /\ UNCHANGED <<cordoned, leaked>>
         /\ \A j \in Idx : g[j].pc \in Holding => g'[j].pc \in Holding
<1>g. g \in [Idx -> Goroutine]
  BY DEF TypeOK, Goroutine
<1>1. CASE Preflight(i)
  BY <1>1, <1>g DEF Preflight, At, Goto, Holding, Goroutine, nodeVars
<1>2. CASE TriggerReconcile(i)
  BY <1>2, <1>g DEF TriggerReconcile, Goto, Holding, Goroutine
<1>3. CASE CheckNow(i)
  BY <1>3, <1>g DEF CheckNow, Synced, NotSynced, Holding, Goroutine, nodeVars
<1>4. CASE Wait(i)
  BY <1>4, <1>g DEF Wait, Synced, NotSynced, GiveUp, Holding, Goroutine, nodeVars
<1>5. CASE Report(i) \/ Release(i)
  BY <1>5, <1>g DEF Report, Release, At, Goto, Holding, Goroutine, nodeVars
<1> QED BY <1>1, <1>2, <1>3, <1>4, <1>5

\* A step that leaves the cordon alone and keeps every hold keeps it accounted for.
LEMMA HoldKept ==
  ASSUME CordonIsAccountedFor, UNCHANGED <<cordoned, leaked>>,
         \A j \in Idx : g[j].pc \in Holding => g'[j].pc \in Holding
  PROVE  CordonIsAccountedFor'
BY DEF CordonIsAccountedFor, UnderCordon, Holding

\* Every step of the system keeps every cordon accounted for.
LEMMA CordonStep ==
  ASSUME IInv, CordonIsAccountedFor, [Next]_vars
  PROVE  CordonIsAccountedFor'
<1>g. g \in [Idx -> Goroutine] /\ cordoned \in [Nodes -> BOOLEAN] /\ TypeOK /\ Placed
  BY DEF IInv, TypeOK, Goroutine
<1>1. CASE MainStep
  <2>1. CASE Launch
    <3>1. main.i \in Idx /\ g[main.i].pc = "none"
      BY <2>1, <1>g, Constants DEF Launch, IInv, TypeOK, Indexed, Placed, Idx
    <3> QED
      BY <2>1, <3>1, <1>g, HoldKept DEF Launch, Holding, Goroutine, nodeVars
  <2>2. CASE NextNode \/ Pause \/ Look \/ Drain
    BY <2>2, HoldKept DEF NextNode, Pause, Look, Drain, nodeVars
  <2> QED BY <1>1, <2>1, <2>2 DEF MainStep
<1>2. CASE Cancel \/ UNCHANGED vars
  BY <1>2, HoldKept DEF Cancel, nodeVars, vars
<1>3. ASSUME NEW i \in Idx, UpgradeStep(i)
      PROVE  CordonIsAccountedFor'
  <2>1. CASE CordonNode(i)
    <3> DEFINE n == Node(i)
    <3>1. n \in Nodes /\ g[i].pc = "cordon"
      BY <2>1, <1>g, AtWorkHasClient DEF CordonNode, At
    <3>2. \A j \in Idx : g[j].pc \in Holding => g'[j].pc \in Holding
      BY <2>1, <1>g, <3>1 DEF CordonNode, Goto, Holding, Goroutine
    <3>3. \A m \in Nodes \ {n} : cordoned'[m] = cordoned[m] /\ (m \in leaked' <=> m \in leaked)
      BY <2>1, <1>g, <3>1 DEF CordonNode
    <3>4. \/ g'[i].pc \in Holding
          \/ n \in leaked'
          \/ UNCHANGED <<cordoned, leaked>>
      BY <2>1, <1>g DEF CordonNode, Goto, Holding, Goroutine
    <3> QED
      BY <3>1, <3>2, <3>3, <3>4, HoldKept DEF CordonIsAccountedFor, UnderCordon, Holding
  <2>2. CASE UncordonNode(i)
    <3> DEFINE n == Node(i)
    <3>1. n \in Nodes
      BY <2>2, <1>g, AtWorkHasClient DEF UncordonNode, At
    <3>2. \A j \in Idx \ {i} : g'[j] = g[j]
      BY <2>2, <1>g DEF UncordonNode, Goto
    <3>3. \A m \in Nodes \ {n} : cordoned'[m] = cordoned[m] /\ (m \in leaked' <=> m \in leaked)
      BY <2>2, <1>g, <3>1 DEF UncordonNode
    <3>4. cordoned'[n] => n \in leaked'
      BY <2>2, <1>g, <3>1 DEF UncordonNode
    <3>5. ASSUME NEW m \in Nodes, m # n, UnderCordon(m)
          PROVE  UnderCordon(m)'
      BY <3>2, <3>5 DEF UnderCordon
    <3> QED BY <3>1, <3>3, <3>4, <3>5 DEF CordonIsAccountedFor
  <2> QED BY <1>3, <1>g, <2>1, <2>2, HoldStep, HoldKept DEF UpgradeStep
<1>4. ASSUME NEW n \in Nodes, Progress(n) \/ LoopHeals(n) \/ FallBehind(n) \/ AgentRestart(n)
      PROVE  CordonIsAccountedFor'
  <2>1. CASE Progress(n) \/ LoopHeals(n) \/ FallBehind(n)
    BY <2>1, HoldKept DEF Progress, LoopHeals, FallBehind
  <2>2. CASE AgentRestart(n)
    <3>1. /\ ~cordoned'[n]
          /\ \A m \in Nodes \ {n} : cordoned'[m] = cordoned[m] /\ (m \in leaked' <=> m \in leaked)
          /\ UNCHANGED g
      BY <2>2, <1>g DEF AgentRestart
    <3> QED BY <3>1 DEF CordonIsAccountedFor, UnderCordon
  <2> QED BY <1>4, <2>1, <2>2
<1> QED BY <1>1, <1>2, <1>3, <1>4 DEF Next

\* A cordoned node is always under a goroutine that will lift its cordon, or a call about
\* its cordon has failed: no path through upgradeNode forgets the cordon it took.
THEOREM CordonsAccounted == Spec => []CordonIsAccountedFor
<1>1. Init => CordonIsAccountedFor
  BY DEF Init, CordonIsAccountedFor
<1> QED BY <1>1, Invariance, CordonStep, PTL DEF Spec
-----------------------------------------------------------------------------
(* RollingUpgrade implements RollingPlan.                                  *)

StageOf(i) == IF i >= main.i THEN "todo"
              ELSE IF Node(i) \notin Nodes THEN "failed"
              ELSE IF g[i].pc # "end" THEN "busy"
              ELSE IF g[i].ok THEN "ok" ELSE "failed"

\* The mapped state, pointwise; the upgrades under way are the goroutines at work.
LEMMA MappedState ==
  ASSUME IInv
  PROVE  /\ PlanStage = [i \in Idx |-> StageOf(i)]
         /\ \A i \in Idx : PlanStage[i] = StageOf(i)
         /\ Plan!Busy = AtWork
<1>1. PlanStage = [i \in Idx |-> StageOf(i)]
  BY DEF PlanStage, StageOf
<1>2. \A i \in Idx : StageOf(i) = "busy" <=> g[i].pc \notin {"none", "end"}
  BY Constants DEF StageOf, IInv, Placed, TypeOK, Idx
<1>3. Plan!Busy = AtWork
  BY <1>1, <1>2 DEF Plan!Busy, Plan!Upgrades, AtWork, Idx
<1> QED BY <1>1, <1>3

\* A step that changes neither the mapped stages nor the mapped call is a stutter.
LEMMA PlanStutter ==
  ASSUME UNCHANGED <<PlanStage, PlanCall>>
  PROVE  [Plan!Next]_(Plan!planVars)
BY DEF Plan!planVars

\* RollingUpgrade's own steps begin, reject, complete or cut short, or stutter.
LEMMA PlanMainStep ==
  ASSUME IInv, IInv', MainStep
  PROVE  [Plan!Next]_(Plan!planVars)
<1>c. N \in Nat /\ Cap \in Nat /\ Cap >= 1 /\ Idx = 1 .. N /\ Plan!Upgrades = Idx
  BY Constants DEF Idx, Plan!Upgrades
<1>m. main \in Caller /\ g \in [Idx -> Goroutine]
  BY DEF IInv, TypeOK, Caller, Goroutine
<1>s. PlanStage = [j \in Idx |-> StageOf(j)] /\ \A j \in Idx : PlanStage[j] = StageOf(j)
  BY MappedState
<1>r. PlanStage' = [j \in Idx |-> StageOf(j)']
  BY DEF PlanStage, StageOf
<1>1. CASE NextNode
  <2>1. main'.i = main.i /\ g' = g
    BY <1>1, <1>m DEF NextNode, Caller
  <2>2. UNCHANGED PlanStage
    BY <2>1 DEF PlanStage
  <2>3. UNCHANGED PlanCall
    BY <1>1, <1>m DEF NextNode, Caller, PlanCall
  <2> QED BY <2>2, <2>3, PlanStutter
<1>2. CASE Pause
  <2>1. main'.i = main.i /\ g' = g /\ main.pc = "pause" /\ main.i \in Idx
    BY <1>2, <1>m, <1>c DEF Pause, Caller, IInv, Indexed
  <2>2. UNCHANGED PlanStage
    BY <2>1 DEF PlanStage
  <2>3. CASE main'.pc = "look"
    BY <2>1, <2>2, <2>3, PlanStutter DEF PlanCall
  <2>4. CASE main'.pc = "cut"
    <3>1. PlanCall = "open" /\ PlanCall' = "cut"
      BY <2>1, <2>4 DEF PlanCall
    <3>2. PlanStage[main.i] = "todo"
      BY <2>1, <1>s, <1>c DEF StageOf
    <3>3. Plan!CutShort
      BY <2>1, <2>2, <3>1, <3>2, <1>c DEF Plan!CutShort
    <3> QED BY <3>3 DEF Plan!Next
  <2> QED BY <1>2, <1>m, <2>3, <2>4 DEF Pause, Caller
<1>3. ASSUME NEW k \in Idx, k = main.i, main.pc \in {"look", "acquire"}, main'.pc = "head",
             main'.i = k + 1, \A j \in Idx \ {k} : g'[j] = g[j]
      PROVE  /\ PlanCall = "open" /\ UNCHANGED PlanCall
             /\ Plan!NextInLine(k)
             /\ PlanStage' = [PlanStage EXCEPT ![k] = StageOf(k)']
  <2>1. PlanCall = "open" /\ UNCHANGED PlanCall
    BY <1>3 DEF PlanCall
  <2>2. Plan!NextInLine(k)
    BY <1>3, <1>c, <1>s DEF Plan!NextInLine, StageOf
  <2>3. \A j \in Idx \ {k} : StageOf(j)' = StageOf(j)
    BY <1>3, <1>c DEF StageOf
  <2> QED BY <2>1, <2>2, <2>3, <1>s, <1>r
<1>4. CASE Look
  <2>0. main.i \in Idx
    BY <1>4, <1>m, <1>c DEF Look, Caller, IInv, Indexed
  <2> PICK k \in Idx : k = main.i
    BY <2>0
  <2>1. main.pc = "look" /\ g' = g
    BY <1>4 DEF Look
  <2>2. CASE Node(k) \in Nodes
    <3>1. main'.i = main.i /\ main'.pc = "acquire"
      BY <1>4, <1>m, <2>2 DEF Look, Caller
    <3>2. UNCHANGED <<PlanStage, PlanCall>>
      BY <2>1, <3>1 DEF PlanStage, PlanCall
    <3> QED BY <3>2, PlanStutter
  <2>3. CASE Node(k) \notin Nodes
    <3>1. main'.i = k + 1 /\ main'.pc = "head"
      BY <1>4, <1>m, <2>3 DEF Look, Caller
    <3>2. StageOf(k)' = "failed"
      BY <2>1, <2>3, <3>1, <1>c DEF StageOf
    <3>3. Plan!Reject(k)
      BY <1>3, <2>1, <3>1, <3>2 DEF Plan!Reject
    <3> QED BY <2>1, <3>3, <1>c DEF Plan!Next
  <2> QED BY <2>2, <2>3
<1>5. CASE Launch
  <2>0. main.i \in Idx
    BY <1>5, <1>m, <1>c DEF Launch, Caller, IInv, Indexed
  <2> PICK k \in Idx : k = main.i
    BY <2>0
  <2>1. /\ main.pc = "acquire" /\ main.drained = 0 /\ Node(k) \in Nodes
        /\ sem < Cap /\ sem = Cardinality(AtWork) + main.drained
    BY <1>5, <1>m, <1>c DEF Launch, Caller, IInv, Indexed, Slots
  <2>2. main'.i = k + 1 /\ main'.pc = "head"
    BY <1>5, <1>m DEF Launch, Caller
  <2>3. g'[k].pc # "end" /\ \A j \in Idx \ {k} : g'[j] = g[j]
    BY <1>5, <1>m, <2>1 DEF Launch, Goroutine
  <2>4. StageOf(k)' = "busy"
    BY <2>1, <2>2, <2>3, <1>c DEF StageOf
  <2>5. Cardinality(Plan!Busy) < Cap
    BY <2>1, AtWorkFinite, MappedState
  <2>6. Plan!Begin(k)
    <3>1. /\ PlanCall = "open" /\ UNCHANGED PlanCall /\ Plan!NextInLine(k)
          /\ PlanStage' = [PlanStage EXCEPT ![k] = StageOf(k)']
      BY <1>3, <2>1, <2>2, <2>3
    <3>2. PlanStage' = [PlanStage EXCEPT ![k] = "busy"]
      BY <3>1, <2>4
    <3>3. Plan!Cardinality(Plan!Busy) = Cardinality(Plan!Busy)
      BY DEF Plan!Cardinality, Cardinality
    <3> QED BY <3>1, <3>2, <3>3, <2>5 DEF Plan!Begin
  <2> QED BY <2>1, <2>6, <1>c DEF Plan!Next
<1>6. CASE Drain
  <2>1. main'.i = main.i /\ g' = g /\ main.pc = "drain" /\ main.i = N + 1
    BY <1>6, <1>m DEF Drain, Caller, IInv, Indexed
  <2>2. UNCHANGED PlanStage
    BY <2>1 DEF PlanStage
  <2>3. CASE main'.pc = "drain"
    BY <2>1, <2>2, <2>3, PlanStutter DEF PlanCall
  <2>4. CASE main'.pc = "done"
    <3>1. PlanCall = "open" /\ PlanCall' = "complete"
      BY <2>1, <2>4 DEF PlanCall
    <3>2. AtWork = {}
      <4>1. AtWork' = AtWork
        BY <2>1 DEF AtWork
      <4>2. sem' = Cardinality(AtWork') + Cap /\ sem' <= Cap
        BY <2>4 DEF IInv, Settled, Slots
      <4>3. Cardinality(AtWork) = 0
        BY <4>1, <4>2, <1>c, AtWorkFinite
      <4> QED BY <4>3, AtWorkFinite, FS_EmptySet
    <3>3. ASSUME NEW j \in Idx
          PROVE  Plan!Ended(j)
      <4>1. ~(j >= main.i)
        BY <2>1, <1>c
      <4>2. Node(j) \in Nodes => g[j].pc = "end"
        BY <3>2, <4>1 DEF AtWork, IInv, Placed
      <4> QED BY <4>1, <4>2, <1>s DEF StageOf, Plan!Ended
    <3>4. Plan!Complete
      BY <2>2, <3>1, <3>3, <1>c DEF Plan!Complete
    <3> QED BY <3>4 DEF Plan!Next
  <2> QED BY <1>6, <1>m, <2>3, <2>4 DEF Drain, Caller
<1> QED BY <1>1, <1>2, <1>4, <1>5, <1>6 DEF MainStep

\* A goroutine's release finishes its upgrade; its other steps stutter.
LEMMA PlanGoroutineStep ==
  ASSUME IInv, NEW i \in Idx, UpgradeStep(i)
  PROVE  [Plan!Next]_(Plan!planVars)
<1>m. main \in Caller /\ g \in [Idx -> Goroutine] /\ TypeOK
  BY DEF IInv, TypeOK, Caller, Goroutine
<1>s. PlanStage = [j \in Idx |-> StageOf(j)] /\ \A j \in Idx : PlanStage[j] = StageOf(j)
  BY MappedState
<1>r. PlanStage' = [j \in Idx |-> StageOf(j)']
  BY DEF PlanStage, StageOf
<1>1. ASSUME UNCHANGED main, g[i].pc # "end", g'[i].pc # "end",
             \A j \in Idx : j # i => g'[j] = g[j]
      PROVE  [Plan!Next]_(Plan!planVars)
  <2>1. \A j \in Idx : StageOf(j)' = StageOf(j)
    BY <1>1 DEF StageOf
  <2>2. UNCHANGED <<PlanStage, PlanCall>>
    BY <2>1, <1>1, <1>s, <1>r DEF PlanCall
  <2> QED BY <2>2, PlanStutter
<1>2. CASE \/ Preflight(i) \/ CordonNode(i) \/ TriggerReconcile(i)
           \/ CheckNow(i) \/ Wait(i) \/ UncordonNode(i)
  <2>1. UNCHANGED callerVars /\ g[i].pc \in Calling /\ Moves(i, Calling \cup {"report"})
    BY <1>2, <1>m, CallStep
  <2> QED BY <2>1, <1>1 DEF callerVars, Calling, Moves
<1>3. CASE Report(i)
  BY <1>3, <1>1, <1>m DEF Report, At, Goto, Goroutine
<1>4. CASE Release(i)
  <2>1. g[i].pc = "release" /\ g'[i].pc = "end" /\ UNCHANGED main
        /\ \A j \in Idx : j # i => g'[j] = g[j]
    BY <1>4, <1>m DEF Release, At, Goto, Goroutine
  <2>2. ~(i >= main.i) /\ Node(i) \in Nodes
    BY <2>1 DEF IInv, Placed
  <2>3. PlanStage[i] = "busy" /\ StageOf(i)' \in {"ok", "failed"}
    BY <2>1, <2>2, <1>s DEF StageOf
  <2>4. \A j \in Idx \ {i} : StageOf(j)' = StageOf(j)
    BY <2>1 DEF StageOf
  <2>5. PlanStage' = [PlanStage EXCEPT ![i] = StageOf(i)']
    BY <2>4, <1>s, <1>r
  <2>6. UNCHANGED PlanCall
    BY <2>1 DEF PlanCall
  <2>7. Plan!Finish(i)
    BY <2>3, <2>5, <2>6 DEF Plan!Finish
  <2> QED BY <2>7 DEF Plan!Next, Plan!Upgrades, Idx
<1> QED BY <1>2, <1>3, <1>4 DEF UpgradeStep

\* RollingUpgrade implements RollingPlan: upgrades begin in order and within the bound,
\* end once, and the call completes only over ended upgrades.
THEOREM Implementation == Spec => ImplementsPlan
<1>1. Init => Plan!Init
  <2> SUFFICES ASSUME Init
               PROVE  Plan!Init
    OBVIOUS
  <2>1. main.i = 1 /\ main.pc = "head"
    BY DEF Init
  <2>2. \A j \in Idx : j >= 1
    BY Constants DEF Idx
  <2>3. PlanStage = [j \in Idx |-> "todo"]
    BY <2>1, <2>2 DEF PlanStage
  <2>4. PlanCall = "open"
    BY <2>1 DEF PlanCall
  <2> QED BY <2>3, <2>4 DEF Plan!Init, Plan!Upgrades, Idx
<1>2. IInv /\ IInv' /\ [Next]_vars => [Plan!Next]_(Plan!planVars)
  <2> SUFFICES ASSUME IInv, IInv', [Next]_vars
               PROVE  [Plan!Next]_(Plan!planVars)
    OBVIOUS
  <2>1. CASE MainStep
    BY <2>1, PlanMainStep
  <2>2. ASSUME NEW i \in Idx, UpgradeStep(i)
        PROVE  [Plan!Next]_(Plan!planVars)
    BY <2>2, PlanGoroutineStep
  <2>3. CASE UNCHANGED <<main, g>>
    BY <2>3, PlanStutter DEF PlanStage, PlanCall
  <2>4. CASE Cancel \/ UNCHANGED vars
    BY <2>4, <2>3 DEF Cancel, callerVars, vars
  <2>5. ASSUME NEW n \in Nodes,
               Progress(n) \/ LoopHeals(n) \/ FallBehind(n) \/ AgentRestart(n)
        PROVE  [Plan!Next]_(Plan!planVars)
    BY <2>5, <2>3 DEF Progress, LoopHeals, FallBehind, AgentRestart, callerVars
  <2> QED BY <2>1, <2>2, <2>4, <2>5 DEF Next
<1> QED BY <1>1, <1>2, Invariance, PTL DEF Spec, ImplementsPlan, Plan!Spec
=============================================================================
