------------------------- MODULE EthctlUpgrade_proofs -------------------------
(***************************************************************************)
(* Proofs about EthctlUpgrade, for any inventories, any targets and any    *)
(* number of troubles and of operator commands.                            *)
(***************************************************************************)
EXTENDS EthctlUpgrade, FiniteSetTheorems, TLAPS

Cmd == [pc : {"next", "lookup", "preflight", "cordon", "reconcile", "undo", "uncordon",
              "error", "done", "exit"},
        at : 0 .. N, host : Hosts \cup {NoHost}]

\* Where the command can be, with its index and its host.
Placed ==
  /\ cmd.pc = "lookup" => cmd.at \in 1 .. N
  /\ cmd.pc \in {"preflight", "cordon", "reconcile", "undo", "uncordon"} =>
       cmd.at \in 1 .. N /\ cmd.host \in Hosts
  /\ cmd.pc \in {"error", "exit"} => cmd.at \in 1 .. N
  /\ cmd.pc = "done" => cmd.at = N

\* The variables beside the command's place.
RestTyped ==
  /\ inventory \in Inventories
  /\ alive \in BOOLEAN
  /\ cordoned \in [Hosts -> BOOLEAN]
  /\ health \in [Hosts -> {"down", "starting", "syncing", "synced"}]
  /\ held \subseteq Hosts /\ leaked \subseteq Hosts
  /\ budget \in [troubles : 0 .. MaxTroubles, commands : 0 .. MaxCommands]

LEMMA TypeSplit == TypeOK <=> cmd \in Cmd /\ Placed /\ RestTyped
BY DEF TypeOK, Cmd, Placed, RestTyped

LEMMA TypeNext == ASSUME cmd' \in Cmd, Placed', RestTyped' PROVE TypeOK'
BY DEF TypeOK, Cmd, Placed, RestTyped

LEMMA Targeted == N \in Nat
BY TargetsAssumption DEF N

LEMMA HostKnown == ASSUME TypeOK, NEW k \in Entries PROVE inventory[k].host \in Hosts
BY DEF TypeOK, Entries, Hosts

LEMMA Spent ==
  ASSUME TypeOK, Trouble \/ UNCHANGED budget
  PROVE  budget' \in [troubles : 0 .. MaxTroubles, commands : 0 .. MaxCommands]
<1>1. CASE Trouble
  <2> PICK b \in [troubles : 0 .. MaxTroubles, commands : 0 .. MaxCommands] : b = budget
    BY DEF TypeOK
  <2>1. b.troubles + 1 \in 0 .. MaxTroubles
    BY <1>1, BoundsAssumption DEF Trouble
  <2>2. budget' = [b EXCEPT !.troubles = b.troubles + 1]
    BY <1>1 DEF Trouble
  <2> QED BY <2>1, <2>2
<1>2. CASE UNCHANGED budget
  BY <1>2 DEF TypeOK
<1> QED BY <1>1, <1>2

-----------------------------------------------------------------------------
(* How a step moves the command.                                           *)

\* The command stays at its target.
Moves(from, to) == cmd.pc \in from /\ cmd' \in Cmd /\ cmd'.at = cmd.at /\ cmd'.pc \in to

LEMMA Going ==
  ASSUME TypeOK, NEW pc \in {"next", "lookup", "preflight", "cordon", "reconcile", "undo",
                             "uncordon", "error", "done", "exit"},
         Goto(pc)
  PROVE  Moves({cmd.pc}, {pc}) /\ cmd'.host = cmd.host
BY DEF TypeOK, Goto, Moves, Cmd

LEMMA LookupMoves ==
  ASSUME TypeOK, Lookup
  PROVE  /\ Moves({"lookup"}, {"preflight", "cordon", "error"})
         /\ cmd'.pc # "error" => cmd'.host \in Hosts
<1>1. ASSUME NEW k \in Entries,
             cmd' = [cmd EXCEPT !.pc = IF SkipPreflight THEN "cordon" ELSE "preflight",
                                !.host = inventory[k].host]
      PROVE  Moves({cmd.pc}, {"preflight", "cordon"}) /\ cmd'.host \in Hosts
  BY <1>1, HostKnown DEF TypeOK, Moves, Cmd
<1>2. cmd.pc = "lookup"
  BY DEF Lookup, At
<1>3. CASE Fail
  BY <1>2, <1>3, Going DEF Fail, Moves
<1> QED BY <1>1, <1>2, <1>3 DEF Lookup, Moves

Calling == {"preflight", "cordon", "reconcile", "undo", "uncordon"}

\* The calls to a node's agent, in order, and where their errors lead.
LEMMA CallMoves ==
  ASSUME TypeOK, Preflight \/ CordonNode \/ TriggerReconcile \/ UncordonNode
  PROVE  /\ cmd'.host = cmd.host
         /\ \/ Preflight /\ Moves({"preflight"}, {"cordon", "error"})
            \/ CordonNode /\ Moves({"cordon"}, {"reconcile", "error"})
            \/ TriggerReconcile /\ Moves({"reconcile"}, {"uncordon", "undo"})
            \/ UncordonNode /\ Moves({"uncordon"}, {"next"})
            \/ UncordonNode /\ Moves({"undo"}, {"error"})
<1>1. CASE Preflight
  <2>1. cmd.pc = "preflight" /\ (Goto("cordon") \/ Goto("error"))
    BY <1>1 DEF Preflight, At, Fail
  <2> QED BY <1>1, <2>1, Going DEF Moves
<1>2. CASE CordonNode
  <2>1. cmd.pc = "cordon" /\ (Goto("reconcile") \/ Goto("error"))
    BY <1>2 DEF CordonNode, At, Fail
  <2> QED BY <1>2, <2>1, Going DEF Moves
<1>3. CASE TriggerReconcile
  <2>1. cmd.pc = "reconcile" /\ (Goto("uncordon") \/ Goto("undo"))
    BY <1>3 DEF TriggerReconcile, At
  <2> QED BY <1>3, <2>1, Going DEF Moves
<1>4. CASE UncordonNode
  <2>1. \/ cmd.pc = "undo" /\ Goto("error")
        \/ cmd.pc = "uncordon" /\ Goto("next")
    BY <1>4 DEF UncordonNode, At, Fail
  <2> QED BY <1>4, <2>1, Going DEF Moves
<1> QED BY <1>1, <1>2, <1>3, <1>4

LEMMA NextTargetMoves ==
  ASSUME TypeOK, NextTarget
  PROVE  /\ cmd.pc = "next" /\ cmd' \in Cmd
         /\ \/ cmd.at < N /\ cmd'.at = cmd.at + 1 /\ cmd'.pc = "lookup"
            \/ cmd.at = N /\ cmd'.at = N /\ cmd'.pc = "done"
<1> PICK c \in Cmd : c = cmd
  BY TypeSplit
<1>1. c.at \in 0 .. N /\ N \in Nat
  BY Targeted DEF Cmd
<1>2. CASE c.at < N
  <2>1. c.at + 1 \in 0 .. N
    BY <1>1, <1>2
  <2>2. ASSUME NEW n \in 0 .. N,
               cmd' = [c EXCEPT !.pc = "lookup", !.at = n, !.host = NoHost]
        PROVE  cmd' \in Cmd /\ cmd'.at = n /\ cmd'.pc = "lookup"
    BY <2>2 DEF Cmd
  <2>3. cmd' = [c EXCEPT !.pc = "lookup", !.at = c.at + 1, !.host = NoHost]
    BY <1>2 DEF NextTarget
  <2>4. cmd' \in Cmd /\ cmd'.at = c.at + 1 /\ cmd'.pc = "lookup"
    BY <2>1, <2>2, <2>3
  <2> QED BY <1>2, <2>4 DEF NextTarget, At
<1>3. CASE ~(c.at < N)
  <2>1. cmd' = [c EXCEPT !.pc = "done"] /\ c.at = N
    BY <1>1, <1>3 DEF NextTarget
  <2>2. cmd' \in Cmd /\ cmd'.at = c.at /\ cmd'.pc = "done"
    BY <2>1 DEF Cmd
  <2> QED BY <2>1, <2>2 DEF NextTarget, At
<1> QED BY <1>2, <1>3

-----------------------------------------------------------------------------
(* The invariant.                                                          *)

LEMMA StepType == ASSUME TypeOK, Step, UNCHANGED inventory PROVE TypeOK'
<1> USE TypeSplit
<1>1. CASE NextTarget
  <2>1. RestTyped'
    BY <1>1 DEF NextTarget, RestTyped, hostVars
  <2>2. Placed'
    BY <1>1, NextTargetMoves, Targeted DEF Placed, Cmd
  <2> QED BY <1>1, <2>1, <2>2, NextTargetMoves, TypeNext
<1>2. CASE Lookup
  <2>1. RestTyped'
    BY <1>2 DEF Lookup, RestTyped, hostVars
  <2> QED BY <1>2, <2>1, LookupMoves, TypeNext DEF Moves, Placed
<1>3. CASE Preflight \/ CordonNode \/ TriggerReconcile \/ UncordonNode
  <2>1. cmd' \in Cmd /\ Placed' /\ cmd.host \in Hosts
    BY <1>3, CallMoves DEF Moves, Placed
  <2>2. budget' \in [troubles : 0 .. MaxTroubles, commands : 0 .. MaxCommands]
    BY <1>3, Spent DEF Preflight, CordonNode, TriggerReconcile, UncordonNode
  <2>3. cordoned' \in [Hosts -> BOOLEAN] /\ leaked' \subseteq Hosts /\ held' \subseteq Hosts
    BY <1>3, <2>1 DEF Preflight, CordonNode, TriggerReconcile, UncordonNode, RestTyped, hostVars
  <2>4. health' \in [Hosts -> {"down", "starting", "syncing", "synced"}] /\ alive' \in BOOLEAN
    BY <1>3, <2>1 DEF Preflight, CordonNode, TriggerReconcile, UncordonNode, RestTyped, hostVars
  <2> QED BY <2>1, <2>2, <2>3, <2>4, TypeNext DEF RestTyped
<1>4. CASE Exit
  <2>1. RestTyped' /\ Moves({"error"}, {"exit"})
    BY <1>4, Going DEF Exit, At, RestTyped, hostVars
  <2> QED BY <2>1, TypeNext DEF Moves, Placed
<1> QED BY <1>1, <1>2, <1>3, <1>4 DEF Step

LEMMA InterruptType == ASSUME TypeOK, Interrupt, UNCHANGED inventory PROVE TypeOK'
<1>1. leaked' \subseteq Hosts
  BY DEF Interrupt, AtNode, TypeOK
<1> QED BY <1>1 DEF Interrupt, TypeOK

LEMMA OperateType ==
  ASSUME TypeOK, NEW on \in BOOLEAN, Operate(on), UNCHANGED inventory
  PROVE  TypeOK'
<1> PICK b \in [troubles : 0 .. MaxTroubles, commands : 0 .. MaxCommands] : b = budget
  BY DEF TypeOK
<1>1. budget' \in [troubles : 0 .. MaxTroubles, commands : 0 .. MaxCommands]
  <2>1. b.commands + 1 \in 0 .. MaxCommands
    BY BoundsAssumption DEF Operate
  <2>2. budget' = [b EXCEPT !.commands = b.commands + 1]
    BY DEF Operate
  <2> QED BY <2>1, <2>2
<1>2. PICK h \in Hosts : /\ cordoned' = [cordoned EXCEPT ![h] = on]
                         /\ held' = IF on THEN held \cup {h} ELSE held \ {h}
                         /\ leaked' = IF on THEN leaked ELSE leaked \ {h}
  BY HostKnown DEF Operate
<1> QED BY <1>1, <1>2 DEF Operate, TypeOK

LEMMA HostStepType ==
  ASSUME TypeOK, NEW h \in Hosts, UNCHANGED inventory,
         Progress(h) \/ LoopHeals(h) \/ FallBehind(h) \/ AgentRestart(h)
  PROVE  TypeOK'
<1>1. budget' \in [troubles : 0 .. MaxTroubles, commands : 0 .. MaxCommands]
  BY Spent DEF Progress, LoopHeals, FallBehind, AgentRestart
<1>2. /\ health' \in [Hosts -> {"down", "starting", "syncing", "synced"}]
      /\ cordoned' \in [Hosts -> BOOLEAN]
      /\ held' \subseteq Hosts /\ leaked' \subseteq Hosts /\ UNCHANGED <<cmd, alive>>
  BY DEF Progress, LoopHeals, FallBehind, AgentRestart, TypeOK
<1> QED BY <1>1, <1>2 DEF TypeOK

\* Whatever a step does to one node's cordon it explains.
LEMMA ExplainedStep ==
  ASSUME TypeOK, CordonLeftIsExplained, Next
  PROVE  CordonLeftIsExplained'
<1>1. ASSUME NEW h \in Hosts, cordoned'[h]
      PROVE  h \in held' \cup leaked' \/ (alive' /\ AtNode' /\ cmd'.host = h)
  <2> USE <1>1
  <2>0. cordoned[h] => h \in held \cup leaked \/ (alive /\ AtNode /\ cmd.host = h)
    BY DEF CordonLeftIsExplained
  <2>1. CASE NextTarget \/ Lookup \/ Exit
    BY <2>0, <2>1 DEF NextTarget, Lookup, Exit, At, AtNode, hostVars
  <2>2. CASE Preflight
    BY <2>0, <2>2 DEF Preflight, At, AtNode, hostVars
  <2>3. CASE CordonNode
    <3>1. alive' /\ ~AtNode /\ held' = held /\ cmd'.host = cmd.host /\ leaked \subseteq leaked'
      BY <2>3, CallMoves DEF CordonNode, At, AtNode
    <3>2. CASE h # cmd.host
      BY <2>0, <2>3, <3>1, <3>2 DEF CordonNode, TypeOK
    <3>3. CASE h = cmd.host
      <4>1. CASE Goto("reconcile")
        BY <3>1, <3>3, <4>1, Going DEF Moves, AtNode
      <4>2. CASE UNCHANGED cordoned
        BY <2>0, <3>1, <4>2
      <4>3. CASE leaked' = leaked \cup {h}
        BY <4>3
      <4> QED BY <2>3, <3>3, <4>1, <4>2, <4>3 DEF CordonNode
    <3> QED BY <3>2, <3>3
  <2>4. CASE TriggerReconcile
    <3>1. Moves({"reconcile"}, {"uncordon", "undo"}) /\ cmd'.host = cmd.host
      BY <2>4, CallMoves DEF TriggerReconcile, At, Moves
    <3> QED BY <2>0, <2>4, <3>1 DEF TriggerReconcile, AtNode, Moves
  <2>5. CASE UncordonNode
    <3>1. CASE h # cmd.host
      <4>1. cordoned'[h] = cordoned[h] /\ (h \in held => h \in held') /\ (h \in leaked => h \in leaked')
        BY <2>5, <3>1 DEF UncordonNode, TypeOK
      <4> QED BY <2>0, <3>1, <4>1
    <3>2. CASE h = cmd.host
      BY <2>0, <2>5, <3>2 DEF UncordonNode, TypeOK
    <3> QED BY <3>1, <3>2
  <2>6. CASE Interrupt
    BY <2>0, <2>6 DEF Interrupt, AtNode
  <2>7. CASE \E on \in BOOLEAN : Operate(on)
    <3> PICK on \in BOOLEAN : Operate(on)
      BY <2>7
    <3>1. PICK k \in Hosts : /\ cordoned' = [cordoned EXCEPT ![k] = on]
                             /\ held' = IF on THEN held \cup {k} ELSE held \ {k}
                             /\ leaked' = IF on THEN leaked ELSE leaked \ {k}
      BY HostKnown DEF Operate
    <3>2. UNCHANGED <<cmd, alive>>
      BY DEF Operate
    <3>3. CASE h = k
      BY <3>1, <3>3 DEF TypeOK
    <3>4. CASE h # k
      BY <2>0, <3>1, <3>2, <3>4 DEF TypeOK, AtNode
    <3> QED BY <3>3, <3>4
  <2>8. ASSUME NEW k \in Hosts, Progress(k) \/ LoopHeals(k) \/ FallBehind(k)
        PROVE  h \in held' \cup leaked' \/ (alive' /\ AtNode' /\ cmd'.host = h)
    BY <2>0, <2>8 DEF Progress, LoopHeals, FallBehind, AtNode
  <2>9. ASSUME NEW k \in Hosts, AgentRestart(k)
        PROVE  h \in held' \cup leaked' \/ (alive' /\ AtNode' /\ cmd'.host = h)
    BY <2>0, <2>9 DEF AgentRestart, AtNode, TypeOK
  <2> QED BY <2>1, <2>2, <2>3, <2>4, <2>5, <2>6, <2>7, <2>8, <2>9 DEF Next, Step, World
<1> QED BY <1>1 DEF CordonLeftIsExplained

IInv == TypeOK /\ CordonLeftIsExplained

LEMMA InitIInv == ASSUME Init PROVE IInv
<1>1. TypeOK
  BY Targeted, BoundsAssumption DEF Init, TypeOK
<1> QED BY <1>1 DEF Init, CordonLeftIsExplained, IInv

LEMMA NextIInv == ASSUME IInv, [Next]_vars PROVE IInv'
<1>1. CASE Next
  <2>1. TypeOK'
    BY <1>1, StepType, InterruptType, OperateType, HostStepType DEF Next, World, IInv
  <2> QED BY <1>1, <2>1, ExplainedStep DEF IInv
<1>2. CASE UNCHANGED vars
  BY <1>2 DEF vars, IInv, TypeOK, CordonLeftIsExplained, AtNode
<1> QED BY <1>1, <1>2

\* The invariant, inductive as it stands.
THEOREM Invariance == Spec => []IInv
BY InitIInv, NextIInv, PTL DEF Spec

\* Every variable keeps its type, and the command its place.
THEOREM TypeCorrect == Spec => []TypeOK
<1>1. IInv => TypeOK
  BY DEF IInv
<1> QED BY <1>1, Invariance, PTL

\* No path of upgradeNode forgets a cordon: what stays cordoned was cordoned by the operator,
\* by a call that failed, or by a command that was interrupted.
THEOREM CordonExplained == Spec => []CordonLeftIsExplained
<1>1. IInv => CordonLeftIsExplained
  BY DEF IInv
<1> QED BY <1>1, Invariance, PTL

-----------------------------------------------------------------------------
(* The command implements RollingPlan.                                     *)

StageOf(i) ==
  IF i < cmd.at THEN "ok"
  ELSE IF i > cmd.at \/ cmd.pc = "lookup" THEN "todo"
  ELSE IF cmd.pc \in {"next", "done"} THEN "ok"
  ELSE IF cmd.pc \in {"error", "exit"} THEN "failed" ELSE "busy"

LEMMA MappedState ==
  /\ PlanStage = [i \in 1 .. N |-> StageOf(i)] /\ \A i \in 1 .. N : PlanStage[i] = StageOf(i)
  /\ PlanStage' = [i \in 1 .. N |-> StageOf(i)'] /\ \A i \in 1 .. N : PlanStage'[i] = StageOf(i)'
BY DEF PlanStage, StageOf

LEMMA PlanStutter ==
  ASSUME UNCHANGED <<PlanStage, PlanCall>>
  PROVE  [Plan!Next]_(Plan!planVars)
BY DEF Plan!planVars

\* The index stays: nothing but the upgrade at work may change its stage.
LEMMA AtWorkOnly ==
  ASSUME TypeOK, cmd.at \in 1 .. N, cmd'.at = cmd.at
  PROVE  PlanStage' = [PlanStage EXCEPT ![cmd.at] = StageOf(cmd.at)']
<1>1. \A i \in 1 .. N : i # cmd.at => StageOf(i)' = StageOf(i)
  BY Targeted DEF StageOf
<1> QED BY <1>1, MappedState

LEMMA PlanNextTarget ==
  ASSUME TypeOK, NextTarget
  PROVE  [Plan!Next]_(Plan!planVars)
<1>1. alive /\ UNCHANGED alive /\ cmd.pc = "next" /\ N \in Nat /\ cmd.at \in 0 .. N
  BY Targeted, TypeSplit DEF NextTarget, At, Cmd
<1>2. CASE cmd.at < N /\ cmd'.at = cmd.at + 1 /\ cmd'.pc = "lookup"
  <2>1. \A i \in 1 .. N : StageOf(i)' = StageOf(i)
    BY <1>1, <1>2 DEF StageOf
  <2>2. UNCHANGED PlanCall
    BY <1>1, <1>2 DEF PlanCall, Left
  <2> QED BY <2>1, <2>2, MappedState, PlanStutter
<1>3. CASE cmd.at = N /\ cmd'.at = N /\ cmd'.pc = "done"
  <2>1. \A i \in 1 .. N : StageOf(i)' = StageOf(i) /\ StageOf(i) = "ok"
    BY <1>1, <1>3 DEF StageOf
  <2>2. PlanCall = "open" /\ PlanCall' = "complete"
    BY <1>1, <1>3 DEF PlanCall, Left
  <2>3. Plan!Complete
    BY <2>1, <2>2, MappedState DEF Plan!Complete, Plan!Upgrades, Plan!Ended
  <2> QED BY <2>3 DEF Plan!Next
<1> QED BY <1>2, <1>3, NextTargetMoves

\* A target that is found is begun, nothing else being under way; one that is not is rejected.
LEMMA PlanLookup ==
  ASSUME TypeOK, Lookup
  PROVE  [Plan!Next]_(Plan!planVars)
<1>1. /\ alive /\ UNCHANGED alive /\ N \in Nat /\ cmd.at \in 1 .. N /\ cmd'.at = cmd.at
      /\ cmd.pc = "lookup" /\ cmd'.pc \in {"preflight", "cordon", "error"}
  BY Targeted, TypeSplit, LookupMoves DEF Lookup, At, Moves, Placed
<1> PICK a \in 1 .. N : a = cmd.at
  BY <1>1
<1>2. PlanCall = "open" /\ UNCHANGED PlanCall
  BY <1>1 DEF PlanCall, Left
<1>3. \A i \in 1 .. N : StageOf(i) = IF i < a THEN "ok" ELSE "todo"
  BY <1>1 DEF StageOf
<1>4. Plan!NextInLine(a)
  BY <1>1, <1>3, MappedState DEF Plan!NextInLine
<1>5. PlanStage' = [PlanStage EXCEPT ![a] = StageOf(a)']
  BY <1>1, AtWorkOnly
<1>6. CASE cmd'.pc = "error"
  <2>1. StageOf(a)' = "failed"
    BY <1>1, <1>6 DEF StageOf
  <2>2. Plan!Reject(a)
    BY <1>2, <1>4, <1>5, <2>1 DEF Plan!Reject
  <2> QED BY <2>2 DEF Plan!Next, Plan!Upgrades
<1>7. CASE cmd'.pc \in {"preflight", "cordon"}
  <2>1. StageOf(a)' = "busy"
    BY <1>1, <1>7 DEF StageOf
  <2>2. Plan!Busy = {}
    BY <1>3, MappedState DEF Plan!Busy, Plan!Upgrades
  <2>3. Cardinality({}) = 0 /\ Plan!Cardinality(Plan!Busy) = Cardinality(Plan!Busy)
    BY FS_EmptySet DEF Plan!Cardinality, Cardinality
  <2>4. Plan!Begin(a)
    BY <1>2, <1>4, <1>5, <2>1, <2>2, <2>3 DEF Plan!Begin
  <2> QED BY <2>4 DEF Plan!Next, Plan!Upgrades
<1> QED BY <1>1, <1>6, <1>7

\* Between the lookup and its outcome an upgrade is busy: its end is the plan's step.
LEMMA PlanCalls ==
  ASSUME TypeOK, Preflight \/ CordonNode \/ TriggerReconcile \/ UncordonNode
  PROVE  [Plan!Next]_(Plan!planVars)
<1>1. /\ alive /\ UNCHANGED alive /\ N \in Nat /\ cmd.at \in 1 .. N /\ cmd'.at = cmd.at
      /\ cmd.pc \in Calling /\ cmd'.pc \in Calling \cup {"next", "error"}
  <2>1. cmd.pc \in Calling /\ cmd'.at = cmd.at /\ cmd'.pc \in Calling \cup {"next", "error"}
    BY CallMoves DEF Moves, Calling
  <2>2. alive /\ UNCHANGED alive
    BY DEF Preflight, CordonNode, TriggerReconcile, UncordonNode, At
  <2> QED BY <2>1, <2>2, Targeted, TypeSplit DEF Placed, Calling
<1> PICK a \in 1 .. N : a = cmd.at
  BY <1>1
<1>2. PlanCall = "open" /\ UNCHANGED PlanCall
  BY <1>1 DEF PlanCall, Left, Calling
<1>3. PlanStage[a] = "busy" /\ PlanStage' = [PlanStage EXCEPT ![a] = StageOf(a)']
  BY <1>1, AtWorkOnly, MappedState DEF StageOf, Calling
<1>4. CASE cmd'.pc \in Calling
  <2>1. StageOf(a)' = "busy"
    BY <1>1, <1>4 DEF StageOf, Calling
  <2>2. PlanStage' = [PlanStage EXCEPT ![a] = PlanStage[a]]
    BY <1>3, <2>1
  <2>3. UNCHANGED PlanStage
    BY <2>2 DEF PlanStage
  <2> QED BY <1>2, <2>3, PlanStutter
<1>5. CASE cmd'.pc \in {"next", "error"}
  <2>1. StageOf(a)' \in {"ok", "failed"}
    BY <1>1, <1>5 DEF StageOf
  <2>2. Plan!Finish(a)
    BY <1>2, <1>3, <2>1 DEF Plan!Finish
  <2> QED BY <2>2 DEF Plan!Next, Plan!Upgrades
<1> QED BY <1>1, <1>4, <1>5

\* An exit or an interrupt cuts the call short while targets are left.
LEMMA PlanEnds ==
  ASSUME TypeOK, TypeOK', Exit \/ Interrupt
  PROVE  [Plan!Next]_(Plan!planVars)
<1>1. N \in Nat /\ cmd.at \in 0 .. N /\ cmd'.at = cmd.at
  BY Targeted, TypeSplit, Going DEF Exit, At, Interrupt, Moves, Cmd
<1>2. ASSUME Left
      PROVE  \E i \in 1 .. N : PlanStage[i] = "todo"
  <2>1. CASE cmd.at < N
    <3>1. cmd.at + 1 \in 1 .. N /\ StageOf(cmd.at + 1) = "todo"
      BY <1>1, <2>1 DEF StageOf
    <3> QED BY <3>1, MappedState
  <2>2. CASE cmd.pc = "lookup"
    <3>1. cmd.at \in 1 .. N /\ StageOf(cmd.at) = "todo"
      BY <2>2, TypeSplit DEF Placed, StageOf
    <3> QED BY <3>1, MappedState
  <2> QED BY <1>2, <2>1, <2>2 DEF Left
<1>3. CASE Exit
  <2>1. /\ alive /\ UNCHANGED alive /\ cmd.pc = "error" /\ cmd'.pc = "exit" /\ cmd.at \in 1 .. N
    BY <1>3, Going, TypeSplit DEF Exit, At, Moves, Placed
  <2>2. \A i \in 1 .. N : StageOf(i)' = StageOf(i)
    BY <1>1, <2>1 DEF StageOf
  <2>3. UNCHANGED PlanStage /\ PlanCall = "open" /\ UNCHANGED Left
    BY <1>1, <2>1, <2>2, MappedState DEF PlanCall, Left
  <2>4. CASE Left
    <3>1. PlanCall' = "cut"
      BY <2>1, <2>3, <2>4 DEF PlanCall
    <3>2. Plan!CutShort
      BY <1>2, <2>3, <2>4, <3>1 DEF Plan!CutShort, Plan!Upgrades
    <3> QED BY <3>2 DEF Plan!Next
  <2>5. CASE ~Left
    <3>1. PlanCall' = "complete"
      BY <2>1, <2>3, <2>5 DEF PlanCall
    <3>2. \A i \in 1 .. N : StageOf(i) \in {"ok", "failed"}
      BY <1>1, <2>1, <2>5 DEF StageOf, Left
    <3>3. Plan!Complete
      BY <2>3, <3>1, <3>2, MappedState DEF Plan!Complete, Plan!Upgrades, Plan!Ended
    <3> QED BY <3>3 DEF Plan!Next
  <2> QED BY <2>4, <2>5
<1>4. CASE Interrupt
  <2>1. alive /\ ~alive' /\ UNCHANGED cmd /\ cmd.pc \notin {"done", "exit"}
    BY <1>4 DEF Interrupt
  <2>2. UNCHANGED PlanStage /\ PlanCall = "open" /\ UNCHANGED Left
    BY <2>1 DEF PlanStage, PlanCall, Left
  <2>3. CASE Left
    <3>1. PlanCall' = "cut"
      BY <2>1, <2>2, <2>3 DEF PlanCall
    <3>2. Plan!CutShort
      BY <1>2, <2>2, <2>3, <3>1 DEF Plan!CutShort, Plan!Upgrades
    <3> QED BY <3>2 DEF Plan!Next
  <2>4. CASE ~Left
    <3>1. PlanCall' = "open"
      BY <2>1, <2>2, <2>4 DEF PlanCall
    <3> QED BY <2>2, <3>1, PlanStutter
  <2> QED BY <2>3, <2>4
<1> QED BY <1>3, <1>4

\* "ethctl upgrade" implements RollingPlan with one node at a time: each target in its turn,
\* each ended once, and none begun after the first error or an interrupt.
THEOREM Implementation == Spec => ImplementsPlan
<1>1. Init => Plan!Init
  <2> SUFFICES ASSUME Init PROVE Plan!Init
    OBVIOUS
  <2>1. cmd.pc = "next" /\ cmd.at = 0 /\ alive /\ N \in Nat
    BY Targeted DEF Init
  <2>2. \A i \in 1 .. N : StageOf(i) = "todo"
    BY <2>1 DEF StageOf
  <2>3. PlanCall = "open"
    BY <2>1 DEF PlanCall
  <2> QED BY <2>2, <2>3, MappedState DEF Plan!Init, Plan!Upgrades
<1>2. IInv /\ IInv' /\ [Next]_vars => [Plan!Next]_(Plan!planVars)
  <2> SUFFICES ASSUME IInv, IInv', [Next]_vars
               PROVE  [Plan!Next]_(Plan!planVars)
    OBVIOUS
  <2>1. CASE Step \/ Interrupt
    BY <2>1, PlanNextTarget, PlanLookup, PlanCalls, PlanEnds DEF Step, IInv
  <2>2. CASE UNCHANGED <<cmd, alive>>
    BY <2>2, PlanStutter DEF PlanStage, PlanCall, Left
  <2>3. CASE World
    BY <2>2, <2>3 DEF World, Operate, Progress, LoopHeals, FallBehind, AgentRestart
  <2>4. CASE UNCHANGED vars
    BY <2>2, <2>4 DEF vars
  <2> QED BY <2>1, <2>3, <2>4 DEF Next
<1> QED BY <1>1, <1>2, Invariance, PTL DEF Spec, ImplementsPlan, Plan!Spec
=============================================================================
