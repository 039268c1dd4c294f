---------------------------- MODULE RollingUpgrade ----------------------------
(***************************************************************************)
(* The upgrade orchestrator: RollingUpgrade walks the requested nodes and  *)
(* starts a goroutine for each, never more at once than its semaphore has  *)
(* room for; upgradeNode checks, cordons, reconciles, waits for sync and   *)
(* uncordons one node through its agent's HTTP API.                        *)
(*                                                                         *)
(* Of a node the model keeps what these calls read and change: whether its *)
(* agent is cordoned and how its clients are.  The agent's side of a call  *)
(* is the handler's: /status reports a client whose RPC does not answer as *)
(* synced, the cordon is kept in memory only, and the agent's own loop     *)
(* starts stopped clients again unless the node is cordoned.               *)
(*                                                                         *)
(* Calls get lost before or after the agent has acted, the caller cancels  *)
(* the context, nodes fall behind, agents restart.                         *)
(***************************************************************************)
EXTENDS Integers, Sequences, FiniteSets

CONSTANTS
  Requested,       \* UpgradeRequest.Nodes
  Nodes,           \* the nodes the caller has a client for
  MaxUnavailable,  \* UpgradeRequest.MaxUnavailable
  SkipPreflight,   \* UpgradeRequest.SkipPreflight
  Pauses,          \* pauseBetween > 0
  Ticks,           \* bound: 15 s polls of waitForSync before its 10 min deadline
  MaxTroubles      \* bound: lost calls, agents that restart, nodes that fall behind

N == Len(Requested)
Idx == 1 .. N
Node(i) == Requested[i]
Cap == IF MaxUnavailable > 1 THEN MaxUnavailable ELSE 1

ASSUME RequestedAssumption == Requested \in Seq(STRING) /\ Nodes \subseteq STRING
ASSUME MaxUnavailableAssumption == MaxUnavailable \in Int
ASSUME FlagsAssumption == SkipPreflight \in BOOLEAN /\ Pauses \in BOOLEAN
ASSUME BoundsAssumption == Ticks \in Nat /\ MaxTroubles \in Nat

VARIABLES
  main,       \* RollingUpgrade: its place, the loop index, the drained slots
  sem,        \* slots of the semaphore in use
  g,          \* the goroutine of each request: place, outcome, polls so far
  results,    \* how many results each request has
  returned,   \* the results the caller got
  cancelled,  \* ctx is done
  cordoned,   \* the agent's cordon, per node
  health,     \* the clients, per node
  leaked,     \* history: nodes whose cordon the orchestrator gave up on
  troubles    \* how many things have gone wrong so far

vars == <<main, sem, g, results, returned, cancelled, cordoned, health, leaked, troubles>>
callerVars == <<main, sem, results, returned>>
nodeVars == <<cordoned, health, leaked>>

NoResults == [i \in Idx |-> 0]

Init ==
  /\ main = [pc |-> "head", i |-> 1, drained |-> 0]
  /\ sem = 0
  /\ g = [i \in Idx |-> [pc |-> "none", ok |-> FALSE, ticks |-> 0]]
  /\ results = NoResults
  /\ returned = NoResults
  /\ cancelled = FALSE
  /\ cordoned = [n \in Nodes |-> FALSE]
  /\ health = [n \in Nodes |-> "synced"]
  /\ leaked = {}
  /\ troubles = 0

-----------------------------------------------------------------------------
(* RollingUpgrade.                                                         *)

\* The head of the loop over req.Nodes.
NextNode ==
  /\ main.pc = "head"
  /\ main' = [main EXCEPT !.pc = IF main.i > N THEN "drain"
                                 ELSE IF main.i > 1 /\ Pauses THEN "pause" ELSE "look"]
  /\ UNCHANGED <<sem, g, results, returned, cancelled, nodeVars, troubles>>

\* select: the pause is over, or ctx is done and RollingUpgrade returns what it has,
\* with the goroutines still at work.  (It reads results there without the mutex; the
\* slice has its full capacity, so an append under way is in or out.)
Pause ==
  /\ main.pc = "pause"
  /\ \/ main' = [main EXCEPT !.pc = "look"] /\ UNCHANGED returned
     \/ /\ cancelled
        /\ main' = [main EXCEPT !.pc = "cut"]
        /\ returned' = results
  /\ UNCHANGED <<sem, g, results, cancelled, nodeVars, troubles>>

\* Mutant of Look: after a node without a client the loop index moves on by two.
MutantLook ==
  /\ main.pc = "look"
  /\ IF Node(main.i) \in Nodes
     THEN main' = [main EXCEPT !.pc = "acquire"] /\ UNCHANGED results
     ELSE /\ main' = [main EXCEPT !.pc = "head", !.i = @ + 2]
          /\ results' = [results EXCEPT ![main.i] = @ + 1]
  /\ UNCHANGED <<sem, g, returned, cancelled, nodeVars, troubles>>

\* A node without a client gets its error at once; the others wait for a slot.
Look ==
  /\ main.pc = "look"
  /\ IF Node(main.i) \in Nodes
     THEN main' = [main EXCEPT !.pc = "acquire"] /\ UNCHANGED results
     ELSE /\ main' = [main EXCEPT !.pc = "head", !.i = @ + 1]
          /\ results' = [results EXCEPT ![main.i] = @ + 1]
  /\ UNCHANGED <<sem, g, returned, cancelled, nodeVars, troubles>>

\* Mutant of Launch: the goroutine starts without waiting for a slot.
MutantLaunch ==
  /\ main.pc = "acquire"
  /\ sem' = sem + 1
  /\ g' = [g EXCEPT ![main.i].pc = IF SkipPreflight THEN "cordon" ELSE "preflight"]
  /\ main' = [main EXCEPT !.pc = "head", !.i = @ + 1]
  /\ UNCHANGED <<results, returned, cancelled, nodeVars, troubles>>

\* sem <- struct{}{}; go upgradeNode
Launch ==
  /\ main.pc = "acquire"
  /\ sem < Cap
  /\ sem' = sem + 1
  /\ g' = [g EXCEPT ![main.i].pc = IF SkipPreflight THEN "cordon" ELSE "preflight"]
  /\ main' = [main EXCEPT !.pc = "head", !.i = @ + 1]
  /\ UNCHANGED <<results, returned, cancelled, nodeVars, troubles>>

\* Mutant of Drain: one slot short.
MutantDrain ==
  /\ main.pc = "drain"
  /\ IF main.drained < Cap - 1
     THEN /\ sem < Cap
          /\ sem' = sem + 1
          /\ main' = [main EXCEPT !.drained = @ + 1]
          /\ UNCHANGED returned
     ELSE /\ main' = [main EXCEPT !.pc = "done"]
          /\ returned' = results
          /\ UNCHANGED sem
  /\ UNCHANGED <<g, results, cancelled, nodeVars, troubles>>

\* Filling every slot of the semaphore waits for all goroutines.
Drain ==
  /\ main.pc = "drain"
  /\ IF main.drained < Cap
     THEN /\ sem < Cap
          /\ sem' = sem + 1
          /\ main' = [main EXCEPT !.drained = @ + 1]
          /\ UNCHANGED returned
     ELSE /\ main' = [main EXCEPT !.pc = "done"]
          /\ returned' = results
          /\ UNCHANGED sem
  /\ UNCHANGED <<g, results, cancelled, nodeVars, troubles>>

-----------------------------------------------------------------------------
(* upgradeNode.                                                            *)

At(i, pc) == g[i].pc = pc
Goto(i, pc) == g' = [g EXCEPT ![i].pc = pc]

Trouble == troubles < MaxTroubles /\ troubles' = troubles + 1

\* A call under a cancelled context is not made; any other may get lost.
CallFails == IF cancelled THEN UNCHANGED troubles ELSE Trouble

\* What the agent's /status says of a running client: the error of a sync query that
\* does not get through is dropped, and "not syncing" is what remains.
ReportsSynced(n) == health[n] \in {"starting", "synced"}

Preflight(i) ==
  /\ At(i, "preflight")
  /\ \/ /\ ~cancelled /\ UNCHANGED troubles
        /\ Goto(i, IF ReportsSynced(Node(i)) THEN "cordon" ELSE "report")
     \/ CallFails /\ Goto(i, "report")
  /\ UNCHANGED <<callerVars, cancelled, nodeVars>>

\* When the answer to the cordon is lost the agent may be cordoned all the same, and
\* the deferred uncordon has not been set up yet.
CordonNode(i) ==
  LET n == Node(i) IN
  /\ At(i, "cordon")
  /\ \/ /\ ~cancelled /\ UNCHANGED troubles
        /\ cordoned' = [cordoned EXCEPT ![n] = TRUE]
        /\ Goto(i, "reconcile")
        /\ UNCHANGED leaked
     \/ /\ CallFails /\ Goto(i, "report")
        /\ \/ UNCHANGED <<cordoned, leaked>>
           \/ /\ ~cancelled
              /\ cordoned' = [cordoned EXCEPT ![n] = TRUE]
              /\ leaked' = leaked \cup {n}
  /\ UNCHANGED <<callerVars, cancelled, health>>

\* Mutant of TriggerReconcile: an error returns without the deferred uncordon.
MutantTriggerReconcile(i) ==
  LET n == Node(i) IN
  /\ At(i, "reconcile")
  /\ \/ /\ ~cancelled
        /\ health' \in {health, [health EXCEPT ![n] = "starting"]}
        /\ Goto(i, "check") /\ UNCHANGED troubles
     \/ CallFails /\ UNCHANGED health /\ Goto(i, "report")
  /\ UNCHANGED <<callerVars, cancelled, cordoned, leaked>>

\* POST /reconcile: nothing to do, or the clients are restarted, or some stage of the
\* pass has an error and a client may be left down; a lost call may have done any of it.
TriggerReconcile(i) ==
  LET n == Node(i) IN
  /\ At(i, "reconcile")
  /\ \/ /\ ~cancelled
        /\ health' \in {health, [health EXCEPT ![n] = "starting"]}
        /\ Goto(i, "check") /\ UNCHANGED troubles
     \/ /\ CallFails
        /\ \/ UNCHANGED health
           \/ ~cancelled /\ \E h \in {"starting", "down"} : health' = [health EXCEPT ![n] = h]
        /\ Goto(i, "uncordon")
  /\ UNCHANGED <<callerVars, cancelled, cordoned, leaked>>

\* waitForSync: one check at once, then one per tick; a failed status call is skipped.
Synced(i) == /\ ~cancelled /\ ReportsSynced(Node(i))
             /\ g' = [g EXCEPT ![i].pc = "uncordon", ![i].ok = TRUE, ![i].ticks = 0]
             /\ UNCHANGED troubles
GiveUp(i) == g' = [g EXCEPT ![i].pc = "uncordon", ![i].ticks = 0] /\ UNCHANGED troubles
NotSynced(i) == /\ \/ ~cancelled /\ ~ReportsSynced(Node(i)) /\ UNCHANGED troubles
                   \/ CallFails
                /\ g' = [g EXCEPT ![i].pc = "wait", ![i].ticks = IF At(i, "wait") THEN @ + 1 ELSE @]

CheckNow(i) ==
  /\ At(i, "check")
  /\ Synced(i) \/ NotSynced(i)
  /\ UNCHANGED <<callerVars, cancelled, nodeVars>>

\* The deadline comes first, then the select on ctx.Done and the ticker.
Wait(i) ==
  /\ At(i, "wait")
  /\ IF g[i].ticks = Ticks THEN GiveUp(i)
     ELSE \/ cancelled /\ GiveUp(i)
          \/ Synced(i)
          \/ NotSynced(i)
  /\ UNCHANGED <<callerVars, cancelled, nodeVars>>

\* The deferred Uncordon(ctx): its failure is only logged.
UncordonNode(i) ==
  LET n == Node(i) IN
  /\ At(i, "uncordon")
  /\ \/ /\ ~cancelled /\ UNCHANGED troubles
        /\ cordoned' = [cordoned EXCEPT ![n] = FALSE]
        /\ leaked' = leaked \ {n}
     \/ /\ CallFails
        /\ \/ UNCHANGED cordoned /\ leaked' = IF cordoned[n] THEN leaked \cup {n} ELSE leaked
           \/ ~cancelled /\ cordoned' = [cordoned EXCEPT ![n] = FALSE] /\ leaked' = leaked \ {n}
  /\ Goto(i, "report")
  /\ UNCHANGED <<callerVars, cancelled, health>>

\* Mutants of Report: the slot is given back twice; the slot is kept after an error.
MutantReportTwice(i) ==
  /\ At(i, "report")
  /\ results' = [results EXCEPT ![i] = @ + 1]
  /\ sem' = sem - 1
  /\ Goto(i, "release")
  /\ UNCHANGED <<main, returned, cancelled, nodeVars, troubles>>

MutantReportKeeps(i) ==
  /\ At(i, "report")
  /\ results' = [results EXCEPT ![i] = @ + 1]
  /\ Goto(i, IF g[i].ok THEN "release" ELSE "end")
  /\ UNCHANGED <<main, sem, returned, cancelled, nodeVars, troubles>>

\* The goroutine appends its result under the mutex ...
Report(i) ==
  /\ At(i, "report")
  /\ results' = [results EXCEPT ![i] = @ + 1]
  /\ Goto(i, "release")
  /\ UNCHANGED <<main, sem, returned, cancelled, nodeVars, troubles>>

\* ... and gives its slot back.
Release(i) ==
  /\ At(i, "release")
  /\ sem' = sem - 1
  /\ Goto(i, "end")
  /\ UNCHANGED <<main, results, returned, cancelled, nodeVars, troubles>>

UpgradeStep(i) ==
  \/ Preflight(i) \/ CordonNode(i) \/ TriggerReconcile(i) \/ CheckNow(i) \/ Wait(i)
  \/ UncordonNode(i) \/ Report(i) \/ Release(i)

-----------------------------------------------------------------------------
(* The caller and the nodes.                                               *)

Cancel ==
  /\ ~cancelled
  /\ main.pc \notin {"done", "cut"}
  /\ cancelled' = TRUE
  /\ UNCHANGED <<callerVars, g, nodeVars, troubles>>

\* The RPC comes up, the client catches up.
Progress(n) ==
  /\ \/ health[n] = "starting" /\ health' = [health EXCEPT ![n] = "syncing"]
     \/ health[n] = "syncing" /\ health' = [health EXCEPT ![n] = "synced"]
  /\ UNCHANGED <<callerVars, g, cancelled, cordoned, leaked, troubles>>

\* Mutant of LoopHeals: the test of the cordon is inverted.
MutantLoopHeals(n) ==
  /\ health[n] = "down" /\ cordoned[n]
  /\ health' = [health EXCEPT ![n] = "starting"]
  /\ UNCHANGED <<callerVars, g, cancelled, cordoned, leaked, troubles>>

\* The agent's own loop starts stopped clients again unless it is cordoned.
LoopHeals(n) ==
  /\ health[n] = "down" /\ ~cordoned[n]
  /\ health' = [health EXCEPT ![n] = "starting"]
  /\ UNCHANGED <<callerVars, g, cancelled, cordoned, leaked, troubles>>

FallBehind(n) ==
  /\ health[n] = "synced"
  /\ Trouble
  /\ health' = [health EXCEPT ![n] = "syncing"]
  /\ UNCHANGED <<callerVars, g, cancelled, cordoned, leaked>>

\* The agent process restarts: Agent.cordoned is lost.
AgentRestart(n) ==
  /\ cordoned[n]
  /\ Trouble
  /\ cordoned' = [cordoned EXCEPT ![n] = FALSE]
  /\ leaked' = leaked \ {n}
  /\ UNCHANGED <<callerVars, g, cancelled, health>>

-----------------------------------------------------------------------------
MainStep == NextNode \/ Pause \/ Look \/ Launch \/ Drain

Next ==
  \/ MainStep \/ Cancel
  \/ \E i \in Idx : UpgradeStep(i)
  \/ \E n \in Nodes : Progress(n) \/ LoopHeals(n) \/ FallBehind(n) \/ AgentRestart(n)

\* Goroutines run, timers fire, every call has the HTTP client's 10 s timeout, and each
\* agent's loop ticks.
Fairness ==
  /\ WF_vars(MainStep)
  /\ \A i \in Idx : WF_vars(UpgradeStep(i))
  /\ \A n \in Nodes : WF_vars(LoopHeals(n))

Spec == Init /\ [][Next]_vars /\ Fairness
-----------------------------------------------------------------------------
(* Properties.                                                             *)

Places == {"none", "preflight", "cordon", "reconcile", "check", "wait", "uncordon",
           "report", "release", "end"}

\* Every variable keeps its type; no request ever has two results.
TypeOK ==
  /\ main \in [pc : {"head", "pause", "look", "acquire", "drain", "done", "cut"},
               i : 1 .. N + 1, drained : 0 .. Cap]
  /\ sem \in Nat
  /\ g \in [Idx -> [pc : Places, ok : BOOLEAN, ticks : 0 .. Ticks]]
  /\ results \in [Idx -> 0 .. 1]
  /\ returned \in [Idx -> 0 .. 1]
  /\ cancelled \in BOOLEAN
  /\ cordoned \in [Nodes -> BOOLEAN]
  /\ health \in [Nodes -> {"down", "starting", "syncing", "synced"}]
  /\ leaked \subseteq Nodes
  /\ troubles \in 0 .. MaxTroubles

\* "It upgrades at most maxUnavailable nodes at a time": the goroutines at work are never
\* more than that, whatever fails, also after RollingUpgrade itself has returned early.
AtWork == {i \in Idx : g[i].pc \notin {"none", "end"}}
AtMostMaxUnavailable == Cardinality(AtWork) <= Cap

\* "Wait for all goroutines to finish": when RollingUpgrade returns from its last line
\* every goroutine has ended and the caller has exactly one result for each request,
\* the nodes it has no client for included.
ReturnIsComplete ==
  main.pc = "done" => AtWork = {} /\ \A i \in Idx : returned[i] = 1

\* A node is cordoned only while some goroutine is between its cordon and its uncordon,
\* or because a call about its cordon failed: no path through upgradeNode, error or
\* not, forgets the cordon it took.
UnderCordon(n) ==
  \E i \in Idx : Node(i) = n /\ g[i].pc \in {"reconcile", "check", "wait", "uncordon"}
CordonIsAccountedFor == \A n \in Nodes : cordoned[n] => n \in leaked \/ UnderCordon(n)

\* RollingUpgrade implements RollingPlan: an upgrade is under way from the moment it
\* has its slot until it gives it back, and requests past the loop index are to do.
PlanStage ==
  [i \in Idx |-> IF i >= main.i THEN "todo"
                 ELSE IF Node(i) \notin Nodes THEN "failed"
                 ELSE IF g[i].pc # "end" THEN "busy"
                 ELSE IF g[i].ok THEN "ok" ELSE "failed"]
PlanCall ==
  IF main.pc = "done" THEN "complete" ELSE IF main.pc = "cut" THEN "cut" ELSE "open"

Plan == INSTANCE RollingPlan WITH stage <- PlanStage, call <- PlanCall

ImplementsPlan == Plan!Spec

\* The call returns: no error path keeps its slot, so the drain gets all of them.
CallReturns == <>(main.pc \in {"done", "cut"})

\* A client the upgrade left down comes up again: the node is uncordoned in the end and
\* its own loop starts it, unless the call that should have lifted the cordon failed.
ClientsComeBack == \A n \in Nodes : health[n] = "down" ~> (health[n] # "down" \/ n \in leaked)

\* "Wait for sync to recover after restart": an upgrade that ends well has seen its node
\* synced.  (It has not: a client that is still starting reports itself as synced.)
WaitedForSync ==
  [][\A i \in Idx : g'[i].ok /\ ~g[i].ok => health[Node(i)] = "synced"]_vars
-----------------------------------------------------------------------------
(* The inductive invariant behind the safety properties.                   *)

\* Goroutines exist for exactly the requests before the loop index that have a client.
Placed == \A i \in Idx : g[i].pc = "none" <=> (i >= main.i \/ Node(i) \notin Nodes)

\* A result exists for exactly the requests that are over.
Counted ==
  \A i \in Idx :
    results[i] = IF i < main.i /\ (Node(i) \notin Nodes \/ g[i].pc \in {"release", "end"})
                 THEN 1 ELSE 0

\* Where the loop index is, by the place of RollingUpgrade.
Indexed ==
  /\ main.pc \in {"pause", "look", "acquire", "cut"} => main.i <= N
  /\ main.pc = "acquire" => Node(main.i) \in Nodes
  /\ main.pc \in {"drain", "done"} => main.i = N + 1
  /\ main.drained > 0 => main.pc \in {"drain", "done"}

\* The slots in use are those of the goroutines at work and those already drained.
Slots == sem = Cardinality(AtWork) + main.drained /\ sem <= Cap

\* A complete call has drained every slot and returned every result.
Settled == main.pc = "done" => main.drained = Cap /\ \A i \in Idx : returned[i] = 1

IInv == TypeOK /\ Placed /\ Counted /\ Indexed /\ Slots /\ Settled
=============================================================================
