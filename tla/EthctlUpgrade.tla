----------------------------- MODULE EthctlUpgrade -----------------------------
(***************************************************************************)
(* "ethctl upgrade": the upgrader of the command line.  It walks its       *)
(* targets one after the other -- look up, preflight, cordon, reconcile,   *)
(* uncordon, a pause of 30 s -- and returns at the first error.            *)
(*                                                                         *)
(* It knows nothing of the orchestrator of RollingUpgrade and differs from *)
(* it: no goroutines and no deferred uncordon, errors inside a reconcile   *)
(* result are not looked at, nothing waits for sync.  Names are looked up  *)
(* in the inventory directory, where nothing keeps two files from having   *)
(* the same name: the upgrade takes the last, the other commands the       *)
(* first.                                                                  *)
(*                                                                         *)
(* Around it: calls that get lost before or after the agent has acted,     *)
(* agents that restart, an operator who cordons and uncordons nodes from   *)
(* another terminal, and Ctrl-C.                                           *)
(***************************************************************************)
EXTENDS Integers, Sequences

CONSTANTS
  Inventories,    \* what can be in the inventory: node files in directory order, name and host
  Targets,        \* the names to upgrade: the arguments or, without any, those of all files
  SkipPreflight,  \* --skip-preflight
  MaxTroubles,    \* bound: lost calls, agents that restart, nodes that fall behind
  MaxCommands     \* bound: ethctl cordon and ethctl uncordon by the operator

ASSUME InventoryAssumption == \A inv \in Inventories : inv \in Seq([name : STRING, host : STRING])
ASSUME TargetsAssumption == Targets \in Seq(STRING)
ASSUME FlagAssumption == SkipPreflight \in BOOLEAN
ASSUME BoundsAssumption == MaxTroubles \in Nat /\ MaxCommands \in Nat

Hosts == UNION {{inv[k].host : k \in 1 .. Len(inv)} : inv \in Inventories}
N == Len(Targets)

VARIABLES
  inventory, \* the node files there are
  cmd,       \* the command: its place, the loop index, the host of the node at work
  alive,     \* nobody has interrupted it
  cordoned,  \* the agent's cordon, per host
  health,    \* the clients, per host
  held,      \* history: hosts the operator has cordoned, by a cordon that is in force
  leaked,    \* history: hosts whose cordon the command gave up on
  budget     \* troubles and operator commands so far

vars == <<inventory, cmd, alive, cordoned, health, held, leaked, budget>>
hostVars == <<cordoned, health, held, leaked>>

NoHost == "none"
Entries == 1 .. Len(inventory)

Init ==
  /\ inventory \in Inventories
  /\ cmd = [pc |-> "next", at |-> 0, host |-> NoHost]
  /\ alive = TRUE
  /\ cordoned = [h \in Hosts |-> FALSE]
  /\ health = [h \in Hosts |-> "synced"]
  /\ held = {}
  /\ leaked = {}
  /\ budget = [troubles |-> 0, commands |-> 0]

-----------------------------------------------------------------------------
(* The command.                                                            *)

At(pc) == alive /\ cmd.pc = pc
Goto(pc) == cmd' = [cmd EXCEPT !.pc = pc]
Fail == Goto("error")

Trouble == budget.troubles < MaxTroubles /\ budget' = [budget EXCEPT !.troubles = @ + 1]

\* What /status says of a running client: the error of its sync query is dropped.
ReportsSynced(h) == health[h] \in {"starting", "synced"}

\* nodeMap is filled in directory order: of two files with one name the last one stays.
MapsTo(name, k) ==
  /\ inventory[k].name = name
  /\ \A j \in Entries : j > k => inventory[j].name # name
Known(name) == \E k \in Entries : inventory[k].name = name

\* Mutant of NextTarget: the bound of the loop is off by one.
MutantNextTarget ==
  /\ At("next")
  /\ cmd' = IF cmd.at <= N THEN [cmd EXCEPT !.pc = "lookup", !.at = @ + 1, !.host = NoHost]
            ELSE [cmd EXCEPT !.pc = "done"]
  /\ UNCHANGED <<alive, hostVars, budget>>

\* The head of the loop, after the pause that follows each node but the last.
NextTarget ==
  /\ At("next")
  /\ cmd' = IF cmd.at < N THEN [cmd EXCEPT !.pc = "lookup", !.at = @ + 1, !.host = NoHost]
            ELSE [cmd EXCEPT !.pc = "done"]
  /\ UNCHANGED <<alive, hostVars, budget>>

\* Mutant of Lookup: a name that is not in the inventory is passed over.
MutantLookup ==
  /\ At("lookup")
  /\ \/ \E k \in Entries :
          /\ MapsTo(Targets[cmd.at], k)
          /\ cmd' = [cmd EXCEPT !.pc = IF SkipPreflight THEN "cordon" ELSE "preflight",
                                !.host = inventory[k].host]
     \/ ~Known(Targets[cmd.at]) /\ Goto("next")
  /\ UNCHANGED <<alive, hostVars, budget>>

Lookup ==
  /\ At("lookup")
  /\ \/ \E k \in Entries :
          /\ MapsTo(Targets[cmd.at], k)
          /\ cmd' = [cmd EXCEPT !.pc = IF SkipPreflight THEN "cordon" ELSE "preflight",
                                !.host = inventory[k].host]
     \/ ~Known(Targets[cmd.at]) /\ Fail
  /\ UNCHANGED <<alive, hostVars, budget>>

Preflight ==
  /\ At("preflight")
  /\ \/ ReportsSynced(cmd.host) /\ Goto("cordon") /\ UNCHANGED budget
     \/ ~ReportsSynced(cmd.host) /\ Fail /\ UNCHANGED budget
     \/ Trouble /\ Fail
  /\ UNCHANGED <<alive, hostVars>>

\* When the answer is lost the agent may be cordoned all the same.
CordonNode ==
  LET h == cmd.host IN
  /\ At("cordon")
  /\ \/ /\ cordoned' = [cordoned EXCEPT ![h] = TRUE]
        /\ Goto("reconcile")
        /\ UNCHANGED <<leaked, budget>>
     \/ /\ Trouble /\ Fail
        /\ \/ UNCHANGED <<cordoned, leaked>>
           \/ cordoned' = [cordoned EXCEPT ![h] = TRUE] /\ leaked' = leaked \cup {h}
  /\ UNCHANGED <<alive, health, held>>

\* Mutant of TriggerReconcile: the error returns without an uncordon.
MutantTriggerReconcile ==
  LET h == cmd.host IN
  /\ At("reconcile")
  /\ \/ Goto("uncordon") /\ UNCHANGED budget
     \/ Trouble /\ Fail
  /\ \/ UNCHANGED health
     \/ \E s \in {"starting", "down"} : health' = [health EXCEPT ![h] = s]
  /\ UNCHANGED <<alive, cordoned, held, leaked>>

\* POST /reconcile has nothing to do, restarts the clients, or leaves one down; the errors
\* in its answer are not looked at.  A lost call may have done any of it.
TriggerReconcile ==
  LET h == cmd.host IN
  /\ At("reconcile")
  /\ \/ Goto("uncordon") /\ UNCHANGED budget
     \/ Trouble /\ Goto("undo")
  /\ \/ UNCHANGED health
     \/ \E s \in {"starting", "down"} : health' = [health EXCEPT ![h] = s]
  /\ UNCHANGED <<alive, cordoned, held, leaked>>

\* Uncordon, after the reconcile or after its error: a failure is printed or dropped.  It
\* lifts whatever cordon the node has, the operator's too.
UncordonNode ==
  LET h == cmd.host
      Lift == /\ cordoned' = [cordoned EXCEPT ![h] = FALSE]
              /\ leaked' = leaked \ {h} /\ held' = held \ {h}
  IN
  /\ At("uncordon") \/ At("undo")
  /\ \/ Lift /\ UNCHANGED budget
     \/ /\ Trouble
        /\ \/ Lift
           \/ /\ leaked' = IF cordoned[h] THEN leaked \cup {h} ELSE leaked
              /\ UNCHANGED <<cordoned, held>>
  /\ IF cmd.pc = "undo" THEN Fail ELSE Goto("next")
  /\ UNCHANGED <<alive, health>>

\* RunE has returned its error: the process exits with it.
Exit ==
  /\ At("error")
  /\ Goto("exit")
  /\ UNCHANGED <<alive, hostVars, budget>>

Step ==
  \/ NextTarget \/ Lookup \/ Preflight \/ CordonNode \/ TriggerReconcile \/ UncordonNode
  \/ Exit

\* Ctrl-C: no signal is handled and nothing is deferred.
AtNode == cmd.pc \in {"reconcile", "uncordon", "undo"}
Interrupt ==
  /\ alive /\ cmd.pc \notin {"done", "exit"}
  /\ alive' = FALSE
  /\ leaked' = IF AtNode /\ cordoned[cmd.host] THEN leaked \cup {cmd.host} ELSE leaked
  /\ UNCHANGED <<cmd, cordoned, health, held, budget>>

-----------------------------------------------------------------------------
(* The operator and the hosts.                                             *)

\* findNode takes the first file with the name.
Finds(name, k) ==
  /\ inventory[k].name = name
  /\ \A j \in Entries : j < k => inventory[j].name # name

Operate(on) ==
  /\ budget.commands < MaxCommands
  /\ budget' = [budget EXCEPT !.commands = @ + 1]
  /\ \E k \in Entries :
       LET h == inventory[k].host IN
       /\ Finds(inventory[k].name, k)
       /\ cordoned' = [cordoned EXCEPT ![h] = on]
       /\ held' = IF on THEN held \cup {h} ELSE held \ {h}
       /\ leaked' = IF on THEN leaked ELSE leaked \ {h}
  /\ UNCHANGED <<cmd, alive, health>>

Progress(h) ==
  /\ \/ health[h] = "starting" /\ health' = [health EXCEPT ![h] = "syncing"]
     \/ health[h] = "syncing" /\ health' = [health EXCEPT ![h] = "synced"]
  /\ UNCHANGED <<cmd, alive, cordoned, held, leaked, budget>>

\* Mutant of LoopHeals: the test of the cordon is inverted.
MutantLoopHeals(h) ==
  /\ health[h] = "down" /\ cordoned[h]
  /\ health' = [health EXCEPT ![h] = "starting"]
  /\ UNCHANGED <<cmd, alive, cordoned, held, leaked, budget>>

\* The agent's own loop starts stopped clients again unless it is cordoned.
LoopHeals(h) ==
  /\ health[h] = "down" /\ ~cordoned[h]
  /\ health' = [health EXCEPT ![h] = "starting"]
  /\ UNCHANGED <<cmd, alive, cordoned, held, leaked, budget>>

FallBehind(h) ==
  /\ health[h] = "synced"
  /\ Trouble
  /\ health' = [health EXCEPT ![h] = "syncing"]
  /\ UNCHANGED <<cmd, alive, cordoned, held, leaked>>

\* The agent process restarts: Agent.cordoned is lost.
AgentRestart(h) ==
  /\ cordoned[h]
  /\ Trouble
  /\ cordoned' = [cordoned EXCEPT ![h] = FALSE]
  /\ held' = held \ {h} /\ leaked' = leaked \ {h}
  /\ UNCHANGED <<cmd, alive, health>>

-----------------------------------------------------------------------------
World ==
  \/ \E on \in BOOLEAN : Operate(on)
  \/ \E h \in Hosts : Progress(h) \/ LoopHeals(h) \/ FallBehind(h) \/ AgentRestart(h)

Next == (Step \/ Interrupt \/ World) /\ UNCHANGED inventory

\* The command runs, every call has the HTTP client's 10 s timeout, each agent's loop ticks.
Fairness ==
  /\ WF_vars(Step /\ UNCHANGED inventory)
  /\ \A h \in Hosts : WF_vars(LoopHeals(h) /\ UNCHANGED inventory)

Spec == Init /\ [][Next]_vars /\ Fairness
-----------------------------------------------------------------------------
(* Properties.                                                             *)

\* Every variable keeps its type; the loop index stays within the targets, and a node at
\* work has the host of a file.
TypeOK ==
  /\ inventory \in Inventories
  /\ cmd \in [pc : {"next", "lookup", "preflight", "cordon", "reconcile", "undo", "uncordon",
                    "error", "done", "exit"},
              at : 0 .. N, host : Hosts \cup {NoHost}]
  /\ cmd.pc = "lookup" => cmd.at \in 1 .. N
  /\ cmd.pc \in {"preflight", "cordon", "reconcile", "undo", "uncordon"} =>
       cmd.at \in 1 .. N /\ cmd.host \in Hosts
  /\ cmd.pc \in {"error", "exit"} => cmd.at \in 1 .. N
  /\ cmd.pc = "done" => cmd.at = N
  /\ alive \in BOOLEAN
  /\ cordoned \in [Hosts -> BOOLEAN]
  /\ health \in [Hosts -> {"down", "starting", "syncing", "synced"}]
  /\ held \subseteq Hosts /\ leaked \subseteq Hosts
  /\ budget \in [troubles : 0 .. MaxTroubles, commands : 0 .. MaxCommands]

\* A node stays cordoned behind the command's back only if the operator cordoned it, a call
\* about its cordon failed, or the command was interrupted: no error path leaves a cordon
\* that was set, although nothing is deferred.
CordonLeftIsExplained ==
  \A h \in Hosts :
    cordoned[h] => h \in held \cup leaked \/ (alive /\ AtNode /\ cmd.host = h)

\* The second upgrader keeps the promises of the first: it implements RollingPlan with one
\* node at a time, each target in its turn, the rest left alone once one has failed.
PlanStage ==
  [i \in 1 .. N |-> IF i < cmd.at THEN "ok"
                    ELSE IF i > cmd.at \/ cmd.pc = "lookup" THEN "todo"
                    ELSE IF cmd.pc \in {"next", "done"} THEN "ok"
                    ELSE IF cmd.pc \in {"error", "exit"} THEN "failed" ELSE "busy"]
Left == cmd.at < N \/ cmd.pc = "lookup"
PlanCall ==
  IF cmd.pc = "done" \/ (cmd.pc = "exit" /\ ~Left) THEN "complete"
  ELSE IF Left /\ (cmd.pc = "exit" \/ ~alive) THEN "cut" ELSE "open"

Plan == INSTANCE RollingPlan WITH stage <- PlanStage, call <- PlanCall, Cap <- 1

ImplementsPlan == Plan!Spec

\* A client the reconcile has left down, whose error nobody looked at, comes up again: the
\* node is uncordoned in the end and its own loop starts it, unless the operator holds its
\* cordon or the command gave up on it.
ClientsComeBack ==
  \A h \in Hosts : health[h] = "down" ~> (health[h] # "down" \/ h \in held \cup leaked)
=============================================================================
