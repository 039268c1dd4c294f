----------------------------- MODULE Deployment -----------------------------
(***************************************************************************)
(* From the inventory to a host: a node that was expanded is written to    *)
(* the node.yaml of its host (by hand or by a tool outside the repository) *)
(* where the agent's pass looks at its maintenance window.                 *)
(***************************************************************************)
EXTENDS Inventory, MaintenanceWindow

CONSTANT Instants   \* the minutes, from some Sunday on, at which the agent looks

ASSUME InstantsAssumption == Instants \subseteq Nat

VARIABLES
  schedule,   \* the schedule in the host's node.yaml
  seen        \* the agent's last look: when, what it made of the schedule, the next opening

deploymentVars == <<vars, schedule, seen>>

NotLooked == [at |-> ZeroTime, verdict |-> "none", next |-> ZeroTime]

DeploymentInit ==
  /\ Init
  /\ schedule = NoString
  /\ seen = NotLooked

Expand == Next /\ UNCHANGED <<schedule, seen>>

\* The process that expanded the nodes has ended by then.
Deploy ==
  /\ pc = "done"
  /\ \E k \in DOMAIN nodes : schedule' = nodes[k].spec.schedule
  /\ pc' = "gone"
  /\ job' = Gone /\ profiles' = <<>> /\ at' = 1 /\ nodes' = <<>> /\ mem' = <<>>
  /\ UNCHANGED <<build, seen>>

\* The agent's look at the window: an expression that does not parse is a warning, a
\* closed window a message; the pass goes on either way.  NextOpen is asked beside it.
\* One look stands for all: nothing is kept from one to the next.
Look ==
  /\ pc = "gone" /\ schedule # NoString /\ seen = NotLooked
  /\ \E t \in Instants :
       seen' = IF ~Parses(schedule) THEN [NotLooked EXCEPT !.at = t, !.verdict = "invalid"]
               ELSE [at |-> t, verdict |-> IF IsOpen(Parsed(schedule), t) THEN "open" ELSE "closed",
                     next |-> NextOpen(Parsed(schedule), t)]
  /\ UNCHANGED <<vars, schedule>>

DeploymentNext == Expand \/ Deploy \/ Look

DeploymentSpec == DeploymentInit /\ [][DeploymentNext]_deploymentVars
-----------------------------------------------------------------------------
(* Properties.                                                             *)

\* A window that parses opens again within a week, whatever its fields and whenever it is
\* asked, and not before NextOpen's answer.  One that names a minute and an hour, and only a
\* weekday beside them, opens when cron next fires, if it is not open already.
NextOpenIsNext ==
  seen.verdict \in {"open", "closed"} =>
    /\ seen.next \in seen.at + 1 .. seen.at + Week
    /\ IsOpen(Parsed(schedule), seen.next)
    /\ \A t \in seen.at + 1 .. seen.next - 1 : ~IsOpen(Parsed(schedule), t)
    /\ seen.verdict = "closed" /\ NamesAnHour(schedule) => FiresNext(schedule, seen.at, seen.next)
=============================================================================
