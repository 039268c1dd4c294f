----------------------------- MODULE RollingPlan -----------------------------
(***************************************************************************)
(* What a rolling upgrade promises its caller: the requested upgrades are  *)
(* begun in order, at most Cap of them are under way at any time, each     *)
(* ends once, and the call returns when all have ended -- or is cut short, *)
(* after which no further upgrade is begun.                                *)
(***************************************************************************)
EXTENDS Naturals, FiniteSets

CONSTANTS
  N,      \* number of requested upgrades
  Cap     \* how many may be under way at once

VARIABLES
  stage,  \* stage[i]: where the i-th requested upgrade is
  call    \* the call itself: "open", "complete" or "cut"

planVars == <<stage, call>>

Upgrades == 1 .. N
Busy == {i \in Upgrades : stage[i] = "busy"}
Ended(i) == stage[i] \in {"ok", "failed"}

Init ==
  /\ stage = [i \in Upgrades |-> "todo"]
  /\ call = "open"

NextInLine(i) == stage[i] = "todo" /\ \A j \in 1 .. i - 1 : stage[j] # "todo"

Begin(i) ==
  /\ call = "open"
  /\ NextInLine(i)
  /\ Cardinality(Busy) < Cap
  /\ stage' = [stage EXCEPT ![i] = "busy"]
  /\ UNCHANGED call

\* The caller has no client for that node.
Reject(i) ==
  /\ call = "open"
  /\ NextInLine(i)
  /\ stage' = [stage EXCEPT ![i] = "failed"]
  /\ UNCHANGED call

Finish(i) ==
  /\ stage[i] = "busy"
  /\ \E end \in {"ok", "failed"} : stage' = [stage EXCEPT ![i] = end]
  /\ UNCHANGED call

Complete ==
  /\ call = "open"
  /\ \A i \in Upgrades : Ended(i)
  /\ call' = "complete"
  /\ UNCHANGED stage

CutShort ==
  /\ call = "open"
  /\ \E i \in Upgrades : stage[i] = "todo"
  /\ call' = "cut"
  /\ UNCHANGED stage

Next ==
  \/ \E i \in Upgrades : Begin(i) \/ Reject(i) \/ Finish(i)
  \/ Complete
  \/ CutShort

Spec == Init /\ [][Next]_planVars
=============================================================================
