------------------------------- MODULE Firewall -------------------------------
(***************************************************************************)
(* The firewall stages of a pass, and ufw.                                 *)
(*                                                                         *)
(* A pass brings up to three rule lists to ufw one after the other: the    *)
(* profile's own if its provider is ufw, the same with the agent's port    *)
(* opened to the management networks instead, and the profile's with the   *)
(* beacon port opened to the validator gateways.  reconcileFirewall first  *)
(* compares: DriftCheck takes a rule for present when its port number      *)
(* occurs anywhere in the text of "ufw status".  Only if a rule is missing *)
(* does ApplyRules enable ufw, set the policy, reset it and add the list   *)
(* rule by rule; a failing command ends that stage and not the pass.       *)
(*                                                                         *)
(* "ufw reset" does what ufw(8) says: it disables the firewall, drops its  *)
(* rules and restores the defaults ufw was installed with, a denying       *)
(* policy among them.  ApplyRules enables ufw before its reset and nothing *)
(* enables it afterwards; the rules it adds wait for somebody who does.    *)
(*                                                                         *)
(* The loop and the POST /reconcile handlers run passes concurrently on    *)
(* one ufw; each ufw command is atomic.                                    *)
(***************************************************************************)
EXTENDS Naturals, Sequences, SequencesExt

CONSTANTS
  Provider,      \* Firewall.Provider of the profile
  Policy,        \* what SetDefaultPolicy makes of Firewall.Policy: "deny" or "allow"
  Rules,         \* Firewall.Rules of the profile
  Management,    \* the rules made from ManagementCIDRs
  Gateways,      \* the rules made from VCGateways
  AgentPort,     \* types.AgentPort
  Occurs,        \* pairs <<p, q>> of ports: the digits of p occur in those of q
  Requests,      \* POST /reconcile handlers that can be in flight at once
  MaxRequests,   \* bound: passes of the handlers
  MaxTroubles    \* bound: failing commands, lost requests, crashes of the agent

Loop == "loop"
Workers == {Loop} \cup Requests

\* Mutant of WithGateways: the profile's rules are left out.
MutantWithGateways == Gateways

WithManagement == SelectSeq(Rules, LAMBDA r : ~(r.port = AgentPort /\ r.proto = "tcp")) \o Management
WithGateways == Rules \o Gateways

StageIf(condition, list) == IF condition THEN <<list>> ELSE <<>>

\* The lists of a pass, in order.  Only the first asks for the provider; a stage without
\* networks of its own is not run.  The profile's own list may be empty.
Lists == StageIf(Provider = "ufw", Rules) \o StageIf(Management # <<>>, WithManagement)
                                         \o StageIf(Gateways # <<>>, WithGateways)
AllRules == ToSet(Rules) \cup ToSet(Management) \cup ToSet(Gateways)
Policies == {"deny", "allow"}

ASSUME ListsAssumption == Lists \in Seq(Seq(AllRules)) \ {<<>>}
ASSUME PolicyAssumption == Policy \in Policies
ASSUME WorkersAssumption == Loop \notin Requests
ASSUME BoundsAssumption == MaxRequests \in Nat /\ MaxTroubles \in Nat

VARIABLES
  ufw,       \* is it active, its rules, its default policy for what comes in
  w,         \* each pass: its place, its stage, the next rule, is its context live
  requests,  \* passes of the handlers so far
  troubles,  \* how much has gone wrong so far
  last       \* history: the list of the last reset, its pass, how far that has come, and
             \* whether no other has changed rules or policy since

vars == <<ufw, w, requests, troubles, last>>

Idle == [pc |-> "idle", stage |-> 1, k |-> 1, live |-> TRUE]

Init ==
  /\ \E active \in BOOLEAN : ufw = [active |-> active, rules |-> {}, policy |-> "deny"]
  /\ w = [x \in Workers |-> Idle]
  /\ requests = 0
  /\ troubles = 0
  /\ last = [by |-> Loop, state |-> "void", list |-> <<>>, alone |-> FALSE]

-----------------------------------------------------------------------------
(* reconcileFirewall.                                                      *)

At(x, pc) == w[x].pc = pc
Goto(x, pc) == w' = [w EXCEPT ![x].pc = pc]
List(x) == Lists[w[x].stage]
Trouble == troubles < MaxTroubles /\ troubles' = troubles + 1
Fails(x) == IF w[x].live THEN Trouble ELSE UNCHANGED troubles
Works(x) == w[x].live /\ UNCHANGED troubles

Begin(x) ==
  /\ At(x, "idle")
  /\ IF x = Loop THEN UNCHANGED requests ELSE requests < MaxRequests /\ requests' = requests + 1
  /\ Goto(x, "check")
  /\ UNCHANGED <<ufw, troubles, last>>

\* Mutant of NextStage: one stage too many.
MutantNextStage(x) ==
  w' = [w EXCEPT ![x] = IF w[x].stage > Len(Lists) THEN Idle
                        ELSE [w[x] EXCEPT !.pc = "check", !.stage = w[x].stage + 1, !.k = 1]]

NextStage(x) ==
  w' = [w EXCEPT ![x] = IF w[x].stage = Len(Lists) THEN Idle
                        ELSE [w[x] EXCEPT !.pc = "check", !.stage = w[x].stage + 1, !.k = 1]]

\* An inactive ufw lists no rules.
Shown(port) == ufw.active /\ \E r \in ufw.rules : r.port = port \/ <<port, r.port>> \in Occurs
Drifted(list) == \E r \in ToSet(list) : ~Shown(r.port)

DriftCheck(x) ==
  /\ At(x, "check")
  /\ \/ Works(x) /\ IF Drifted(List(x)) THEN Goto(x, "enable") ELSE NextStage(x)
     \/ Fails(x) /\ NextStage(x)
  /\ UNCHANGED <<ufw, requests, last>>

\* Mutant of Enable: the result of IsEnabled is taken the wrong way round.
MutantEnable(x) ==
  /\ At(x, "enable")
  /\ Works(x) /\ Goto(x, "policy")
  /\ UNCHANGED <<ufw, requests, last>>

\* A command that fails may have been carried out all the same.
Enable(x) ==
  /\ At(x, "enable")
  /\ \/ Works(x) /\ ufw' = [ufw EXCEPT !.active = TRUE] /\ Goto(x, "policy")
     \/ Fails(x) /\ ufw' \in {ufw, [ufw EXCEPT !.active = ufw.active \/ w[x].live]} /\ NextStage(x)
  /\ UNCHANGED <<requests, last>>

\* The command is run: from now on the policy is not the one of the last reset.
SetPolicy == /\ ufw' = [ufw EXCEPT !.policy = Policy]
             /\ last' = [last EXCEPT !.alone = FALSE]

SetDefaultPolicy(x) ==
  /\ At(x, "policy")
  /\ \/ Works(x) /\ SetPolicy /\ Goto(x, "reset")
     \/ /\ Fails(x) /\ NextStage(x)
        /\ \/ UNCHANGED <<ufw, last>>
           \/ w[x].live /\ SetPolicy
  /\ UNCHANGED requests

\* What "ufw reset" leaves, a denying policy as installed.
Fresh == [active |-> FALSE, rules |-> {}, policy |-> "deny"]

\* Mutant of Reset: the rules of before stay, as if adding rules were enough.
MutantReset(x) ==
  /\ At(x, "reset")
  /\ Works(x)
  /\ ufw' = [Fresh EXCEPT !.rules = ufw.rules]
  /\ last' = [by |-> x, state |-> "adding", list |-> List(x), alone |-> TRUE]
  /\ Goto(x, "add")
  /\ UNCHANGED requests

Reset(x) ==
  /\ At(x, "reset")
  /\ \/ /\ Works(x)
        /\ ufw' = Fresh
        /\ last' = [by |-> x, state |-> "adding", list |-> List(x), alone |-> TRUE]
        /\ Goto(x, "add")
     \/ /\ Fails(x) /\ NextStage(x)
        /\ \/ UNCHANGED <<ufw, last>>
           \/ w[x].live /\ ufw' = Fresh /\ last' = [last EXCEPT !.by = x, !.state = "void"]
  /\ UNCHANGED requests

\* The next rule of List(x) has been added, with which what is to be said of the list of the
\* last reset is state; another pass than that of the last reset only spoils it.
Adds(x, state) ==
  /\ ufw' = [ufw EXCEPT !.rules = @ \cup {List(x)[w[x].k]}]
  /\ last' = IF last.by = x THEN [last EXCEPT !.state = state] ELSE [last EXCEPT !.alone = FALSE]

\* A rule is added, active or not; the first that fails ends ApplyRules.
Add(x) ==
  /\ At(x, "add")
  /\ \/ /\ Works(x)
        /\ IF w[x].k = Len(List(x)) THEN NextStage(x) /\ Adds(x, "done")
           ELSE w' = [w EXCEPT ![x].k = @ + 1] /\ Adds(x, last.state)
     \/ /\ Fails(x) /\ NextStage(x)
        /\ \/ /\ UNCHANGED ufw
              /\ last' = IF last.by = x THEN [last EXCEPT !.state = "void"] ELSE last
           \/ w[x].live /\ Adds(x, "void")
  /\ UNCHANGED requests

PassStep(x) == DriftCheck(x) \/ Enable(x) \/ SetDefaultPolicy(x) \/ Reset(x) \/ Add(x)

\* The client of a request goes away: every later command of its pass fails.
LoseRequest(x) ==
  /\ x \in Requests /\ ~At(x, "idle") /\ w[x].live
  /\ Trouble
  /\ w' = [w EXCEPT ![x].live = FALSE]
  /\ UNCHANGED <<ufw, requests, last>>

\* The agent dies between two commands and is started again.
Crash ==
  /\ \E x \in Workers : ~At(x, "idle")
  /\ Trouble
  /\ w' = [x \in Workers |-> Idle]
  /\ last' = IF last.state = "adding" THEN [last EXCEPT !.state = "void"] ELSE last
  /\ UNCHANGED <<ufw, requests>>

\* Somebody with a shell on the host turns ufw on.
TurnOn ==
  /\ ~ufw.active
  /\ ufw' = [ufw EXCEPT !.active = TRUE]
  /\ UNCHANGED <<w, requests, troubles, last>>

Next ==
  \/ \E x \in Workers : Begin(x) \/ PassStep(x)
  \/ \E x \in Requests : LoseRequest(x)
  \/ Crash
  \/ TurnOn

\* The loop ticks, passes move on: every command to ufw ends.
Fairness ==
  /\ WF_vars(Begin(Loop))
  /\ \A x \in Workers : WF_vars(PassStep(x))

Spec == Init /\ [][Next]_vars /\ Fairness
-----------------------------------------------------------------------------
(* Properties.                                                             *)

\* Every variable keeps its type.
TypeOK ==
  /\ ufw \in [active : BOOLEAN, rules : SUBSET AllRules, policy : Policies]
  /\ \A x \in Workers :
       /\ w[x].pc \in {"idle", "check", "enable", "policy", "reset", "add"}
       /\ w[x].stage \in 1 .. Len(Lists)
       /\ IF w[x].pc \in {"idle", "check"} THEN w[x].k = 1 ELSE w[x].k \in 1 .. Len(List(x))
       /\ w[x].live \in BOOLEAN
  /\ requests \in 0 .. MaxRequests
  /\ troubles \in 0 .. MaxTroubles
  /\ last.by \in Workers /\ last.state \in {"void", "adding", "done"} /\ last.alone \in BOOLEAN

\* However passes interleave on the one ufw, a list that was applied to its end without an
\* error has all of its rules installed in ufw, which is to say in force as soon as ufw is
\* turned on, as long as no other pass has reset it since; and if no other pass has added
\* rules or set the policy either, nothing else is installed, and the default policy is the
\* one of the reset: what SetDefaultPolicy set before it is lost.
LastListInstalled ==
  last.state = "done" =>
    /\ ToSet(last.list) \subseteq ufw.rules
    /\ last.alone => ufw.rules = ToSet(last.list) /\ ufw.policy = "deny"

\* An applied list is in force: ufw is on.
AppliedIsInForce == last.state = "done" => ufw.active

AllIdle == \A x \in Workers : At(x, "idle")

\* The resets come to an end only with the help of the operator: once nothing fails and no
\* more requests come, and if ufw, found off between two passes again and again, is turned on
\* there some time, then it is left alone for good, with every port shown: the lists of a
\* pass do not fight, whatever errors, crashes and overlapping passes have left behind.
Settles ==
  SF_vars(TurnOn /\ AllIdle) =>
    <>[](/\ \A x \in Workers : At(x, "idle") \/ At(x, "check")
         /\ \A r \in AllRules : Shown(r.port))

\* Without that help ufw does not stay off for good, but that is all: every pass that finds it
\* off sees all of its rules missing and enables it, until it resets it a moment later.
ComesOn == []<>ufw.active
=============================================================================
