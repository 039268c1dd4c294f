---------------------------- MODULE Firewall_proofs ----------------------------
(***************************************************************************)
(* Proofs about Firewall, for any rule lists, any number of concurrent     *)
(* passes and of troubles.                                                 *)
(***************************************************************************)
EXTENDS Firewall, TLAPS

Pass == [pc : {"idle", "check", "enable", "policy", "reset", "add"},
         stage : 1 .. Len(Lists), k : Nat \ {0}, live : BOOLEAN]

\* ApplyRules is called for lists with rules only, and its next rule is one of the list.
Applying == {"enable", "policy", "reset", "add"}
NextInList == \A x \in Workers : w[x].pc \in Applying => w[x].k <= Len(List(x))

UfwStates == [active : BOOLEAN, rules : SUBSET AllRules, policy : Policies]
LastStates == [by : Workers, state : {"void", "adding", "done"}, list : Seq(AllRules), alone : BOOLEAN]

\* The variables beside the passes.
RestTyped ==
  /\ ufw \in UfwStates /\ last \in LastStates
  /\ requests \in 0 .. MaxRequests /\ troubles \in 0 .. MaxTroubles

Typed == RestTyped /\ w \in [Workers -> Pass]

\* Nothing but the first n rules of list has been installed since the reset.
Exactly(list, n) == ufw.policy = "deny" /\ \A r \in ufw.rules : \E j \in 1 .. n : r = list[j]

\* The pass of the last reset, while it adds rules, has added all before its next one, and as
\* long as it is alone nothing else is there.
AddedSoFar ==
  \A x \in Workers : w[x].pc = "add" /\ last.by = x =>
    /\ last.list = List(x) /\ last.state = "adding"
    /\ \A j \in 1 .. (w[x].k - 1) : List(x)[j] \in ufw.rules
    /\ last.alone => Exactly(List(x), w[x].k - 1)

\* Before it adds a pass is at the first rule of its list.
FirstBeforeAdd == \A x \in Workers : w[x].pc # "add" => w[x].k = 1

IInv == Typed /\ NextInList /\ AddedSoFar /\ FirstBeforeAdd /\ LastListInstalled
-----------------------------------------------------------------------------
(* The lists, and how steps move the passes.                               *)

LEMMA ListFacts ==
  /\ Len(Lists) \in Nat \ {0}
  /\ \A n \in 1 .. Len(Lists) : Lists[n] \in Seq(AllRules) /\ Len(Lists[n]) \in Nat
BY ListsAssumption

LEMMA ListTyped ==
  ASSUME Typed, NEW x \in Workers
  PROVE  List(x) \in Seq(AllRules) /\ Len(List(x)) \in Nat
<1>1. w[x].stage \in 1 .. Len(Lists)
  BY DEF Typed, Pass
<1> QED BY <1>1, ListFacts DEF List

LEMMA TroublesTyped ==
  ASSUME Typed, NEW x, Trouble \/ Fails(x) \/ Works(x) \/ UNCHANGED troubles
  PROVE  troubles' \in 0 .. MaxTroubles
BY BoundsAssumption DEF Typed, RestTyped, Trouble, Fails, Works

Others(x) == w' \in [Workers -> Pass] /\ \A y \in Workers \ {x} : w'[y] = w[y]

\* x is in ApplyRules next only for a list with rules, before the first of which it is.
Pauses(x) == /\ Others(x) /\ w'[x].pc # "add" /\ w'[x].k = 1
             /\ w'[x].pc \in Applying => Len(List(x)') > 0

LEMMA StageIsOver == ASSUME Typed, NEW x \in Workers, NextStage(x) PROVE Pauses(x)
<1> PICK p \in Pass : p = w[x]
  BY DEF Typed
<1>1. 1 \in 1 .. Len(Lists) /\ (p.stage # Len(Lists) => p.stage + 1 \in 1 .. Len(Lists))
  BY ListFacts DEF Pass
<1>2. ASSUME NEW r \in Pass, w' = [w EXCEPT ![x] = r], r.pc \notin Applying, r.k = 1
      PROVE  Pauses(x)
  BY <1>2 DEF Typed, Pauses, Others, Applying
<1>3. CASE p.stage = Len(Lists)
  <2>1. Idle \in Pass /\ Idle.pc \notin Applying /\ Idle.k = 1
    BY <1>1 DEF Idle, Pass, Applying
  <2> QED BY <1>2, <1>3, <2>1 DEF NextStage
<1>4. CASE p.stage # Len(Lists)
  <2> PICK r : r = [p EXCEPT !.pc = "check", !.stage = p.stage + 1, !.k = 1]
    OBVIOUS
  <2>1. ASSUME NEW n \in 1 .. Len(Lists), NEW m \in Nat \ {0}
        PROVE  [p EXCEPT !.pc = "check", !.stage = n, !.k = m] \in Pass
    BY DEF Pass
  <2>2. r \in Pass /\ r.pc \notin Applying /\ r.k = 1
    <3>1. 1 \in Nat \ {0} /\ p.stage + 1 \in 1 .. Len(Lists)
      BY <1>1, <1>4
    <3>2. r \in Pass
      BY <2>1, <3>1
    <3> QED BY <3>2 DEF Pass, Applying
  <2> QED BY <1>2, <1>4, <2>2 DEF NextStage
<1> QED BY <1>3, <1>4

LEMMA Going ==
  ASSUME Typed, FirstBeforeAdd, NEW x \in Workers, w[x].pc # "add",
         NEW pc \in {"check", "enable", "policy", "reset"}, Goto(x, pc),
         pc # "check" => Len(List(x)) > 0
  PROVE  Pauses(x)
<1>1. /\ w' \in [Workers -> Pass] /\ \A y \in Workers \ {x} : w'[y] = w[y]
      /\ w'[x].pc = pc /\ w'[x].k = 1 /\ w'[x].stage = w[x].stage
  BY DEF Typed, FirstBeforeAdd, Goto, Pass
<1> QED BY <1>1 DEF Pauses, Others, Applying, List

-----------------------------------------------------------------------------
(* The invariant is inductive.                                             *)

\* A pass that pauses disturbs nothing, as long as ufw keeps its rules; what it changes all
\* the same is not counted for a list that is the only one.
LEMMA PauseStep ==
  ASSUME IInv, NEW x \in Workers, Pauses(x), RestTyped', ufw.rules \subseteq ufw'.rules,
         last'.by = last.by, last'.list = last.list, last'.state = "done" => last.state = "done",
         last'.state = last.state \/ last'.by = x,
         \/ last'.by = x /\ last'.state # "done"
         \/ last'.alone => /\ last.alone
                           /\ ufw'.rules = ufw.rules /\ ufw'.policy = ufw.policy
  PROVE  IInv'
<1> USE DEF IInv, Pauses, Others
<1>1. Typed'
  BY DEF Typed
<1>2. \A y \in Workers \ {x} : List(y)' = List(y)
  BY DEF List
<1>3. NextInList'
  <2>1. Len(List(x)') \in Nat
    <3>1. w'[x].stage \in 1 .. Len(Lists)
      BY DEF Pass
    <3> QED BY <3>1, ListFacts DEF List
  <2> QED BY <1>2, <2>1 DEF NextInList
<1>4. AddedSoFar'
  <2>1. ASSUME NEW y \in Workers, w'[y].pc = "add", last'.by = y
        PROVE  /\ last'.list = List(y)' /\ last'.state = "adding"
               /\ (\A j \in 1 .. (w[y].k - 1) : List(y)[j] \in ufw.rules)'
               /\ (last.alone => Exactly(List(y), w[y].k - 1))'
    <3>1. y # x /\ w'[y] = w[y] /\ List(y)' = List(y)
      BY <1>2, <2>1
    <3>2. /\ last.list = List(y) /\ last.state = "adding"
          /\ \A j \in 1 .. (w[y].k - 1) : List(y)[j] \in ufw.rules
          /\ last.alone => Exactly(List(y), w[y].k - 1)
      BY <2>1, <3>1 DEF AddedSoFar
    <3>3. last'.alone => Exactly(List(y), w[y].k - 1)'
      BY <2>1, <3>1, <3>2 DEF Exactly
    <3> QED BY <2>1, <3>1, <3>2, <3>3
  <2> QED BY <2>1 DEF AddedSoFar
<1>5. FirstBeforeAdd'
  BY DEF FirstBeforeAdd
<1>6. LastListInstalled'
  BY DEF LastListInstalled
<1> QED BY <1>1, <1>3, <1>4, <1>5, <1>6

\* A pass resets ufw: what other passes have added is theirs no more.
LEMMA ResetStep == ASSUME IInv, NEW x \in Workers, Reset(x) PROVE IInv'
<1> USE DEF IInv
<1>1. /\ troubles' \in 0 .. MaxTroubles /\ w[x].pc = "reset" /\ w[x].k = 1 /\ UNCHANGED requests
      /\ List(x) \in Seq(AllRules) /\ Len(List(x)) \in Nat /\ Len(List(x)) > 0
  <2>1. w[x].pc = "reset" /\ w[x].k = 1 /\ w[x].k <= Len(List(x))
    BY DEF Reset, At, FirstBeforeAdd, NextInList, Applying
  <2> QED BY <2>1, TroublesTyped, ListTyped DEF Reset
<1>2. CASE Fails(x) /\ NextStage(x) /\ UNCHANGED <<ufw, last>>
  <2>1. RestTyped'
    BY <1>1, <1>2 DEF Typed, RestTyped
  <2> QED BY <1>2, <2>1, StageIsOver, PauseStep
<1>3. ASSUME ufw' = Fresh, last'.by = x, last'.state # "done", last' \in LastStates,
             Others(x), w'[x].k = 1, w'[x].pc = "add" => last'.list = List(x)' /\ last'.state = "adding",
             w'[x].pc \in Applying => Len(List(x)') > 0
      PROVE  IInv'
  <2>1. RestTyped'
    BY <1>1, <1>3 DEF Typed, RestTyped, Fresh, UfwStates, Policies
  <2>2. Typed'
    BY <1>3, <2>1 DEF Typed, Others
  <2>3. NextInList'
    <3>1. Len(List(x)') \in Nat
      <4>1. w'[x].stage \in 1 .. Len(Lists)
        BY <1>3 DEF Others, Pass
      <4> QED BY <4>1, ListFacts DEF List
    <3> QED BY <1>3, <3>1 DEF NextInList, Others, List
  <2>4. AddedSoFar'
    BY <1>3 DEF AddedSoFar, Others, Exactly, Fresh
  <2>5. FirstBeforeAdd'
    BY <1>3 DEF FirstBeforeAdd, Others
  <2>6. LastListInstalled'
    BY <1>3 DEF LastListInstalled
  <2> QED BY <2>2, <2>3, <2>4, <2>5, <2>6
<1>4. CASE /\ ufw' = Fresh
           /\ last' = [by |-> x, state |-> "adding", list |-> List(x), alone |-> TRUE]
           /\ Goto(x, "add")
  <2>1. Others(x) /\ w'[x].k = 1 /\ List(x)' = List(x)
    BY <1>1, <1>4 DEF Goto, Typed, Others, Pass, List
  <2>2. last' \in LastStates /\ last'.by = x /\ last'.state = "adding" /\ last'.list = List(x)
    BY <1>1, <1>4 DEF LastStates
  <2> QED BY <1>1, <1>3, <1>4, <2>1, <2>2
<1>5. CASE NextStage(x) /\ ufw' = Fresh /\ last' = [last EXCEPT !.by = x, !.state = "void"]
  <2>1. Pauses(x)
    BY <1>5, StageIsOver
  <2>2. last' \in LastStates /\ last'.by = x /\ last'.state # "done"
    BY <1>5 DEF Typed, RestTyped, LastStates
  <2> QED BY <1>3, <1>5, <2>1, <2>2 DEF Pauses
<1> QED BY <1>2, <1>4, <1>5 DEF Reset

\* The rule that is added is one of the lists'; the pass of the last reset says how it went on.
LEMMA AddsTyped ==
  ASSUME IInv, NEW x \in Workers, w[x].k \in 1 .. Len(List(x)), List(x) \in Seq(AllRules),
         NEW state \in {"void", "adding", "done"}, Adds(x, state),
         requests' = requests, troubles' \in 0 .. MaxTroubles
  PROVE  /\ RestTyped' /\ last'.by = last.by /\ last'.list = last.list
         /\ ufw'.rules = ufw.rules \cup {List(x)[w[x].k]} /\ ufw'.policy = ufw.policy
         /\ last.by = x => last'.state = state /\ last'.alone = last.alone
         /\ last.by # x => last'.state = last.state /\ ~last'.alone
<1>1. List(x)[w[x].k] \in AllRules
  OBVIOUS
<1>2. ufw \in UfwStates /\ last \in LastStates /\ requests \in 0 .. MaxRequests
  BY DEF IInv, Typed, RestTyped
<1>3. /\ ufw' \in UfwStates /\ ufw'.policy = ufw.policy
      /\ ufw'.rules = ufw.rules \cup {List(x)[w[x].k]}
  BY <1>1, <1>2 DEF Adds, UfwStates
<1>4. /\ last' \in LastStates /\ last'.by = last.by /\ last'.list = last.list
      /\ last.by = x => last'.state = state /\ last'.alone = last.alone
      /\ last.by # x => last'.state = last.state /\ ~last'.alone
  BY <1>2 DEF Adds, LastStates
<1> QED BY <1>2, <1>3, <1>4 DEF RestTyped

\* A rule is added; with the last one the whole list of the last reset is installed.
LEMMA AddStep == ASSUME IInv, NEW x \in Workers, Add(x) PROVE IInv'
<1> USE DEF IInv
<1>1. /\ troubles' \in 0 .. MaxTroubles /\ w[x].pc = "add" /\ UNCHANGED requests
      /\ List(x) \in Seq(AllRules) /\ Len(List(x)) \in Nat
      /\ w[x].k \in 1 .. Len(List(x))
  <2>1. w[x].pc = "add" /\ w[x].k <= Len(List(x)) /\ w[x].k \in Nat \ {0}
    BY DEF Add, At, Typed, Pass, NextInList, Applying
  <2> QED BY <2>1, TroublesTyped, ListTyped DEF Add
<1>2. CASE /\ Fails(x) /\ NextStage(x) /\ UNCHANGED ufw
           /\ last' = IF last.by = x THEN [last EXCEPT !.state = "void"] ELSE last
  <2>1. RestTyped' /\ last'.by = last.by /\ last'.list = last.list /\ last'.alone = last.alone
        /\ (last'.state = "done" => last.state = "done")
        /\ (last'.state = last.state \/ last'.by = x)
    BY <1>1, <1>2 DEF Typed, RestTyped, LastStates
  <2> QED BY <1>2, <2>1, StageIsOver, PauseStep
<1>3. CASE NextStage(x) /\ Adds(x, "void")
  <2>1. /\ RestTyped' /\ last'.by = last.by /\ last'.list = last.list
        /\ ufw'.rules = ufw.rules \cup {List(x)[w[x].k]}
        /\ last.by = x => last'.state = "void"
        /\ last.by # x => last'.state = last.state /\ ~last'.alone
    BY <1>1, <1>3, AddsTyped
  <2> QED BY <1>3, <2>1, StageIsOver, PauseStep
<1>4. CASE w[x].k = Len(List(x)) /\ NextStage(x) /\ Adds(x, "done")
  <2>1. /\ RestTyped' /\ last'.by = last.by /\ last'.list = last.list
        /\ ufw'.rules = ufw.rules \cup {List(x)[w[x].k]} /\ ufw'.policy = ufw.policy
        /\ last.by = x => last'.alone = last.alone
        /\ last.by # x => last'.state = last.state /\ ~last'.alone
    BY <1>1, <1>4, AddsTyped
  <2>2. Pauses(x)
    BY <1>4, StageIsOver
  <2>3. CASE last.by # x
    BY <2>1, <2>2, <2>3, PauseStep
  <2>4. CASE last.by = x
    <3>1. /\ last.list = List(x) /\ \A j \in 1 .. (w[x].k - 1) : List(x)[j] \in ufw.rules
          /\ last.alone => Exactly(List(x), w[x].k - 1)
      BY <1>1, <2>4 DEF AddedSoFar
    <3>2. \A j \in 1 .. Len(List(x)) : List(x)[j] \in ufw'.rules
      BY <1>1, <1>4, <2>1, <3>1
    <3>3. LastListInstalled'
      <4>1. last'.list = List(x)
        BY <2>1, <3>1
      <4>2. ToSet(List(x)) \subseteq ufw'.rules
        BY <1>1, <3>2 DEF ToSet
      <4>3. ASSUME last'.alone PROVE ufw'.policy = "deny" /\ ufw'.rules \subseteq ToSet(List(x))
        <5>1. ufw.policy = "deny" /\ \A r \in ufw.rules : \E j \in 1 .. (w[x].k - 1) : r = List(x)[j]
          BY <2>1, <2>4, <3>1, <4>3 DEF Exactly
        <5>2. \A j \in 1 .. Len(List(x)) : List(x)[j] \in ToSet(List(x))
          BY <1>1 DEF ToSet
        <5>3. \A j \in 1 .. (w[x].k - 1) : j \in 1 .. Len(List(x))
          BY <1>1
        <5> QED BY <1>1, <2>1, <5>1, <5>2, <5>3
      <4> QED BY <4>1, <4>2, <4>3 DEF LastListInstalled
    <3>4. Typed' /\ NextInList' /\ AddedSoFar' /\ FirstBeforeAdd'
      <4> USE <2>2 DEF Pauses, Others
      <4>1. Len(List(x)') \in Nat
        <5>1. w'[x].stage \in 1 .. Len(Lists)
          BY DEF Pass
        <5> QED BY <5>1, ListFacts DEF List
      <4> QED BY <2>1, <2>4, <4>1 DEF Typed, NextInList, AddedSoFar, FirstBeforeAdd, List
    <3> QED BY <3>3, <3>4
  <2> QED BY <2>3, <2>4
<1>5. CASE /\ w[x].k # Len(List(x))
           /\ w' = [w EXCEPT ![x].k = @ + 1] /\ Adds(x, last.state)
  <2>1. /\ w' \in [Workers -> Pass] /\ \A y \in Workers \ {x} : w'[y] = w[y]
        /\ w'[x].k = w[x].k + 1 /\ w'[x].stage = w[x].stage /\ w'[x].pc = w[x].pc
    <3> PICK p \in Pass : p = w[x]
      BY DEF Typed
    <3>1. p.k + 1 \in Nat \ {0}
      BY DEF Pass
    <3>2. ASSUME NEW m \in Nat \ {0} PROVE [p EXCEPT !.k = m] \in Pass
      BY DEF Pass
    <3>3. w' = [w EXCEPT ![x] = [p EXCEPT !.k = p.k + 1]]
      BY <1>5
    <3>4. [p EXCEPT !.k = p.k + 1].k = p.k + 1
      BY DEF Pass
    <3> QED BY <3>1, <3>2, <3>3, <3>4 DEF Typed
  <2>2. \A y \in Workers : List(y)' = List(y)
    BY <2>1 DEF List
  <2>3. /\ RestTyped' /\ last'.by = last.by /\ last'.list = last.list /\ last'.state = last.state
        /\ ufw'.rules = ufw.rules \cup {List(x)[w[x].k]} /\ ufw'.policy = ufw.policy
        /\ last.by = x => last'.alone = last.alone
        /\ last.by # x => ~last'.alone
    <3>1. last.state \in {"void", "adding", "done"}
      BY DEF Typed, RestTyped, LastStates
    <3> QED BY <1>1, <1>5, <3>1, AddsTyped
  <2>4. NextInList'
    BY <1>1, <1>5, <2>1, <2>2 DEF NextInList
  <2>5. AddedSoFar'
    <3>1. ASSUME NEW y \in Workers, w'[y].pc = "add", last'.by = y
          PROVE  /\ last'.list = List(y) /\ last'.state = "adding"
                 /\ \A j \in 1 .. (w'[y].k - 1) : List(y)[j] \in ufw'.rules
                 /\ (last.alone => Exactly(List(y), w[y].k - 1))'
      <4>1. /\ last.list = List(y) /\ last.by = y /\ last.state = "adding"
            /\ \A j \in 1 .. (w[y].k - 1) : List(y)[j] \in ufw.rules
            /\ last.alone => Exactly(List(y), w[y].k - 1)
        BY <2>1, <2>3, <3>1 DEF AddedSoFar
      <4>2. CASE y = x
        <5>1. \A j \in 1 .. w[x].k : j = w[x].k \/ j \in 1 .. (w[x].k - 1)
          BY <1>1
        <5>2. w'[x].k - 1 = w[x].k /\ w[x].k \in 1 .. w[x].k
              /\ \A j \in 1 .. (w[x].k - 1) : j \in 1 .. w[x].k
          BY <1>1, <2>1
        <5>3. (last.alone => Exactly(List(x), w[x].k - 1))'
          <6>1. ASSUME last'.alone
                PROVE  /\ ufw'.policy = "deny"
                       /\ \A r \in ufw'.rules : \E j \in 1 .. w[x].k : r = List(x)[j]
            <7>1. /\ ufw.policy = "deny"
                  /\ \A r \in ufw.rules : \E j \in 1 .. (w[x].k - 1) : r = List(x)[j]
              BY <2>3, <4>1, <4>2, <6>1 DEF Exactly
            <7> QED BY <2>3, <5>2, <7>1
          <6> QED BY <2>2, <5>2, <6>1 DEF Exactly
        <5> QED BY <2>2, <2>3, <4>1, <4>2, <5>1, <5>2, <5>3
      <4>3. CASE y # x
        <5>1. w'[y] = w[y] /\ ~last'.alone
          BY <2>1, <2>3, <4>1, <4>3
        <5> QED BY <2>3, <4>1, <5>1
      <4> QED BY <4>2, <4>3
    <3> QED BY <2>2, <3>1 DEF AddedSoFar, Exactly
  <2>6. LastListInstalled'
    <3>1. ASSUME last.by = x, last.state = "done" PROVE FALSE
      BY <1>1, <3>1 DEF AddedSoFar
    <3> QED BY <2>3, <3>1 DEF LastListInstalled
  <2>7. FirstBeforeAdd'
    BY <1>1, <2>1 DEF FirstBeforeAdd
  <2> QED BY <2>1, <2>3, <2>4, <2>5, <2>6, <2>7 DEF Typed
<1> QED BY <1>2, <1>3, <1>4, <1>5 DEF Add

LEMMA OtherPassStep ==
  ASSUME IInv, NEW x \in Workers,
         Begin(x) \/ DriftCheck(x) \/ Enable(x) \/ SetDefaultPolicy(x)
  PROVE  IInv'
<1> USE DEF IInv
<1>1. /\ troubles' \in 0 .. MaxTroubles /\ requests' \in 0 .. MaxRequests
      /\ w[x].pc # "add"
  BY TroublesTyped, BoundsAssumption
     DEF Begin, DriftCheck, Enable, SetDefaultPolicy, At, Typed, RestTyped
<1>2. Pauses(x)
  <2>1. ASSUME Drifted(List(x)) PROVE Len(List(x)) > 0
    BY <2>1, ListTyped DEF Drifted, ToSet
  <2>2. w[x].pc \in Applying => Len(List(x)) > 0
    BY ListTyped DEF NextInList, Typed, Pass
  <2>3. CASE Begin(x)
    BY <1>1, <2>3, Going DEF Begin
  <2>4. CASE DriftCheck(x)
    BY <1>1, <2>1, <2>4, Going, StageIsOver DEF DriftCheck
  <2>5. CASE Enable(x) \/ SetDefaultPolicy(x)
    BY <1>1, <2>2, <2>5, Going, StageIsOver DEF Enable, SetDefaultPolicy, At, Applying
  <2> QED BY <2>3, <2>4, <2>5
<1>3. /\ ufw' \in UfwStates /\ last' \in LastStates
      /\ ufw'.rules = ufw.rules /\ last'.by = last.by /\ last'.list = last.list
      /\ last'.state = last.state
      /\ last'.alone => last.alone /\ ufw'.policy = ufw.policy
  <2>1. w[x].live \in BOOLEAN /\ ufw \in UfwStates /\ last \in LastStates
    BY DEF Typed, RestTyped, Pass
  <2>2. ASSUME SetPolicy
        PROVE  /\ ufw' \in UfwStates /\ last' \in LastStates
               /\ ufw'.rules = ufw.rules /\ last'.by = last.by /\ last'.list = last.list
               /\ last'.state = last.state /\ ~last'.alone
    BY <2>1, <2>2, PolicyAssumption DEF SetPolicy, UfwStates, LastStates
  <2>3. CASE Begin(x) \/ DriftCheck(x)
    BY <2>1, <2>3 DEF Begin, DriftCheck
  <2>4. CASE Enable(x)
    BY <2>1, <2>4 DEF Enable, UfwStates
  <2>5. CASE SetDefaultPolicy(x)
    BY <2>1, <2>2, <2>5 DEF SetDefaultPolicy
  <2> QED BY <2>3, <2>4, <2>5
<1>4. RestTyped'
  BY <1>1, <1>3 DEF RestTyped
<1> QED BY <1>1, <1>2, <1>3, <1>4, PauseStep

LEMMA LoseRequestStep == ASSUME IInv, NEW x \in Workers, LoseRequest(x) PROVE IInv'
<1> USE DEF IInv
<1>1. troubles' \in 0 .. MaxTroubles /\ UNCHANGED <<ufw, requests, last>>
  BY TroublesTyped DEF LoseRequest
<1>2. /\ w' \in [Workers -> Pass]
      /\ \A y \in Workers : w'[y].pc = w[y].pc /\ w'[y].stage = w[y].stage /\ w'[y].k = w[y].k
  BY DEF LoseRequest, Typed, Pass
<1>3. \A y \in Workers : List(y)' = List(y)
  BY <1>2 DEF List
<1> QED BY <1>1, <1>2, <1>3
        DEF Typed, RestTyped, NextInList, AddedSoFar, Exactly, FirstBeforeAdd, LastListInstalled

\* The operator changes neither rules nor policy.
LEMMA TurnOnStep == ASSUME IInv, TurnOn PROVE IInv'
<1> USE DEF IInv
<1>1. /\ ufw' \in UfwStates /\ ufw'.rules = ufw.rules /\ ufw'.policy = ufw.policy
      /\ UNCHANGED <<w, requests, troubles, last>>
  BY DEF TurnOn, Typed, RestTyped, UfwStates
<1>2. \A y \in Workers : List(y)' = List(y)
  BY <1>1 DEF List
<1> QED BY <1>1, <1>2
        DEF Typed, RestTyped, NextInList, AddedSoFar, Exactly, FirstBeforeAdd, LastListInstalled

LEMMA IdleIsPass == Idle \in Pass /\ Idle.pc \notin Applying /\ Idle.pc # "add" /\ Idle.k = 1
<1>1. 1 \in 1 .. Len(Lists)
  BY ListFacts
<1> QED BY <1>1 DEF Idle, Pass, Applying

\* A crash ends every pass at once; a list that was being added has not been applied.
LEMMA CrashStep == ASSUME IInv, Crash PROVE IInv'
<1> USE DEF IInv
<1>1. /\ w' = [x \in Workers |-> Idle] /\ troubles' \in 0 .. MaxTroubles
      /\ UNCHANGED <<ufw, requests>>
      /\ last' = IF last.state = "adding" THEN [last EXCEPT !.state = "void"] ELSE last
  BY TroublesTyped DEF Crash
<1>2. Typed'
  BY <1>1, IdleIsPass DEF Typed, RestTyped, LastStates
<1>3. NextInList' /\ AddedSoFar' /\ FirstBeforeAdd'
  BY <1>1, IdleIsPass DEF NextInList, AddedSoFar, FirstBeforeAdd
<1>4. LastListInstalled'
  BY <1>1 DEF LastListInstalled, Typed, RestTyped, LastStates
<1> QED BY <1>2, <1>3, <1>4

-----------------------------------------------------------------------------
(* The theorems.                                                           *)

LEMMA InitIInv == ASSUME Init PROVE IInv
<1>1. Typed
  <2>1. last \in LastStates /\ ufw \in UfwStates
    BY DEF Init, Workers, LastStates, UfwStates, Policies
  <2> QED BY <2>1, IdleIsPass, BoundsAssumption DEF Init, Typed, RestTyped
<1>2. NextInList /\ AddedSoFar /\ FirstBeforeAdd
  BY IdleIsPass DEF Init, NextInList, AddedSoFar, FirstBeforeAdd
<1>3. LastListInstalled
  BY DEF Init, LastListInstalled
<1> QED BY <1>1, <1>2, <1>3 DEF IInv

LEMMA NextIInv == ASSUME IInv, [Next]_vars PROVE IInv'
<1>1. ASSUME NEW x \in Workers, Begin(x) \/ PassStep(x) PROVE IInv'
  BY <1>1, OtherPassStep, ResetStep, AddStep DEF PassStep
<1>2. ASSUME NEW x \in Requests, LoseRequest(x) PROVE IInv'
  BY <1>2, LoseRequestStep DEF Workers
<1>3. CASE UNCHANGED vars
  BY <1>3 DEF vars, IInv, Typed, RestTyped, NextInList, AddedSoFar, Exactly, FirstBeforeAdd,
              LastListInstalled, List
<1> QED BY <1>1, <1>2, <1>3, CrashStep, TurnOnStep DEF Next

\* The inductive invariant: how far the pass of the last reset has come.
THEOREM Invariance == Spec => []IInv
BY InitIInv, NextIInv, PTL DEF Spec

\* Every variable keeps its type.
THEOREM TypeCorrect == Spec => []TypeOK
<1>1. ASSUME IInv PROVE TypeOK
  <2>1. ASSUME NEW x \in Workers
        PROVE  /\ w[x].pc \in {"idle", "check", "enable", "policy", "reset", "add"}
               /\ IF w[x].pc \in {"idle", "check"} THEN w[x].k = 1
                  ELSE w[x].k \in 1 .. Len(List(x))
    <3>1. w[x].pc \in {"idle", "check", "enable", "policy", "reset", "add"} /\ w[x].k \in Nat \ {0}
      BY <1>1 DEF IInv, Typed, Pass
    <3>2. w[x].pc \in {"idle", "check"} => w[x].k = 1
      BY <1>1 DEF IInv, FirstBeforeAdd
    <3>3. w[x].pc \in Applying => w[x].k <= Len(List(x))
      BY <1>1 DEF IInv, NextInList
    <3> QED BY <1>1, <3>1, <3>2, <3>3, ListTyped DEF IInv, Applying
  <2> QED BY <1>1, <2>1 DEF IInv, Typed, RestTyped, UfwStates, LastStates, Pass, TypeOK
<1> QED BY <1>1, Invariance, PTL

\* A list that was applied to its end without an error stays installed in ufw until another
\* pass resets it, and is all that is installed as long as no other pass adds to it, with the
\* policy of the reset and not the one that was set before: for ApplyRules of any number of
\* passes, in any order, and whoever turns ufw on.
THEOREM AppliedListInstalled == Spec => []LastListInstalled
<1>1. IInv => LastListInstalled
  BY DEF IInv
<1> QED BY <1>1, Invariance, PTL
=============================================================================
