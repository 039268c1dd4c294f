------------------------------ MODULE Agent_proofs ------------------------------
(***************************************************************************)
(* Proofs about Agent, for any containers, any number of concurrent passes *)
(* and of faults, crashes and edits.                                       *)
(***************************************************************************)
EXTENDS Agent, TLAPS

Pass == [pc : {"idle", "load", "inspect", "pull", "stop", "swap", "start"},
         at : 1 .. Len(Order), want : Specs, live : BOOLEAN]

\* The variables beside the passes; the budget needs no type.
RestTyped ==
  /\ spec \in Specs
  /\ ctr \in [Containers -> [running : BOOLEAN, image : Images]]
  /\ up \in BOOLEAN /\ cordoned \in BOOLEAN
  /\ excused \subseteq Containers
  /\ bounced \in [Containers -> 0 .. 2]

IdleIsBlank == \A x \in Workers : w[x].pc = "idle" => w[x] = Idle

Typed == RestTyped /\ w \in [Workers -> Pass] /\ IdleIsBlank

\* The stages in which the loop's pass may still stop a container.
Ahead ==
  {k \in 1 .. Len(Order) : /\ w[Loop].pc # "idle" /\ k >= w[Loop].at
                           /\ w[Loop].pc \in {"swap", "start"} => k # w[Loop].at}

\* Between two uncordons the loop's one pass has stopped nothing it may still stop.
Bounces ==
  /\ ~cordoned => \A c \in Containers : bounced[c] = 0
  /\ \A c \in Containers : bounced[c] <= 1
  /\ \A k \in Ahead : bounced[Order[k]] = 0

IInv == Typed /\ DownIsExplained /\ Bounces
-----------------------------------------------------------------------------
(* How steps move the passes.                                              *)

LEMMA ClientIsContainer == ASSUME Typed, NEW x \in Workers PROVE Client(x) \in Containers
BY DEF Typed, Pass, Client, Containers

LEMMA IdleIsPass == Idle \in Pass
<1>1. 1 \in 1 .. Len(Order)
  BY OrderAssumption
<1> QED BY <1>1 DEF Idle, Pass, Specs

Others(x) ==
  /\ w' \in [Workers -> Pass] /\ \A y \in Workers \ {x} : w'[y] = w[y]
  /\ w'[x].pc = "idle" => w'[x] = Idle

\* x ends, or goes on to inspect the container of the next stage.
Advances(x) == Others(x) /\ (w'[x] = Idle \/ (w'[x].pc = "inspect" /\ w'[x].at = w[x].at + 1))

\* x stays in its stage.
Stays(x, pc) == Others(x) /\ w'[x].pc = pc /\ w'[x].at = w[x].at

LEMMA Ending == ASSUME Typed, NEW x \in Workers, w' = [w EXCEPT ![x] = Idle] PROVE Advances(x)
BY IdleIsPass DEF Typed, Others, Advances

LEMMA Advancing == ASSUME Typed, NEW x \in Workers, Advance(x) PROVE Advances(x)
<1> PICK p \in Pass : p = w[x]
  BY DEF Typed
<1>1. CASE p.at = Len(Order)
  BY <1>1, Ending DEF Advance
<1>2. CASE p.at # Len(Order)
  <2> PICK c \in Containers : c = Client(x)
    BY ClientIsContainer
  <2>1. p.at + 1 \in 1 .. Len(Order)
    BY <1>2, OrderAssumption DEF Pass
  <2>2. ASSUME NEW n \in 1 .. Len(Order), NEW f \in Specs,
               w' = [w EXCEPT ![x] = [p EXCEPT !.at = n, !.pc = "inspect", !.want = f]]
        PROVE  Others(x) /\ w'[x].pc = "inspect" /\ w'[x].at = n
    <3> PICK r : r = [p EXCEPT !.at = n, !.pc = "inspect", !.want = f]
      OBVIOUS
    <3>1. r \in Pass /\ r.pc = "inspect" /\ r.at = n
      BY DEF Pass
    <3> QED BY <2>2, <3>1 DEF Typed, Others
  <2>3. [p.want EXCEPT ![c] = NoImage] \in Specs
    BY DEF Pass, Specs
  <2>4. w' = [w EXCEPT ![x] = [p EXCEPT !.at = p.at + 1, !.pc = "inspect",
                                        !.want = [p.want EXCEPT ![c] = NoImage]]]
    BY <1>2 DEF Advance, Pass
  <2> QED BY <2>1, <2>2, <2>3, <2>4 DEF Advances
<1> QED BY <1>1, <1>2

LEMMA Going ==
  ASSUME Typed, NEW x \in Workers,
         NEW pc \in {"load", "inspect", "pull", "stop", "swap", "start"}, Goto(x, pc)
  PROVE  Stays(x, pc)
BY DEF Typed, Goto, Stays, Others, Pass

LEMMA Loading ==
  ASSUME Typed, NEW x \in Workers, w' = [w EXCEPT ![x].pc = "inspect", ![x].want = spec]
  PROVE  Stays(x, "inspect")
BY DEF Typed, RestTyped, Stays, Others, Pass

\* Where the steps of a pass lead.
LEMMA PassMoves ==
  ASSUME Typed, NEW x \in Workers, PassStep(x)
  PROVE  \/ LoadSpec(x) /\ w[x].pc = "load" /\ (Stays(x, "inspect") \/ Advances(x))
         \/ Inspect(x) /\ w[x].pc = "inspect" /\ (Stays(x, "pull") \/ Stays(x, "start") \/ Advances(x))
         \/ Pull(x) /\ w[x].pc = "pull" /\ (Stays(x, "stop") \/ Advances(x))
         \/ Stop(x) /\ w[x].pc = "stop" /\ (Stays(x, "swap") \/ Advances(x))
         \/ Start(x) /\ w[x].pc \in {"start", "swap"} /\ Advances(x)
<1>1. CASE LoadSpec(x)
  BY <1>1, Loading, Ending DEF LoadSpec, At
<1>2. CASE Inspect(x)
  BY <1>2, Going, Advancing DEF Inspect, At
<1>3. CASE Pull(x)
  BY <1>3, Going, Advancing DEF Pull, At
<1>4. CASE Stop(x)
  BY <1>4, Going, Advancing DEF Stop, At, FailWithin
<1>5. CASE Start(x)
  BY <1>5, Advancing DEF Start, At, FailWithin
<1> QED BY <1>1, <1>2, <1>3, <1>4, <1>5 DEF PassStep

-----------------------------------------------------------------------------
(* Types.                                                                  *)

LEMMA OneMoves == ASSUME Typed, NEW x \in Workers, Others(x) PROVE w' \in [Workers -> Pass] /\ IdleIsBlank'
BY DEF Typed, Others, IdleIsBlank

LEMMA PassStepType == ASSUME Typed, NEW x \in Workers, PassStep(x), bounced' \in [Containers -> 0 .. 2] PROVE Typed'
<1> PICK c \in Containers : c = Client(x)
  BY ClientIsContainer
<1>1. Others(x)
  BY PassMoves DEF Stays, Advances
<1>2. UNCHANGED <<spec, up, cordoned>>
  BY DEF PassStep, LoadSpec, Inspect, Pull, Stop, Start
<1>3. ASSUME NEW e \in BOOLEAN, FailWithin(x, c, e)
      PROVE  ctr' \in [Containers -> [running : BOOLEAN, image : Images]] /\ excused' \subseteq Containers
  BY <1>3 DEF FailWithin, Typed, RestTyped
<1>4. ASSUME NEW e \in BOOLEAN, ctr' = [ctr EXCEPT ![c].running = e]
      PROVE  ctr' \in [Containers -> [running : BOOLEAN, image : Images]]
  BY <1>4 DEF Typed, RestTyped
<1>5. ctr' \in [Containers -> [running : BOOLEAN, image : Images]] /\ excused' \subseteq Containers
  <2>1. CASE LoadSpec(x) \/ Inspect(x) \/ Pull(x)
    BY <2>1 DEF LoadSpec, Inspect, Pull, history, Typed, RestTyped
  <2>2. CASE Stop(x)
    BY <1>3, <1>4, <2>2 DEF Stop, Typed, RestTyped
  <2>3. CASE Start(x)
    BY <1>3, <1>4, <2>3 DEF Start, Typed, RestTyped
  <2> QED BY <2>1, <2>2, <2>3 DEF PassStep
<1> QED BY <1>1, <1>2, <1>5, OneMoves DEF Typed, RestTyped

-----------------------------------------------------------------------------
(* What the loop's pass may still stop.                                    *)

LEMMA FewerAhead ==
  ASSUME Typed, NEW pc \in {"inspect", "pull", "stop", "swap", "start"},
         w[Loop].pc \notin {"idle", "swap", "start"},
         Stays(Loop, pc) \/ Advances(Loop)
  PROVE  Ahead' \subseteq Ahead
BY OrderAssumption DEF Ahead, Stays, Advances, Typed, Pass, Idle, Workers

LEMMA StartedBehind ==
  ASSUME Typed, Advances(Loop), w[Loop].pc # "idle"
  PROVE  Ahead' \subseteq Ahead /\ w[Loop].at \notin Ahead'
BY OrderAssumption DEF Ahead, Advances, Typed, Pass, Idle, Workers

LEMMA StoppedBehind ==
  ASSUME Typed, Stays(Loop, "swap") \/ Advances(Loop), w[Loop].pc = "stop"
  PROVE  w[Loop].at \in Ahead /\ Ahead' \subseteq Ahead \ {w[Loop].at}
BY OrderAssumption DEF Ahead, Stays, Advances, Typed, Pass, Idle, Workers

LEMMA PassStepBounces == ASSUME IInv, NEW x \in Workers, PassStep(x) PROVE Bounces' /\ bounced' \in [Containers -> 0 .. 2]
<1> USE DEF IInv
<1>1. cordoned' = cordoned /\ bounced \in [Containers -> 0 .. 2] /\ Bounces
  BY DEF PassStep, LoadSpec, Inspect, Pull, Stop, Start, Typed, RestTyped
<1>2. CASE x # Loop
  <2>1. bounced' = bounced /\ Ahead' = Ahead
    <3>1. w'[Loop] = w[Loop]
      BY <1>2, PassMoves DEF Stays, Advances, Others, Workers
    <3>2. bounced' = bounced
      BY <1>2 DEF PassStep, LoadSpec, Inspect, Pull, Stop, Start, history
    <3> QED BY <3>1, <3>2 DEF Ahead
  <2> QED BY <1>1, <2>1 DEF Bounces
<1>3. CASE x = Loop /\ ~Stop(x)
  <2>1. bounced' = bounced
    BY <1>3 DEF PassStep, LoadSpec, Inspect, Pull, Start, history
  <2>2. Ahead' \subseteq Ahead
    BY <1>3, PassMoves, FewerAhead, StartedBehind
  <2> QED BY <1>1, <2>1, <2>2 DEF Bounces
<1>4. CASE x = Loop /\ Stop(x)
  <2> PICK k \in 1 .. Len(Order) : k = w[Loop].at
    BY DEF Typed, Pass, Workers
  <2>1. k \in Ahead /\ Ahead' \subseteq Ahead \ {k}
    BY <1>4, PassMoves, StoppedBehind DEF Stop, LoadSpec, Inspect, Pull, Start, At
  <2>2. Order[k] \in Containers /\ bounced[Order[k]] = 0
    BY <1>1, <2>1 DEF Bounces, Containers
  <2>3. bounced' = IF cordoned THEN [bounced EXCEPT ![Order[k]] = 1] ELSE bounced
    BY <1>4, <2>2 DEF Stop, Client
  <2>4. \A j \in Ahead' : Order[j] # Order[k] /\ Order[j] \in Containers
    BY <2>1, OrderAssumption DEF Ahead, Containers
  <2> QED BY <1>1, <2>1, <2>2, <2>3, <2>4 DEF Bounces
<1> QED BY <1>2, <1>3, <1>4

-----------------------------------------------------------------------------
(* What is down and why.                                                   *)

LEMMA PassStepDown == ASSUME IInv, NEW x \in Workers, PassStep(x) PROVE DownIsExplained'
<1> USE DEF IInv
<1> PICK c \in Containers : c = Client(x)
  BY ClientIsContainer
<1>0. /\ \A y \in Workers \ {x} : w'[y] = w[y] /\ Client(y)' = Client(y)
      /\ ctr \in [Containers -> [running : BOOLEAN, image : Images]]
  BY PassMoves DEF Stays, Advances, Others, Client, Typed, RestTyped
<1>1. ASSUME NEW d \in Containers, d # c, Swapping(d)
      PROVE  Swapping(d)'
  <2> PICK y \in Workers : w[y].pc = "swap" /\ Client(y) = d
    BY <1>1 DEF Swapping
  <2> QED BY <1>0, <1>1 DEF Swapping
<1>2. ASSUME NEW d \in Containers, d # c
      PROVE  ctr'[d] = ctr[d] /\ (d \in excused => d \in excused')
  BY <1>0, <1>2 DEF PassStep, LoadSpec, Inspect, Pull, Stop, Start, FailWithin, history
<1>3. CASE (LoadSpec(x) \/ Inspect(x) \/ Pull(x)) /\ w[x].pc # "swap"
  <2>1. UNCHANGED <<ctr, excused>>
    BY <1>3 DEF LoadSpec, Inspect, Pull, history
  <2>2. ASSUME NEW d \in Containers, Swapping(d)
        PROVE  Swapping(d)'
    BY <1>0, <1>3, <2>2 DEF Swapping
  <2> QED BY <2>1, <2>2 DEF DownIsExplained
<1>4. ASSUME ctr'[c].running \/ c \in excused' \/ Swapping(c)'
      PROVE  DownIsExplained'
  BY <1>1, <1>2, <1>4 DEF DownIsExplained
<1>5. ASSUME NEW e \in BOOLEAN, FailWithin(x, c, e)
      PROVE  c \in excused'
  BY <1>5 DEF FailWithin
<1>6. CASE Stop(x)
  <2>1. CASE Goto(x, "swap")
    <3>1. Stays(x, "swap") /\ w'[x].at = w[x].at
      BY <2>1, Going DEF Stays
    <3>2. Swapping(c)'
      BY <3>1 DEF Stays, Swapping, Client
    <3> QED BY <1>4, <3>2
  <2> QED BY <1>4, <1>5, <1>6, <2>1 DEF Stop
<1>7. CASE Start(x)
  <2>1. ctr' = [ctr EXCEPT ![c].running = TRUE] => ctr'[c].running
    BY <1>0
  <2> QED BY <1>4, <1>5, <1>7, <2>1 DEF Start
<1> QED BY <1>3, <1>6, <1>7 DEF PassStep, LoadSpec, Inspect, Pull, At

LEMMA PassStepInv == ASSUME IInv, NEW x \in Workers, PassStep(x) PROVE IInv'
BY PassStepBounces, PassStepDown, PassStepType DEF IInv

-----------------------------------------------------------------------------
(* The other actions.                                                      *)

\* A new pass of the loop begins only on an uncordoned node, which has bounced nothing.
LEMMA BeginStep ==
  ASSUME IInv, LoopTick \/ \E x \in Requests : HttpReconcile(x)
  PROVE  IInv'
<1> USE DEF IInv
<1> PICK x \in Workers : /\ Goto(x, "load") /\ w[x].pc = "idle" /\ (x = Loop => ~cordoned)
                         /\ UNCHANGED <<spec, ctr, up, cordoned, excused, bounced>>
  <2>1. CASE LoopTick
    BY <2>1 DEF LoopTick, At, history, Workers
  <2>2. CASE \E x \in Requests : HttpReconcile(x)
    BY <2>2, WorkersAssumption DEF HttpReconcile, At, history, Workers
  <2> QED BY <2>1, <2>2
<1>1. Stays(x, "load")
  BY Going
<1>2. Typed'
  BY <1>1, OneMoves DEF Stays, Typed, RestTyped
<1>3. DownIsExplained'
  <2>1. \A y \in Workers : w[y].pc = "swap" => w'[y].pc = "swap" /\ Client(y)' = Client(y)
    BY <1>1 DEF Stays, Others, Client
  <2> QED BY <2>1 DEF DownIsExplained, Swapping
<1>4. Bounces'
  <2>1. CASE x = Loop
    <3>1. \A k \in Ahead' : Order[k] \in Containers
      BY DEF Ahead, Containers
    <3> QED BY <2>1, <3>1 DEF Bounces
  <2>2. CASE x # Loop
    <3>1. Ahead' = Ahead
      BY <1>1, <2>2 DEF Stays, Others, Ahead, Workers
    <3> QED BY <3>1 DEF Bounces
  <2> QED BY <2>1, <2>2
<1> QED BY <1>2, <1>3, <1>4

\* The passes stay where they are.
LEMMA ParkedDown ==
  ASSUME IInv, UNCHANGED w, NEW c \in Containers, ctr'[c].running \/ c \in excused',
         \A d \in Containers \ {c} : ctr'[d] = ctr[d] /\ (d \in excused => d \in excused')
  PROVE  DownIsExplained'
<1>1. \A d \in Containers : Swapping(d)' <=> Swapping(d)
  BY DEF Swapping, Client
<1> QED BY <1>1 DEF IInv, DownIsExplained

LEMMA ContainerStep ==
  ASSUME IInv, NEW c \in Containers, Restart(c) \/ Exit(c) \/ Recreate(c)
  PROVE  IInv'
<1> USE DEF IInv
<1>0. ctr \in [Containers -> [running : BOOLEAN, image : Images]] /\ excused \subseteq Containers
  BY DEF Typed, RestTyped
<1>1. UNCHANGED <<spec, up, cordoned, w, bounced>>
  BY DEF Restart, Exit, Recreate
<1>2. /\ ctr' \in [Containers -> [running : BOOLEAN, image : Images]] /\ excused' \subseteq Containers
      /\ ctr'[c].running \/ c \in excused'
      /\ \A d \in Containers \ {c} : ctr'[d] = ctr[d] /\ (d \in excused => d \in excused')
  <2>1. CASE Restart(c)
    BY <1>0, <2>1 DEF Restart
  <2>2. CASE Exit(c)
    BY <1>0, <2>2 DEF Exit
  <2>3. CASE Recreate(c)
    BY <1>0, <2>3 DEF Recreate
  <2> QED BY <2>1, <2>2, <2>3
<1>3. Typed'
  BY <1>1, <1>2 DEF Typed, RestTyped, IdleIsBlank
<1>4. DownIsExplained'
  BY <1>1, <1>2, ParkedDown
<1>5. Bounces'
  BY <1>1 DEF Bounces, Ahead
<1> QED BY <1>3, <1>4, <1>5

\* Only an uncordon forgets the stops of the loop.
LEMMA CordonStep == ASSUME IInv, NEW on \in BOOLEAN, Cordon(on) PROVE IInv'
<1> USE DEF IInv
<1>1. UNCHANGED <<spec, ctr, up, w, excused>> /\ cordoned' = on
      /\ bounced' = IF on THEN bounced ELSE [c \in Containers |-> 0]
  BY DEF Cordon
<1>2. Typed'
  BY <1>1 DEF Typed, RestTyped, IdleIsBlank
<1>3. DownIsExplained'
  BY <1>1 DEF DownIsExplained, Swapping, Client
<1>4. Bounces'
  <2>1. Ahead' = Ahead /\ \A k \in Ahead : Order[k] \in Containers
    BY <1>1 DEF Ahead, Containers
  <2> QED BY <1>1, <2>1 DEF Bounces
<1> QED BY <1>2, <1>3, <1>4

LEMMA LoseRequestStep == ASSUME IInv, NEW x \in Requests, LoseRequest(x) PROVE IInv'
<1> USE DEF IInv
<1>1. UNCHANGED <<spec, ctr, up, cordoned, excused, bounced>>
  BY DEF LoseRequest, history
<1>2. /\ w' \in [Workers -> Pass] /\ w[x].pc # "idle"
      /\ \A y \in Workers : w'[y].pc = w[y].pc /\ w'[y].at = w[y].at /\ (y # x => w'[y] = w[y])
  BY DEF LoseRequest, Typed, Pass, Workers
<1>3. Typed'
  BY <1>1, <1>2 DEF Typed, RestTyped, IdleIsBlank
<1>4. DownIsExplained'
  BY <1>1, <1>2 DEF DownIsExplained, Swapping, Client
<1>5. Bounces'
  BY <1>1, <1>2 DEF Bounces, Ahead, Workers
<1> QED BY <1>3, <1>4, <1>5

\* A crash excuses what its passes had stopped and not yet started again.
LEMMA CrashStep == ASSUME IInv, Crash PROVE IInv'
<1> USE DEF IInv
<1>1. /\ UNCHANGED <<spec, ctr, cordoned, bounced>> /\ up' = FALSE /\ w' = [x \in Workers |-> Idle]
      /\ excused' = excused \cup {Client(x) : x \in {y \in Workers : w[y].pc = "swap"}}
  BY DEF Crash
<1>2. Typed'
  BY <1>1, IdleIsPass, ClientIsContainer DEF Typed, RestTyped, IdleIsBlank
<1>3. DownIsExplained'
  BY <1>1 DEF DownIsExplained, Swapping
<1>4. Bounces'
  BY <1>1 DEF Bounces, Ahead, Idle, Workers
<1> QED BY <1>2, <1>3, <1>4

LEMMA BootStep == ASSUME IInv, Boot PROVE IInv'
<1> USE DEF IInv
<1>1. /\ UNCHANGED <<spec, ctr, w, excused>> /\ up' = TRUE /\ cordoned' = FALSE
      /\ bounced' = [c \in Containers |-> 0]
  BY DEF Boot
<1>2. Typed' /\ DownIsExplained'
  <2>1. bounced' \in [Containers -> 0 .. 2]
    BY <1>1
  <2>2. RestTyped' /\ w' \in [Workers -> Pass] /\ IdleIsBlank'
    BY <1>1, <2>1 DEF Typed, RestTyped, IdleIsBlank
  <2>3. DownIsExplained'
    BY <1>1 DEF DownIsExplained, Swapping, Client
  <2> QED BY <2>2, <2>3 DEF Typed
<1>3. Bounces'
  <2>1. \A k \in Ahead' : Order[k] \in Containers
    BY DEF Ahead, Containers
  <2> QED BY <1>1, <2>1 DEF Bounces
<1> QED BY <1>2, <1>3

LEMMA EditStep == ASSUME IInv, EditSpec \/ UNCHANGED vars PROVE IInv'
<1>1. spec' \in Specs /\ UNCHANGED <<ctr, up, cordoned, w, excused, bounced>>
  BY DEF IInv, Typed, RestTyped, EditSpec, history, vars
<1> QED BY <1>1 DEF IInv, Typed, RestTyped, IdleIsBlank, DownIsExplained, Swapping, Client,
                    Bounces, Ahead

-----------------------------------------------------------------------------
(* The theorems.                                                           *)

LEMMA InitIInv == ASSUME Init PROVE IInv
<1>1. Typed
  <2>1. PICK on \in BOOLEAN : ctr = [c \in Containers |-> [running |-> on, image |-> First]]
    BY DEF Init
  <2>2. ctr \in [Containers -> [running : BOOLEAN, image : Images]]
    BY <2>1, ImagesAssumption
  <2>3. bounced \in [Containers -> 0 .. 2] /\ excused \subseteq Containers
    BY DEF Init
  <2>4. spec \in Specs /\ up \in BOOLEAN /\ cordoned \in BOOLEAN
    BY DEF Init
  <2>5. w \in [Workers -> Pass] /\ IdleIsBlank
    BY IdleIsPass DEF Init, IdleIsBlank
  <2> QED BY <2>2, <2>3, <2>4, <2>5 DEF Typed, RestTyped
<1>2. DownIsExplained
  BY DEF Init, DownIsExplained
<1>3. Bounces
  BY DEF Init, Bounces, Ahead, Idle, Workers
<1> QED BY <1>1, <1>2, <1>3 DEF IInv

LEMMA NextIInv == ASSUME IInv, [Next]_vars PROVE IInv'
BY BeginStep, PassStepInv, LoseRequestStep, ContainerStep, CordonStep, CrashStep, BootStep,
   EditStep DEF Next

\* The inductive invariant: what is down and why, and what the loop may still stop.
THEOREM Invariance == Spec => []IInv
BY InitIInv, NextIInv, PTL DEF Spec

\* Every variable keeps its type.
THEOREM TypeCorrect == Spec => []TypeOK
<1>1. IInv => TypeOK
  BY DEF IInv, Typed, RestTyped, IdleIsBlank, TypeOK, Pass
<1> QED BY <1>1, Invariance, PTL

\* However many passes of reconcileClient interleave, without a lock, none of them leaves a
\* client down on its own account.
THEOREM DownExplained == Spec => []DownIsExplained
<1>1. IInv => DownIsExplained
  BY DEF IInv
<1> QED BY <1>1, Invariance, PTL

\* After a cordon runReconcile stops each container once more at most, whatever number of
\* containers a pass visits.
THEOREM CordonQuiets == Spec => []CordonQuietsLoop
<1>1. IInv => CordonQuietsLoop
  BY DEF IInv, Bounces, CordonQuietsLoop
<1> QED BY <1>1, Invariance, PTL
=============================================================================
