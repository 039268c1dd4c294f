-------------------------------- MODULE Agent --------------------------------
(***************************************************************************)
(* One bare-metal host: the ethagent process and the docker containers it  *)
(* keeps in line with node.yaml.                                           *)
(*                                                                         *)
(* The reconcile loop and every POST /reconcile handler run the same pass, *)
(* Reconciler.Reconcile, in goroutines of their own and without any lock   *)
(* between them.  A pass loads the node spec once, runs the host stages    *)
(* (disk, snapshot, firewall, DNS: modules of their own, none of which     *)
(* stops a later stage) and then visits the client containers in a fixed   *)
(* order.  Every docker command is a step: whatever a pass has read by     *)
(* then may be stale when the command runs.                                *)
(*                                                                         *)
(* Beside the passes: cordon and uncordon, POST /restart, a request whose  *)
(* client goes away (ethctl gives up after 10 seconds), docker commands    *)
(* that fail, containers that die, an operator who recreates a container,  *)
(* a new node.yaml, and an agent that crashes and comes back.              *)
(***************************************************************************)
EXTENDS Naturals, Sequences, FiniteSets

CONSTANTS
  Order,        \* the client containers, in the order a pass visits them
  Requests,     \* POST /reconcile handlers that can be in flight at once
  Images,       \* docker image names
  First,        \* the image the containers were created from (a pass only compares the
                \* images of one container, so one name will do for all of them)
  NoImage,      \* the spec names no image: Image == "" or MEV not enabled
  Broken,       \* containers whose docker commands may fail for ever
  MaxFaults,    \* bound: command failures elsewhere, container deaths, lost requests
  MaxCrashes,   \* bound: crashes of the agent process
  MaxEdits      \* bound: new node.yaml files and recreated containers

Loop == "loop"
Workers == {Loop} \cup Requests
Containers == {Order[k] : k \in 1 .. Len(Order)}

ASSUME OrderAssumption == Len(Order) \in Nat \ {0} /\ \A j, k \in 1 .. Len(Order) : Order[j] = Order[k] => j = k
ASSUME WorkersAssumption == Loop \notin Requests
ASSUME ImagesAssumption == NoImage \notin Images /\ First \in Images
ASSUME BrokenAssumption == Broken \subseteq Containers

VARIABLES
  spec,      \* node.yaml on disk: the image wanted for each container
  ctr,       \* docker's containers: [running, image]
  up,        \* the agent process is alive
  cordoned,  \* Agent.cordoned
  w,         \* each pass: where it is, its copy of the spec, is its context live
  budget,    \* faults, crashes and edits so far
  excused,   \* history: containers that something went wrong with since they last started
  bounced    \* history: stops the loop issued to each container while cordoned

vars == <<spec, ctr, up, cordoned, w, budget, excused, bounced>>
history == <<excused, bounced>>

Specs == [Containers -> Images \cup {NoImage}]
Idle == [pc |-> "idle", at |-> 1, want |-> [c \in Containers |-> NoImage], live |-> TRUE]

Init ==
  /\ spec \in Specs
  /\ \E on \in BOOLEAN : ctr = [c \in Containers |-> [running |-> on, image |-> First]]
  /\ up = TRUE
  /\ cordoned = FALSE
  /\ w = [x \in Workers |-> Idle]
  /\ budget = [faults |-> 0, crashes |-> 0, edits |-> 0]
  /\ excused = {c \in Containers : ~ctr[c].running}
  /\ bounced = [c \in Containers |-> 0]

Spend(kind, limit) == budget[kind] < limit /\ budget' = [budget EXCEPT ![kind] = @ + 1]

-----------------------------------------------------------------------------
(* The steps of a pass.                                                    *)

Client(x) == Order[w[x].at]
At(x, pc) == up /\ w[x].pc = pc
Goto(x, pc) == w' = [w EXCEPT ![x].pc = pc]

\* Mutant of Advance: the bound on the stages is off by one.
MutantAdvance(x) ==
  w' = [w EXCEPT ![x] = IF w[x].at > Len(Order) THEN Idle
                        ELSE [w[x] EXCEPT !.at = w[x].at + 1, !.pc = "inspect"]]

\* A stage is over, with or without an error: the next one runs regardless.  (What the
\* pass wanted for the container it leaves is forgotten: nothing reads it again.)
Advance(x) ==
  w' = [w EXCEPT ![x] = IF w[x].at = Len(Order) THEN Idle
                        ELSE [w[x] EXCEPT !.at = w[x].at + 1, !.pc = "inspect",
                                          !.want[Client(x)] = NoImage]]

\* A docker command fails: its context is done, its container is a broken one,
\* or this is one of the bounded number of other failures.
CommandFails(x, c) ==
  \/ ~w[x].live /\ UNCHANGED budget
  \/ w[x].live /\ c \in Broken /\ UNCHANGED budget
  \/ w[x].live /\ c \notin Broken /\ Spend("faults", MaxFaults)

\* A failed command has no effect if its context was done before it started; if it
\* was killed or timed out later the docker daemon may have carried it out.
FailWithin(x, c, effect) ==
  /\ CommandFails(x, c)
  /\ \/ UNCHANGED ctr
     \/ w[x].live /\ ctr' = [ctr EXCEPT ![c].running = effect]
  /\ excused' = excused \cup {c}
  /\ Advance(x)

\* Mutant of LoopTick: runReconcile without its check of the cordon.
MutantLoopTick ==
  /\ At(Loop, "idle")
  /\ Goto(Loop, "load")
  /\ UNCHANGED <<spec, ctr, up, cordoned, budget, history>>

\* The loop's ticker fires, or the loop has just been started: runReconcile begins
\* unless the node is cordoned.  The maintenance window only selects a log line.
LoopTick ==
  /\ At(Loop, "idle")
  /\ ~cordoned
  /\ Goto(Loop, "load")
  /\ UNCHANGED <<spec, ctr, up, cordoned, budget, history>>

\* handleReconcile does not look at the cordon.
HttpReconcile(x) ==
  /\ x \in Requests
  /\ At(x, "idle")
  /\ Goto(x, "load")
  /\ UNCHANGED <<spec, ctr, up, cordoned, budget, history>>

\* The pass takes its copy of the spec.  What it spends on the disk, snapshot, firewall
\* and DNS stages, whose errors it collects, passes before its first Inspect.
LoadSpec(x) ==
  /\ At(x, "load")
  /\ \/ w' = [w EXCEPT ![x].pc = "inspect", ![x].want = spec] /\ UNCHANGED budget
     \/ w' = [w EXCEPT ![x] = Idle] /\ Spend("faults", MaxFaults)
  /\ UNCHANGED <<spec, ctr, up, cordoned, history>>

\* Mutant of Inspect: an inspect error ends the pass instead of the stage.
MutantInspect(x) ==
  LET c == Client(x) IN
  /\ At(x, "inspect")
  /\ \/ /\ w[x].want[c] = NoImage
        /\ Advance(x) /\ UNCHANGED budget
     \/ /\ w[x].want[c] # NoImage
        /\ CommandFails(x, c) /\ w' = [w EXCEPT ![x] = Idle]
     \/ /\ w[x].want[c] # NoImage /\ w[x].live /\ c \notin Broken
        /\ IF ctr[c].image # w[x].want[c] THEN Goto(x, "pull")
           ELSE IF ~ctr[c].running THEN Goto(x, "start")
           ELSE Advance(x)
        /\ UNCHANGED budget
  /\ UNCHANGED <<spec, ctr, up, cordoned, history>>

Inspect(x) ==
  LET c == Client(x) IN
  /\ At(x, "inspect")
  /\ \/ /\ w[x].want[c] = NoImage
        /\ Advance(x) /\ UNCHANGED budget
     \/ /\ w[x].want[c] # NoImage
        /\ CommandFails(x, c) /\ Advance(x)
     \/ /\ w[x].want[c] # NoImage /\ w[x].live
        /\ IF ctr[c].image # w[x].want[c] THEN Goto(x, "pull")
           ELSE IF ~ctr[c].running THEN Goto(x, "start")
           ELSE Advance(x)
        /\ UNCHANGED budget
  /\ UNCHANGED <<spec, ctr, up, cordoned, history>>

Pull(x) ==
  /\ At(x, "pull")
  /\ \/ w[x].live /\ Goto(x, "stop") /\ UNCHANGED budget
     \/ CommandFails(x, Client(x)) /\ Advance(x)
  /\ UNCHANGED <<spec, ctr, up, cordoned, history>>

\* Mutant of Stop: the start that follows the stop is forgotten.
MutantStop(x) ==
  LET c == Client(x) IN
  /\ At(x, "stop")
  /\ \/ /\ w[x].live
        /\ ctr' = [ctr EXCEPT ![c].running = FALSE]
        /\ Advance(x)
        /\ UNCHANGED <<budget, excused>>
     \/ FailWithin(x, c, FALSE)
  /\ bounced' = bounced
  /\ UNCHANGED <<spec, up, cordoned>>

Stop(x) ==
  LET c == Client(x) IN
  /\ At(x, "stop")
  /\ \/ /\ w[x].live
        /\ ctr' = [ctr EXCEPT ![c].running = FALSE]
        /\ Goto(x, "swap")
        /\ UNCHANGED <<budget, excused>>
     \/ FailWithin(x, c, FALSE)
  /\ bounced' = IF x = Loop /\ cordoned /\ bounced[c] < 2
                THEN [bounced EXCEPT ![c] = @ + 1] ELSE bounced
  /\ UNCHANGED <<spec, up, cordoned>>

\* docker start: it starts the container that is there, with the image it was created
\* from.  After a stop ("swap") the pass reports the container as updated.
Start(x) ==
  LET c == Client(x) IN
  /\ At(x, "start") \/ At(x, "swap")
  /\ \/ /\ w[x].live
        /\ ctr' = [ctr EXCEPT ![c].running = TRUE]
        /\ excused' = excused \ {c}
        /\ Advance(x)
        /\ UNCHANGED budget
     \/ FailWithin(x, c, TRUE)
  /\ UNCHANGED <<spec, up, cordoned, bounced>>

PassStep(x) ==
  LoadSpec(x) \/ Inspect(x) \/ Pull(x) \/ Stop(x) \/ Start(x)

-----------------------------------------------------------------------------
(* The other handlers, the operator and the environment.                   *)

\* handleCordon, for ethctl cordon and ethctl uncordon.
Cordon(on) ==
  /\ up
  /\ cordoned' = on
  /\ bounced' = IF on THEN bounced ELSE [c \in Containers |-> 0]
  /\ UNCHANGED <<spec, ctr, up, w, budget, excused>>

\* handleRestart: docker restart in one command, cordoned or not.
Restart(c) ==
  /\ up
  /\ \/ /\ ctr' = [ctr EXCEPT ![c].running = TRUE]
        /\ excused' = excused \ {c}
        /\ UNCHANGED budget
     \/ /\ Spend("faults", MaxFaults)
        /\ ctr' \in {ctr, [ctr EXCEPT ![c].running = FALSE]}
        /\ excused' = excused \cup {c}
  /\ UNCHANGED <<spec, up, cordoned, w, bounced>>

\* The HTTP client gives up or disconnects: r.Context() is done, every later command fails.
LoseRequest(x) ==
  /\ x \in Requests
  /\ up /\ w[x].pc # "idle" /\ w[x].live
  /\ Spend("faults", MaxFaults)
  /\ w' = [w EXCEPT ![x].live = FALSE]
  /\ UNCHANGED <<spec, ctr, up, cordoned, history>>

\* A container exits on its own.
Exit(c) ==
  /\ ctr[c].running
  /\ Spend("faults", MaxFaults)
  /\ ctr' = [ctr EXCEPT ![c].running = FALSE]
  /\ excused' = excused \cup {c}
  /\ UNCHANGED <<spec, up, cordoned, w, bounced>>

\* A new node.yaml is put in place.
EditSpec ==
  /\ Spend("edits", MaxEdits)
  /\ spec' \in Specs \ {spec}
  /\ UNCHANGED <<ctr, up, cordoned, w, history>>

\* An operator recreates a container from another image: nothing in the agent does.
Recreate(c) ==
  /\ Spend("edits", MaxEdits)
  /\ \E i \in Images \ {ctr[c].image} : ctr' = [ctr EXCEPT ![c] = [running |-> TRUE, image |-> i]]
  /\ excused' = excused \ {c}
  /\ UNCHANGED <<spec, up, cordoned, w, bounced>>

\* The process dies (or SIGTERM ends it) in the middle of its passes ...
Crash ==
  /\ up
  /\ Spend("crashes", MaxCrashes)
  /\ up' = FALSE
  /\ w' = [x \in Workers |-> Idle]
  /\ excused' = excused \cup {Client(x) : x \in {y \in Workers : w[y].pc = "swap"}}
  /\ UNCHANGED <<spec, ctr, cordoned, bounced>>

\* ... and systemd starts a new one: New() leaves cordoned false.
Boot ==
  /\ ~up
  /\ up' = TRUE
  /\ cordoned' = FALSE
  /\ bounced' = [c \in Containers |-> 0]
  /\ UNCHANGED <<spec, ctr, w, budget, excused>>

-----------------------------------------------------------------------------
Next ==
  \/ LoopTick \/ Crash \/ Boot \/ EditSpec
  \/ \E x \in Workers : PassStep(x)
  \/ \E x \in Requests : HttpReconcile(x) \/ LoseRequest(x)
  \/ \E c \in Containers : Restart(c) \/ Exit(c) \/ Recreate(c)
  \/ \E on \in BOOLEAN : Cordon(on)

\* The ticker, the goroutines and systemd keep going; nothing else has to happen.
Fairness ==
  /\ WF_vars(LoopTick)
  /\ WF_vars(Boot)
  /\ \A x \in Workers : WF_vars(PassStep(x))

Spec == Init /\ [][Next]_vars /\ Fairness
-----------------------------------------------------------------------------
(* Properties.                                                             *)

\* Every variable keeps its type; a pass that is idle holds no state.
TypeOK ==
  /\ spec \in Specs
  /\ ctr \in [Containers -> [running : BOOLEAN, image : Images]]
  /\ up \in BOOLEAN /\ cordoned \in BOOLEAN
  /\ \A x \in Workers :
       /\ w[x].pc \in {"idle", "load", "inspect", "pull", "stop", "swap", "start"}
       /\ w[x].at \in 1 .. Len(Order)
       /\ w[x].want \in Specs
       /\ w[x].live \in BOOLEAN
       /\ w[x].pc = "idle" => w[x] = Idle
  /\ excused \subseteq Containers
  /\ bounced \in [Containers -> 0 .. 2]

\* Swapping(c): a pass has stopped c and has yet to start it again.
Swapping(c) == \E x \in Workers : w[x].pc = "swap" /\ Client(x) = c

\* However passes of the loop and of /reconcile interleave, they never leave a client
\* down: a container that is down is between some pass's stop and start, or something
\* outside the passes' control happened to it (it exited, a docker command on it failed,
\* the agent died half-way).  reconcileClient and reconcileMEV take no lock.
DownIsExplained == \A c \in Containers : ~ctr[c].running => c \in excused \/ Swapping(c)

\* A cordon does not interrupt the pass in flight, but that pass is all that is left of
\* the loop: until the next uncordon it stops each container at most once more.
CordonQuietsLoop == cordoned => \A c \in Containers : bounced[c] <= 1

\* The loop keeps clients up: on an agent that stays uncordoned, a container that already
\* has the image node.yaml asks for is in the end running for good, whatever failed
\* before, and even if the docker commands on other containers fail for ever (a stage's
\* error never stops the later stages).
LoopKeepsClientsUp ==
  <>[](up /\ ~cordoned) =>
    \A c \in Containers \ Broken :
      <>[](ctr[c].image = spec[c]) => <>[](ctr[c].running)
=============================================================================
