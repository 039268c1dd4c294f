---------------------------- MODULE SnapshotStore ----------------------------
(***************************************************************************)
(* The snapshot maker of one client: every 24 hours CreateSnapshot stops   *)
(* the client's container, archives its datadir into a directory named     *)
(* after the chain's block, moves the "latest" pointer there and starts    *)
(* the container again; PruneOld then keeps the highest-numbered           *)
(* directories.  Other nodes download the archive that "latest" names.     *)
(*                                                                         *)
(* A block number comes from the client's RPC or, when that does not       *)
(* answer, from the clock, whose numbers are higher than any block's.      *)
(* Around the maker: the client's chain grows while it runs, the ethagent  *)
(* of the same host starts a stopped container on its own, commands fail,  *)
(* SIGTERM cancels the context of every command, and the process dies and  *)
(* comes back.                                                             *)
(***************************************************************************)
EXTENDS Integers, FiniteSets

CONSTANTS
  Keep,         \* the -keep flag
  MaxHeight,    \* bound: chain heights
  MaxStamp,     \* bound: readings of the clock; the last one repeats
  MaxTroubles   \* bound: failing commands, RPCs that do not answer, signals, crashes

Heights == 1 .. MaxHeight
Stamps == MaxHeight + 1 .. MaxHeight + MaxStamp
Blocks == Heights \cup Stamps
None == 0

ASSUME KeepAssumption == Keep \in Nat \ {0}
ASSUME BoundsAssumption ==
  MaxHeight \in Nat \ {0} /\ MaxStamp \in Nat \ {0} /\ MaxTroubles \in Nat

VARIABLES
  dir,        \* dir[b]: the block directory b and the archive in it
  latest,     \* the block the "latest" file names; None when it is missing or empty
  running,    \* the client's container
  height,     \* the client's block number
  clock,      \* the next reading of the clock
  maker,      \* runSnapshots: its place, its block, has the container run under tar
  up,         \* the process is there
  cancelled,  \* SIGTERM has come: ctx is done
  troubles,   \* how much has gone wrong so far
  rewritten,  \* history: published blocks whose archive a later run has begun to replace
  excused     \* history: a stop or start command failed, or was never issued

vars == <<dir, latest, running, height, clock, maker, up, cancelled, troubles, rewritten, excused>>
storeVars == <<dir, latest, rewritten>>
clientVars == <<running, excused>>
hostVars == <<height, clock, up, cancelled>>

\* There is no directory, it has no archive, one that is being written or was cut off, one
\* of a datadir that a running client was changing, a good one.
Contents == {"absent", "empty", "partial", "torn", "good"}
Dirs == {b \in Blocks : dir[b] # "absent"}
Archives == {b \in Blocks : dir[b] \notin {"absent", "empty"}}

Idle == [pc |-> "idle", block |-> None, dirty |-> FALSE]

Init ==
  /\ dir = [b \in Blocks |-> "absent"]
  /\ latest = None
  /\ running \in BOOLEAN
  /\ height = 1
  /\ clock = MaxHeight + 1
  /\ maker = Idle
  /\ up = TRUE
  /\ cancelled = FALSE
  /\ troubles = 0
  /\ rewritten = {}
  /\ excused = ~running

-----------------------------------------------------------------------------
(* CreateSnapshot.                                                         *)

At(pc) == up /\ maker.pc = pc
Goto(pc) == maker' = [maker EXCEPT !.pc = pc]
Trouble == troubles < MaxTroubles /\ troubles' = troubles + 1

\* A command under ctx works, or fails: for ever once ctx is done.
Works == ~cancelled /\ UNCHANGED troubles
Fails == IF cancelled THEN UNCHANGED troubles ELSE Trouble

\* Mutant of Begin: without an answer from the RPC there is no snapshot.
MutantBegin ==
  /\ At("idle") /\ ~cancelled
  /\ running
  /\ maker' = [Idle EXCEPT !.pc = "stop", !.block = height]
  /\ UNCHANGED <<clock, troubles, storeVars, clientVars, height, up, cancelled>>

\* Mutant of Begin: an RPC that does not answer passes for block 0.
MutantBeginAtZero ==
  /\ At("idle") /\ ~cancelled
  /\ UNCHANGED troubles
  /\ maker' = [Idle EXCEPT !.pc = "stop", !.block = IF running THEN height ELSE None]
  /\ UNCHANGED <<clock, storeVars, clientVars, height, up, cancelled>>

\* currentBlock: the RPC of a running client, else the clock.  The ticker fires for ever;
\* nothing is begun once ctx is done, and nothing is stopped when the output directory
\* cannot be made.
Begin ==
  /\ At("idle") /\ ~cancelled
  /\ \/ /\ running /\ UNCHANGED <<clock, troubles>>
        /\ maker' = [Idle EXCEPT !.pc = "stop", !.block = height]
     \/ /\ IF running THEN Trouble ELSE UNCHANGED troubles
        /\ maker' = [Idle EXCEPT !.pc = "stop", !.block = clock]
        /\ clock' = IF clock < MaxHeight + MaxStamp THEN clock + 1 ELSE clock
     \/ Trouble /\ UNCHANGED <<maker, clock>>
  /\ UNCHANGED <<storeVars, clientVars, height, up, cancelled>>

\* docker stop: when it fails there is no deferred start, whether it has stopped the
\* container by then or not.
StopContainer ==
  /\ At("stop")
  /\ \/ Works /\ running' = FALSE /\ Goto("mkdir") /\ UNCHANGED excused
     \/ Fails /\ running' \in {running, FALSE} /\ maker' = Idle /\ excused' = TRUE
  /\ UNCHANGED <<storeVars, hostVars>>

MkBlockDir ==
  /\ At("mkdir")
  /\ \/ /\ dir' = [dir EXCEPT ![maker.block] = IF @ = "absent" THEN "empty" ELSE @]
        /\ Goto("tar")
        /\ UNCHANGED troubles
     \/ Trouble /\ Goto("restart") /\ UNCHANGED dir
  /\ UNCHANGED <<latest, rewritten, clientVars, hostVars>>

\* os.Remove takes the archive of a tar that failed away, its directory stays; when it fails
\* too nobody looks, and what is there is left.
RemoveArchive ==
  \/ Fails /\ dir' = [dir EXCEPT ![maker.block] = "empty"]
  \/ Trouble /\ UNCHANGED dir

Rewrites == rewritten' = IF latest = maker.block THEN rewritten \cup {latest} ELSE rewritten

\* tar creates the archive file, over the one an earlier run has made at this block.  A
\* tar that does not start is a tar that failed: that archive is removed.
StartTar ==
  /\ At("tar")
  /\ \/ /\ Works
        /\ dir' = [dir EXCEPT ![maker.block] = "partial"]
        /\ maker' = [maker EXCEPT !.pc = "taring", !.dirty = running]
     \/ RemoveArchive /\ Goto("restart")
  /\ Rewrites
  /\ UNCHANGED <<latest, clientVars, hostVars>>

\* Mutants of EndTar: after a failed tar the archive gets published all the same; the
\* container is not started again.
MutantEndTarPublishes ==
  /\ At("taring")
  /\ \/ /\ Works
        /\ dir' = [dir EXCEPT ![maker.block] = IF maker.dirty THEN "torn" ELSE "good"]
     \/ RemoveArchive
  /\ Goto("latest")
  /\ UNCHANGED <<latest, rewritten, clientVars, hostVars>>

MutantEndTarForgets ==
  /\ At("taring")
  /\ \/ /\ Works
        /\ dir' = [dir EXCEPT ![maker.block] = IF maker.dirty THEN "torn" ELSE "good"]
        /\ Goto("latest")
     \/ RemoveArchive /\ maker' = Idle
  /\ UNCHANGED <<latest, rewritten, clientVars, hostVars>>

\* tar ends, well or not; it may fail for the files that changed under it.
EndTar ==
  /\ At("taring")
  /\ \/ /\ Works
        /\ dir' = [dir EXCEPT ![maker.block] = IF maker.dirty THEN "torn" ELSE "good"]
        /\ Goto("latest")
     \/ RemoveArchive /\ Goto("restart")
     \/ /\ maker.dirty /\ UNCHANGED troubles
        /\ dir' = [dir EXCEPT ![maker.block] = "empty"]
        /\ Goto("restart")
  /\ UNCHANGED <<latest, rewritten, clientVars, hostVars>>

\* os.WriteFile truncates the pointer and then writes it.
TruncateLatest ==
  /\ At("latest")
  /\ \/ latest' = None /\ Goto("write") /\ UNCHANGED troubles
     \/ Trouble /\ Goto("restart") /\ UNCHANGED latest
  /\ UNCHANGED <<dir, rewritten, clientVars, hostVars>>

WriteLatest ==
  /\ At("write")
  /\ \/ /\ latest' = maker.block
        /\ rewritten' = rewritten \ {maker.block}
        /\ Goto("finish")
        /\ UNCHANGED troubles
     \/ Trouble /\ Goto("restart") /\ UNCHANGED <<latest, rewritten>>
  /\ UNCHANGED <<dir, clientVars, hostVars>>

\* The deferred docker start, its error dropped.
StartContainer ==
  /\ At("restart") \/ At("finish")
  /\ \/ Works /\ running' = TRUE /\ excused' = FALSE
     \/ Fails /\ running' = running /\ excused' = TRUE
  /\ IF maker.pc = "finish" THEN Goto("prune") ELSE maker' = Idle
  /\ UNCHANGED <<storeVars, hostVars>>

\* PruneOld takes every directory with a number for a snapshot, with an archive or not:
\* Keep of them stay, the highest numbers.
Doomed == {b \in Dirs : Cardinality({d \in Dirs : d > b}) >= Keep}

\* From the lowest on; a directory that cannot be removed ends it.
PruneOld ==
  /\ At("prune")
  /\ \/ /\ dir' = [b \in Blocks |-> IF b \in Doomed THEN "absent" ELSE dir[b]]
        /\ UNCHANGED troubles
     \/ /\ Trouble
        /\ \E stuck \in Doomed :
             dir' = [b \in Blocks |-> IF b \in Doomed /\ b < stuck THEN "absent" ELSE dir[b]]
  /\ maker' = Idle
  /\ UNCHANGED <<latest, rewritten, clientVars, hostVars>>

MakerStep ==
  \/ Begin \/ StopContainer \/ MkBlockDir \/ StartTar \/ EndTar \/ TruncateLatest
  \/ WriteLatest \/ StartContainer \/ PruneOld

-----------------------------------------------------------------------------
(* The host.                                                               *)

Grow ==
  /\ running /\ height < MaxHeight
  /\ height' = height + 1
  /\ UNCHANGED <<storeVars, clientVars, maker, clock, up, cancelled, troubles>>

\* The reconcile loop of the host's ethagent finds the container stopped and starts it.
AgentStarts ==
  /\ ~running
  /\ running' = TRUE /\ excused' = FALSE
  /\ maker' = [maker EXCEPT !.dirty = @ \/ maker.pc = "taring"]
  /\ UNCHANGED <<storeVars, hostVars, troubles>>

Terminate ==
  /\ up /\ ~cancelled
  /\ Trouble
  /\ cancelled' = TRUE
  /\ UNCHANGED <<storeVars, clientVars, maker, height, clock, up>>

\* The process crashes, or main returns after a SIGTERM (cancelled) without waiting for the
\* maker; a tar under way dies with it.
Die ==
  /\ up
  /\ Fails
  /\ up' = FALSE
  /\ maker' = Idle
  /\ excused' = (excused \/ maker.pc \notin {"idle", "stop"})
  /\ UNCHANGED <<storeVars, running, height, clock, cancelled>>

\* systemd starts a process that crashed again, "Restart=on-failure"; one that main has
\* returned from is started by an operator or the next boot of the host, or never.
Boot ==
  /\ ~up
  /\ up' = TRUE
  /\ cancelled' = FALSE
  /\ UNCHANGED <<storeVars, clientVars, maker, height, clock, troubles>>

-----------------------------------------------------------------------------
Next == MakerStep \/ Grow \/ AgentStarts \/ Terminate \/ Die \/ Boot

\* The ticker and the maker keep going, a process that got SIGTERM ends, systemd starts one
\* that crashed again; the agent need not be there.
Fairness ==
  /\ WF_vars(MakerStep)
  /\ WF_vars(~cancelled /\ Boot)
  /\ WF_vars(cancelled /\ Die)

Spec == Init /\ [][Next]_vars /\ Fairness
-----------------------------------------------------------------------------
(* Properties.                                                             *)

\* Every variable keeps its type; a snapshot under way has a block number.
TypeOK ==
  /\ dir \in [Blocks -> Contents]
  /\ latest \in Blocks \cup {None}
  /\ running \in BOOLEAN
  /\ height \in Heights
  /\ clock \in Stamps
  /\ maker \in [pc : {"idle", "stop", "mkdir", "tar", "taring", "latest", "write", "restart",
                      "finish", "prune"},
                block : Blocks \cup {None}, dirty : BOOLEAN]
  /\ maker.block = None <=> maker.pc = "idle"
  /\ up \in BOOLEAN /\ cancelled \in BOOLEAN
  /\ troubles \in 0 .. MaxTroubles
  /\ rewritten \subseteq Blocks
  /\ excused \in BOOLEAN

\* What "latest" names is there to be downloaded, whatever fails or dies: a whole archive,
\* unless a later run has begun to replace it (the block number had not moved), or it was
\* pruned while Keep directories had higher numbers (the clock's).
LatestIsServed ==
  latest # None =>
    \/ dir[latest] \in {"good", "torn"}
    \/ latest \in rewritten
    \/ /\ dir[latest] \in {"absent", "empty"}
       /\ Cardinality({b \in Dirs : b > latest}) >= Keep

\* "Always restart even on error": between snapshots the container runs, unless the docker
\* command itself failed (a done ctx included) or the process died half-way.
RestartedAfterwards == maker.pc \in {"idle", "prune"} /\ ~running => excused

\* Even without an agent on the host a client left down comes up again, however the process
\* crashes: a snapshot that is due does not need its RPC, and ends with a start.  The
\* exception is a process that SIGTERM has ended and nobody starts again.
ComesBack == []<>running \/ <>[](~up /\ cancelled)
=============================================================================
