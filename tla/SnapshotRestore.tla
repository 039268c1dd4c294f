--------------------------- MODULE SnapshotRestore ---------------------------
(***************************************************************************)
(* The snapshot stage of a pass, and the client stages after it.           *)
(*                                                                         *)
(* reconcileSnapshot takes the datadirs in a fixed order (the execution    *)
(* client's, the consensus client's): RestoreIfEmpty looks whether one is  *)
(* empty, asks the server for the latest snapshot and for its checksum and *)
(* streams it through curl and tar into the directory; the first error     *)
(* ends the stage, not the pass, which goes on to start the clients that   *)
(* are stopped.  The questions to the server have a time limit, the        *)
(* transfer has none.                                                      *)
(*                                                                         *)
(* The loop and the POST /reconcile handlers run passes concurrently; a    *)
(* handler's context is done when its client goes away, which kills its    *)
(* curl and tar.  A running client writes into its own datadir.            *)
(***************************************************************************)
EXTENDS Naturals, Sequences, FiniteSets

CONSTANTS
  Dirs,         \* the datadirs with a snapshot to restore, in the order of the stage
  Unserved,     \* datadirs whose snapshot server never answers
  Requests,     \* POST /reconcile handlers that can be in flight at once
  MaxTroubles   \* bound: commands that fail, crashes of the agent

Loop == "loop"
Workers == {Loop} \cup Requests
Clients == {Dirs[k] : k \in 1 .. Len(Dirs)}

ASSUME DirsAssumption == Len(Dirs) \in Nat \ {0} /\ \A j, k \in 1 .. Len(Dirs) : Dirs[j] = Dirs[k] => j = k
ASSUME WorkersAssumption == Loop \notin Requests
ASSUME UnservedAssumption == Unserved \subseteq Clients
ASSUME TroublesAssumption == MaxTroubles \in Nat

VARIABLES
  files,      \* what extraction has put into each datadir: "none", "some" or "all" of a snapshot
  marker,     \* datadirs with a .snapshot-restored file
  running,    \* clients that run
  used,       \* datadirs their client has written to
  w,          \* each pass: its place, its datadir, is its context live, has its tar written
  troubles,   \* how much has gone wrong so far
  crossed,    \* history: datadirs that were being restored while a second pass was restoring
              \* them, too, or while their client was running
  mixed       \* history: datadirs a tar wrote into that held something else by then

vars == <<files, marker, running, used, w, troubles, crossed, mixed>>
dirVars == <<files, marker, mixed>>
clientVars == <<running, used>>

Idle == [pc |-> "idle", at |-> 1, live |-> TRUE, wrote |-> FALSE]

\* A node at its first boot: nothing in the datadirs, the clients stopped or started by docker.
Init ==
  /\ files = [d \in Clients |-> "none"]
  /\ marker = {}
  /\ running \in SUBSET Clients
  /\ used = {}
  /\ w = [x \in Workers |-> Idle]
  /\ troubles = 0
  /\ crossed = {}
  /\ mixed = {}

-----------------------------------------------------------------------------
(* The snapshot stage.                                                     *)

Dir(x) == Dirs[w[x].at]
At(x, pc) == w[x].pc = pc
Goto(x, pc) == w' = [w EXCEPT ![x].pc = pc]
Trouble == troubles < MaxTroubles /\ troubles' = troubles + 1
Fails(x) == IF w[x].live THEN Trouble ELSE UNCHANGED troubles

Begin(x) ==
  /\ At(x, "idle")
  /\ Goto(x, "look")
  /\ UNCHANGED <<dirVars, clientVars, troubles, crossed>>

\* Mutant of NextDir: the stage ends one datadir too late.
MutantNextDir(x) ==
  w' = [w EXCEPT ![x] = IF w[x].at > Len(Dirs)
                        THEN [w[x] EXCEPT !.pc = "client", !.at = 1, !.wrote = FALSE]
                        ELSE [w[x] EXCEPT !.pc = "look", !.at = w[x].at + 1, !.wrote = FALSE]]

\* The stage goes on with the next datadir, the pass with its first client.
NextDir(x) ==
  w' = [w EXCEPT ![x] = IF w[x].at = Len(Dirs)
                        THEN [w[x] EXCEPT !.pc = "client", !.at = 1, !.wrote = FALSE]
                        ELSE [w[x] EXCEPT !.pc = "look", !.at = w[x].at + 1, !.wrote = FALSE]]

\* reconcileSnapshot returns the first error.
StageFails(x) == w' = [w EXCEPT ![x] = [w[x] EXCEPT !.pc = "client", !.at = 1, !.wrote = FALSE]]

Empty(d) == files[d] = "none" /\ d \notin used
Restoring(d) == {x \in Workers : w[x].pc \in {"discover", "prepare", "checksum", "stream", "stuck"} /\ Dir(x) = d}

Crosses(d, now) == crossed' = IF now THEN crossed \cup {d} ELSE crossed

\* Mutant of Look: a datadir without a marker counts as empty.
MutantLook(x) ==
  /\ At(x, "look")
  /\ IF Dir(x) \notin marker
     THEN Goto(x, "discover") /\ Crosses(Dir(x), Restoring(Dir(x)) # {} \/ Dir(x) \in running)
     ELSE NextDir(x) /\ UNCHANGED crossed
  /\ UNCHANGED <<dirVars, clientVars, troubles>>

\* IsDatadirEmpty: anything in the datadir, a broken snapshot too, makes the stage skip it.
Look(x) ==
  /\ At(x, "look")
  /\ IF Empty(Dir(x))
     THEN Goto(x, "discover") /\ Crosses(Dir(x), Restoring(Dir(x)) # {} \/ Dir(x) \in running)
     ELSE NextDir(x) /\ UNCHANGED crossed
  /\ UNCHANGED <<dirVars, clientVars, troubles>>

\* The datadir cannot be read, for another reason than that it is not there.
LookFails(x) ==
  /\ At(x, "look")
  /\ Trouble /\ StageFails(x)
  /\ UNCHANGED <<dirVars, clientVars, crossed>>

\* Mutant of Discover: a server that does not answer ends the pass.
MutantDiscover(x) ==
  /\ At(x, "discover")
  /\ \/ w[x].live /\ Dir(x) \notin Unserved /\ Goto(x, "prepare") /\ UNCHANGED troubles
     \/ Dir(x) \in Unserved /\ w' = [w EXCEPT ![x] = Idle] /\ UNCHANGED troubles
     \/ Dir(x) \notin Unserved /\ Fails(x) /\ w' = [w EXCEPT ![x] = Idle]
  /\ UNCHANGED <<dirVars, clientVars, crossed>>

Discover(x) ==
  /\ At(x, "discover")
  /\ \/ w[x].live /\ Dir(x) \notin Unserved /\ Goto(x, "prepare") /\ UNCHANGED troubles
     \/ Dir(x) \in Unserved /\ StageFails(x) /\ UNCHANGED troubles
     \/ Dir(x) \notin Unserved /\ Fails(x) /\ StageFails(x)
  /\ UNCHANGED <<dirVars, clientVars, crossed>>

\* MkdirAll and the lookup of the tools, which do not ask the context.
Prepare(x) ==
  /\ At(x, "prepare")
  /\ \/ Goto(x, "checksum") /\ UNCHANGED troubles
     \/ Trouble /\ StageFails(x)
  /\ UNCHANGED <<dirVars, clientVars, crossed>>

\* fetchChecksum has returned, with a checksum or an error that is dropped; curl and tar are
\* started.
Spawn(x) ==
  /\ At(x, "checksum")
  /\ \/ w[x].live /\ Goto(x, "stream") /\ UNCHANGED troubles
     \/ Fails(x) /\ StageFails(x)
  /\ UNCHANGED <<dirVars, clientVars, crossed>>

\* The server answers the question for the checksum with nothing, and fetchChecksum takes the
\* first of its words.  The panic ends the agent in the loop, which systemd starts again, and
\* in a handler, where net/http recovers from it, the pass.  The server may do so every time.
Panic(x) ==
  /\ At(x, "checksum") /\ w[x].live
  /\ w' = IF x = Loop THEN [y \in Workers |-> Idle] ELSE [w EXCEPT ![x] = Idle]
  /\ UNCHANGED <<dirVars, clientVars, troubles, crossed>>

\* tar's first files reach the datadir, whatever is in it by then.
Extract(x) ==
  LET d == Dir(x) IN
  /\ At(x, "stream") /\ ~w[x].wrote /\ w[x].live
  /\ mixed' = IF Empty(d) THEN mixed ELSE mixed \cup {d}
  /\ files' = [files EXCEPT ![d] = "some"]
  /\ w' = [w EXCEPT ![x].wrote = TRUE]
  /\ UNCHANGED <<marker, clientVars, troubles, crossed>>

\* Mutant of EndStream: only curl's outcome is looked at.
MutantEndStream(x) ==
  LET d == Dir(x) IN
  /\ At(x, "stream") /\ w[x].live
  /\ \/ /\ w[x].wrote /\ UNCHANGED troubles
        /\ files' = [files EXCEPT ![d] = "all"]
        /\ Goto(x, "mark")
     \/ w[x].wrote /\ Trouble /\ UNCHANGED files /\ Goto(x, "mark")
  /\ UNCHANGED <<marker, mixed, clientVars, crossed>>

\* Both processes have ended of themselves: well, or one of them with an error, with as much
\* of the snapshot in the datadir as tar had written.
EndStream(x) ==
  LET d == Dir(x) IN
  /\ At(x, "stream") /\ w[x].live
  /\ \/ /\ w[x].wrote /\ UNCHANGED troubles
        /\ files' = [files EXCEPT ![d] = "all"]
        /\ Goto(x, "mark")
     \/ Trouble /\ UNCHANGED files /\ StageFails(x)
  /\ UNCHANGED <<marker, mixed, clientVars, crossed>>

\* tar ends early while the rest of the archive does not fit the pipe.  The agent holds the
\* pipe's read end until curl has ended and curl waits for a reader: nothing ends
\* curl.Wait but the context.
TarDies(x) ==
  /\ At(x, "stream") /\ w[x].live
  /\ Trouble
  /\ Goto(x, "stuck")
  /\ UNCHANGED <<dirVars, clientVars, crossed>>

\* The context is done: exec kills curl and tar, whatever they were waiting for.
Killed(x) ==
  /\ At(x, "stream") \/ At(x, "stuck")
  /\ ~w[x].live
  /\ StageFails(x)
  /\ UNCHANGED <<dirVars, clientVars, troubles, crossed>>

\* The marker comes last; an error of its write is dropped.
Mark(x) ==
  /\ At(x, "mark")
  /\ \/ marker' = marker \cup {Dir(x)} /\ UNCHANGED troubles
     \/ marker' = marker /\ Trouble
  /\ NextDir(x)
  /\ UNCHANGED <<files, mixed, clientVars, crossed>>

-----------------------------------------------------------------------------
(* The client stages, the clients and the environment.                     *)

NextClient(x) ==
  w' = [w EXCEPT ![x] = IF w[x].at = Len(Dirs) THEN Idle ELSE [w[x] EXCEPT !.at = w[x].at + 1]]

\* reconcileClient, of which only the start of a stopped container matters here.
StartClient(x) ==
  /\ At(x, "client")
  /\ \/ /\ w[x].live /\ UNCHANGED troubles
        /\ running' = running \cup {Dir(x)}
        /\ Crosses(Dir(x), Restoring(Dir(x)) # {})
     \/ Fails(x) /\ UNCHANGED <<running, crossed>>
  /\ NextClient(x)
  /\ UNCHANGED <<dirVars, used>>

\* A pass by itself: files, questions with a time limit, docker, processes that get killed.
PassStep(x) ==
  \/ Look(x) \/ LookFails(x) \/ Discover(x) \/ Prepare(x) \/ Spawn(x) \/ Killed(x)
  \/ Mark(x) \/ StartClient(x)

\* What depends on the server and on what it sends.
Transfer(x) == Panic(x) \/ Extract(x) \/ EndStream(x) \/ TarDies(x)

ClientWrites(d) ==
  /\ d \in running \ used
  /\ used' = used \cup {d}
  /\ UNCHANGED <<dirVars, running, w, troubles, crossed>>

\* The client of a request goes away, ethctl after 10 seconds: r.Context() is done, every
\* later command of the pass fails, its curl and tar are killed.
LoseRequest(x) ==
  /\ x \in Requests /\ ~At(x, "idle") /\ w[x].live
  /\ w' = [w EXCEPT ![x].live = FALSE]
  /\ UNCHANGED <<dirVars, clientVars, troubles, crossed>>

\* The agent dies, its passes with it, and is started again.
Crash ==
  /\ \E x \in Workers : ~At(x, "idle")
  /\ Trouble
  /\ w' = [x \in Workers |-> Idle]
  /\ UNCHANGED <<dirVars, clientVars, crossed>>

Next ==
  \/ \E x \in Workers : Begin(x) \/ PassStep(x) \/ Transfer(x)
  \/ \E x \in Requests : LoseRequest(x)
  \/ \E d \in Clients : ClientWrites(d)
  \/ Crash

\* The loop ticks and passes move on, but for their transfers: curl has no time limit, nor has
\* the context of the loop.  ethctl does not wait for ever.
Fairness ==
  /\ WF_vars(Begin(Loop))
  /\ \A x \in Workers : WF_vars(PassStep(x))
  /\ \A x \in Requests : WF_vars(LoseRequest(x))

Spec == Init /\ [][Next]_vars /\ Fairness
-----------------------------------------------------------------------------
(* Properties.                                                             *)

\* Every variable keeps its type; only a transfer has written files.
TypeOK ==
  /\ files \in [Clients -> {"none", "some", "all"}]
  /\ marker \subseteq Clients /\ running \subseteq Clients /\ used \subseteq Clients
  /\ \A x \in Workers :
       /\ w[x] \in [pc : {"idle", "look", "discover", "prepare", "checksum", "stream", "stuck",
                          "mark", "client"},
                    at : 1 .. Len(Dirs), live : BOOLEAN, wrote : BOOLEAN]
       /\ w[x].wrote => w[x].pc \in {"stream", "stuck", "mark"}
  /\ troubles \in 0 .. MaxTroubles
  /\ crossed \subseteq Clients /\ mixed \subseteq Clients

\* A marker vouches for a whole snapshot: whatever transfer fails, gets killed or dies with
\* the agent, a marked datadir got all of one, if nothing else was written to it meanwhile.
MarkedIsWhole == \A d \in marker \ mixed : files[d] = "all"

\* A snapshot is extracted over other data in two cases only: two passes were restoring the
\* datadir at once, or its client was running meanwhile.  A pass that comes later never
\* extracts over a broken snapshot or over what the client has written.
MixedOnlyByCrossing == mixed \subseteq crossed

\* A failed restore holds no client back: every client is running in the end, also when the
\* snapshot server never answers, but for two cases, both up to the server or its archive:
\* the loop is in a transfer that never ends, or the question for a checksum ends the agent
\* again and again.
ClientsGetStarted ==
  \/ <>(running = Clients)
  \/ <>[](w[Loop].pc \in {"stream", "stuck"})
  \/ []<><<Panic(Loop)>>_vars
=============================================================================
