------------------------------- MODULE HostBoot -------------------------------
(***************************************************************************)
(* A host from its first boot on: the ethagent process, the disk stage of  *)
(* its passes, the Engine API secret, and the two clients that read it.    *)
(*                                                                         *)
(* main makes the secret exist at /data/jwtsecret and only then starts the *)
(* passes, whose disk stage finds the data disk, assembles the RAID array, *)
(* formats, mounts it at /data and adds it to fstab.  So /data is a        *)
(* directory of the root file system by the time the stage looks whether   *)
(* it is mounted, and findmnt --target answers with the root file system:  *)
(* the disk is mounted by fstab, at the next boot, over the directory.     *)
(*                                                                         *)
(* The loop and the POST /reconcile handlers run passes concurrently;      *)
(* commands fail, the agent crashes, the host reboots, an operator         *)
(* unmounts the disk.                                                      *)
(***************************************************************************)
EXTENDS Naturals, FiniteSets

CONSTANTS
  Clients,      \* the execution and the consensus client
  Requests,     \* POST /reconcile handlers that can be in flight at once
  MaxRequests,  \* bound: passes of the handlers
  MaxTroubles,  \* bound: failing commands, lost requests, crashes of the agent
  MaxReboots    \* bound: reboots of the host

Loop == "loop"
Workers == {Loop} \cup Requests

ASSUME WorkersAssumption == Loop \notin Requests /\ IsFiniteSet(Requests)
ASSUME BoundsAssumption == MaxRequests \in Nat /\ MaxTroubles \in Nat /\ MaxReboots \in Nat

VARIABLES
  conf,      \* spec.disk: are the devices discovered (none listed), are there several
  disk,      \* the data disk: its array, has it a file system, has a client used that,
             \* is it mounted at /data, is the array in mdadm.conf
  fstab,     \* entries for /data: with the UUID of the disk's file system, with that of one
             \* it had before, with a device path for one
  agent,     \* the ethagent process: "off", in EnsureExists, or serving
  secret,    \* jwtsecret on the root file system and on the disk's; None where there is none
  cached,    \* where it has been written but has not reached the device yet
  using,     \* the secret each client was started with; None when it is down
  w,         \* each pass: its place, is its context live, does what blkid told it still hold
  host,      \* "up", or "emergency" after a boot that could not mount what fstab lists
  budget,    \* requests, troubles and reboots so far
  hidden     \* history: the disk was mounted or unmounted under a running agent

vars == <<conf, disk, fstab, agent, secret, cached, using, w, host, budget, hidden>>
secretVars == <<secret, cached>>

\* What jwtsecret may be: not there, a file that a power cut has emptied, one that was cut
\* off, or one of the secrets generated so far, the numbers above.
None == 0
Emptied == 1
CutOff == 2
Valid(s) == s > CutOff
Places == {"root", "data"}
Idle == [pc |-> "idle", live |-> TRUE, sure |-> TRUE]
Down == [c \in Clients |-> None]

\* A blank disk, or several, and an empty /data.
Init ==
  /\ conf \in [discover : BOOLEAN, raid : BOOLEAN]
  /\ disk = [array |-> IF conf.raid THEN "none" ELSE "running", fs |-> FALSE, used |-> FALSE,
             mounted |-> FALSE, saved |-> FALSE]
  /\ fstab = [uuid |-> 0, stale |-> 0, path |-> 0]
  /\ agent = "off"
  /\ secret = [p \in Places |-> None]
  /\ cached = {}
  /\ using = Down
  /\ w = [x \in Workers |-> Idle]
  /\ host = "up"
  /\ budget = [requests |-> 0, troubles |-> 0, reboots |-> 0]
  /\ hidden = FALSE

\* The file system that /data shows.
Shown == IF disk.mounted THEN "data" ELSE "root"
Entries == fstab.uuid + fstab.stale + fstab.path

\* What is on the disk is gone, and with it the file system whose UUID fstab has.
Gone ==
  /\ secret' = [secret EXCEPT !["data"] = None]
  /\ fstab' = [fstab EXCEPT !.uuid = 0, !.stale = @ + fstab.uuid]

Spend(kind, limit) == budget[kind] < limit /\ budget' = [budget EXCEPT ![kind] = @ + 1]
Trouble == Spend("troubles", MaxTroubles)

-----------------------------------------------------------------------------
(* main, up to the start of the agent.                                     *)

NewSecret ==
  LET m == IF secret["root"] > secret["data"] THEN secret["root"] ELSE secret["data"] IN
  IF Valid(m) THEN m + 1 ELSE CutOff + 1

\* Mutant of EnsureExists: Generate is called at every start.
MutantEnsureExists ==
  /\ host = "up" /\ agent = "off"
  /\ agent' = "renaming"
  /\ UNCHANGED <<conf, disk, fstab, secretVars, using, w, host, budget, hidden>>

\* EnsureExists: a secret is left alone, where there is no file a new one is written to a
\* temporary file ...  On any other file main exits, at this start and at all that follow.
EnsureExists ==
  /\ host = "up" /\ agent = "off"
  /\ \/ Valid(secret[Shown]) /\ agent' = "serving"
     \/ secret[Shown] = None /\ agent' = "renaming"
  /\ UNCHANGED <<conf, disk, fstab, secretVars, using, w, host, budget, hidden>>

\* Mutant of Install: the secret is written in place, and a write that fails leaves a part.
MutantInstall ==
  /\ agent = "renaming"
  /\ \/ secret' = [secret EXCEPT ![Shown] = NewSecret] /\ agent' = "serving" /\ UNCHANGED budget
     \/ Trouble /\ agent' = "off" /\ secret' = [secret EXCEPT ![Shown] = CutOff]
  /\ cached' = cached \cup {Shown}
  /\ UNCHANGED <<conf, disk, fstab, using, w, host, hidden>>

\* ... and renamed, with no Sync of the file.  main exits when either fails, and is started
\* again.
Install ==
  /\ agent = "renaming"
  /\ \/ /\ secret' = [secret EXCEPT ![Shown] = NewSecret] /\ cached' = cached \cup {Shown}
        /\ agent' = "serving" /\ UNCHANGED budget
     \/ Trouble /\ agent' = "off" /\ UNCHANGED secretVars
  /\ UNCHANGED <<conf, disk, fstab, using, w, host, hidden>>

-----------------------------------------------------------------------------
(* The disk stage.                                                         *)

At(x, pc) == agent = "serving" /\ w[x].pc = pc
Goto(x, pc) == w' = [w EXCEPT ![x].pc = pc]
Works(x) == w[x].live /\ UNCHANGED budget
Fails(x) == IF w[x].live THEN Trouble ELSE UNCHANGED budget

\* The stage is over, with or without an error; the pass goes on to the clients.
StageEnds(x) == Goto(x, "clients")

Begin(x) ==
  /\ At(x, "idle")
  /\ IF x = Loop THEN UNCHANGED budget ELSE Spend("requests", MaxRequests)
  /\ Goto(x, "resolve")
  /\ UNCHANGED <<conf, disk, fstab, agent, secretVars, using, host, hidden>>

\* DiscoverDevices passes over a disk with a file system of its own, with an array on it,
\* or mounted; listed devices are taken as they are.
Eligible == ~conf.discover \/ (IF conf.raid THEN disk.array # "running" ELSE ~disk.fs)

Resolve(x) ==
  /\ At(x, "resolve")
  /\ \/ Works(x) /\ IF ~Eligible THEN StageEnds(x)
                    ELSE Goto(x, IF conf.raid THEN "detail" ELSE "blkid")
     \/ conf.discover /\ Fails(x) /\ StageEnds(x)
     \/ ~conf.discover /\ ~w[x].live /\ UNCHANGED budget
        /\ Goto(x, IF conf.raid THEN "detail" ELSE "blkid")
  /\ UNCHANGED <<conf, disk, fstab, agent, secretVars, using, host, hidden>>

\* ensureRAID0: an error of mdadm --detail passes for an array that does not exist.
Detail(x) ==
  /\ At(x, "detail")
  /\ \/ Works(x) /\ Goto(x, IF disk.array = "running" THEN "blkid" ELSE "create")
     \/ Fails(x) /\ Goto(x, "create")
  /\ UNCHANGED <<conf, disk, fstab, agent, secretVars, using, host, hidden>>

Wipe(d) == [d EXCEPT !.fs = FALSE, !.used = FALSE]

\* mdadm --create: devices of a running array are busy; of one that is not assembled it may
\* refuse them, too, or make a new array of them, with the old contents or without.  Errors
\* of writing mdadm.conf are dropped.
Create(x) ==
  /\ At(x, "create")
  /\ \/ /\ w[x].live /\ disk.array # "running"
        /\ \E wiped \in {FALSE, disk.array = "stopped"} :
             LET base == IF wiped THEN Wipe(disk) ELSE disk IN
             /\ \/ UNCHANGED budget /\ disk' = [base EXCEPT !.array = "running", !.saved = TRUE]
                \/ Trouble /\ disk' = [base EXCEPT !.array = "running"]
             /\ IF wiped THEN Gone ELSE UNCHANGED <<secret, fstab>>
        /\ Goto(x, "blkid")
     \/ /\ w[x].live /\ disk.array # "none"
        /\ UNCHANGED <<budget, disk, secret, fstab>> /\ StageEnds(x)
     \/ Fails(x) /\ UNCHANGED <<disk, secret, fstab>> /\ StageEnds(x)
  /\ UNCHANGED <<conf, agent, cached, using, host, hidden>>

\* Mutant of Blkid: the device is formatted whatever blkid prints.
MutantBlkid(x) ==
  /\ At(x, "blkid")
  /\ Works(x) /\ Goto(x, "mkfs")
  /\ UNCHANGED <<conf, disk, fstab, agent, secretVars, using, host, hidden>>

\* blkid's output counts, not its error: one that fails without a word passes for a disk
\* without a file system, one that prints an error for a disk with one.
Blkid(x) ==
  /\ At(x, "blkid")
  /\ \/ Works(x) /\ Goto(x, IF disk.fs THEN "findmnt" ELSE "mkfs")
     \/ Fails(x) /\ w' = [w EXCEPT ![x].pc = "mkfs", ![x].sure = FALSE]
     \/ w[x].live /\ Trouble /\ Goto(x, "findmnt")
  /\ UNCHANGED <<conf, disk, fstab, agent, secretVars, using, host, hidden>>

\* mkfs refuses a mounted device, and gives a file system another UUID; one that is killed
\* may have destroyed what there was.
Mkfs(x) ==
  /\ At(x, "mkfs")
  /\ \/ /\ w[x].live /\ disk.mounted
        /\ UNCHANGED <<budget, disk, secret, fstab>> /\ StageEnds(x)
     \/ /\ Works(x) /\ ~disk.mounted
        /\ disk' = [Wipe(disk) EXCEPT !.fs = TRUE] /\ Gone
        /\ w' = [y \in Workers |-> IF y = x THEN [w[x] EXCEPT !.pc = "findmnt"]
                                   ELSE [w[y] EXCEPT !.sure = w[y].sure /\ w[y].pc # "mkfs"]]
     \/ /\ Fails(x) /\ StageEnds(x)
        /\ \/ UNCHANGED <<disk, secret, fstab>>
           \/ w[x].live /\ ~disk.mounted /\ disk' = Wipe(disk) /\ Gone
  /\ UNCHANGED <<conf, agent, cached, using, host, hidden>>

\* Mutant of Findmnt: what is mounted needs no fstab entry.
MutantFindmnt(x) ==
  /\ At(x, "findmnt")
  /\ \/ Works(x) /\ StageEnds(x)
     \/ Fails(x) /\ Goto(x, "mount")
  /\ UNCHANGED <<conf, disk, fstab, agent, secretVars, using, host, hidden>>

\* IsMounted: some file system holds the directory /data, main has seen to that.  Only a
\* findmnt that fails makes the stage mount the disk.
Findmnt(x) ==
  /\ At(x, "findmnt")
  /\ \/ Works(x) /\ Goto(x, "fstab")
     \/ Fails(x) /\ Goto(x, "mount")
  /\ UNCHANGED <<conf, disk, fstab, agent, secretVars, using, host, hidden>>

\* ensureMounted; a device that is mounted there already, or has no file system, is refused.
Mount(x) ==
  /\ At(x, "mount")
  /\ \/ /\ Works(x) /\ disk.fs /\ ~disk.mounted
        /\ disk' = [disk EXCEPT !.mounted = TRUE]
        /\ hidden' = TRUE
        /\ Goto(x, "fstab")
     \/ /\ w[x].live /\ (disk.mounted \/ ~disk.fs)
        /\ UNCHANGED <<budget, disk, hidden>> /\ StageEnds(x)
     \/ Fails(x) /\ UNCHANGED <<disk, hidden>> /\ StageEnds(x)
  /\ UNCHANGED <<conf, fstab, agent, secretVars, using, host>>

\* Mutant of ReadFstab: an entry for another device of the same mount point does not count.
MutantReadFstab(x) ==
  /\ At(x, "fstab")
  /\ \/ Goto(x, "append") /\ UNCHANGED budget
     \/ Trouble /\ StageEnds(x)
  /\ UNCHANGED <<conf, disk, fstab, agent, secretVars, using, host, hidden>>

\* ensureFstab: reads the file ...
ReadFstab(x) ==
  /\ At(x, "fstab")
  /\ \/ /\ IF Entries > 0 THEN StageEnds(x) ELSE Goto(x, "append")
        /\ UNCHANGED budget
     \/ Trouble /\ StageEnds(x)
  /\ UNCHANGED <<conf, disk, fstab, agent, secretVars, using, host, hidden>>

\* ... and appends an entry.  Without a UUID it puts the device path in its place, behind
\* "UUID=".
AppendFstab(x) ==
  /\ At(x, "append")
  /\ \/ disk.fs /\ UNCHANGED budget /\ fstab' = [fstab EXCEPT !.uuid = @ + 1]
     \/ (IF disk.fs THEN Trouble ELSE UNCHANGED budget) /\ fstab' = [fstab EXCEPT !.path = @ + 1]
     \/ Trouble /\ UNCHANGED fstab
  /\ StageEnds(x)
  /\ UNCHANGED <<conf, disk, agent, secretVars, using, host, hidden>>

\* The client stages: what is down gets started; a client without a valid secret does not
\* run.
Started == IF Valid(secret[Shown]) THEN secret[Shown] ELSE None

StartClients(x) ==
  /\ At(x, "clients")
  /\ \/ /\ Works(x)
        /\ using' = [c \in Clients |-> IF using[c] = None THEN Started ELSE using[c]]
     \/ /\ Fails(x)
        /\ \E some \in SUBSET Clients :
             using' = [c \in Clients |-> IF using[c] = None /\ c \in some /\ w[x].live
                                         THEN Started ELSE using[c]]
  /\ disk' = [disk EXCEPT !.used = @ \/ (disk.mounted /\ using' # Down)]
  /\ w' = [w EXCEPT ![x] = Idle]
  /\ UNCHANGED <<conf, fstab, agent, secretVars, host, hidden>>

PassStep(x) ==
  \/ Resolve(x) \/ Detail(x) \/ Create(x) \/ Blkid(x) \/ Mkfs(x) \/ Findmnt(x) \/ Mount(x)
  \/ ReadFstab(x) \/ AppendFstab(x) \/ StartClients(x)

-----------------------------------------------------------------------------
(* The host.                                                               *)

\* A client exits on its own.
Exit(c) ==
  /\ using[c] # None
  /\ using' = [using EXCEPT ![c] = None]
  /\ UNCHANGED <<conf, disk, fstab, agent, secretVars, w, host, budget, hidden>>

\* The client of a request goes away: every later command of its pass fails.
LoseRequest(x) ==
  /\ x \in Requests /\ ~At(x, "idle") /\ w[x].live
  /\ Trouble
  /\ w' = [w EXCEPT ![x].live = FALSE]
  /\ UNCHANGED <<conf, disk, fstab, agent, secretVars, using, host, hidden>>

\* The agent dies; systemd starts it again.
Crash ==
  /\ agent # "off"
  /\ Trouble
  /\ agent' = "off"
  /\ w' = [x \in Workers |-> Idle]
  /\ UNCHANGED <<conf, disk, fstab, secretVars, using, host, hidden>>

\* An operator unmounts the disk, with the clients down.
Unmount ==
  /\ disk.mounted /\ using = Down
  /\ Trouble
  /\ disk' = [disk EXCEPT !.mounted = FALSE]
  /\ hidden' = TRUE
  /\ cached' = cached \ {"data"}
  /\ UNCHANGED <<conf, fstab, agent, secret, using, w, host>>

\* The kernel writes the secret to the device.
Writeback ==
  /\ cached # {}
  /\ cached' = {}
  /\ UNCHANGED <<conf, disk, fstab, agent, secret, using, w, host, budget, hidden>>

\* The host boots, also after a power cut, which leaves a new file that has not reached the
\* device empty.  An array that mdadm.conf does not list may stay unassembled; every entry
\* of fstab gets mounted, or the boot ends in the emergency shell.
Reboot ==
  /\ host = "up"
  /\ Spend("reboots", MaxReboots)
  /\ \E array \in IF disk.array = "running" /\ ~disk.saved /\ conf.raid
                  THEN {"running", "stopped"} ELSE {disk.array} :
       LET mountable == array = "running" /\ disk.fs IN
       /\ disk' = [disk EXCEPT !.array = array, !.mounted = fstab.uuid > 0 /\ mountable]
       /\ host' = IF fstab.path + fstab.stale > 0 \/ (fstab.uuid > 0 /\ ~mountable)
                  THEN "emergency" ELSE "up"
  /\ \E lost \in SUBSET cached :
       secret' = [p \in Places |-> IF p \in lost /\ secret[p] # None THEN Emptied ELSE secret[p]]
  /\ cached' = {}
  /\ agent' = "off"
  /\ using' = Down
  /\ w' = [x \in Workers |-> Idle]
  /\ hidden' = FALSE
  /\ UNCHANGED <<conf, fstab>>

Next ==
  \/ EnsureExists \/ Install \/ Crash \/ Unmount \/ Writeback \/ Reboot
  \/ \E x \in Workers : Begin(x) \/ PassStep(x)
  \/ \E x \in Requests : LoseRequest(x)
  \/ \E c \in Clients : Exit(c)

\* systemd starts the agent, its loop ticks, passes move on.
Fairness ==
  /\ WF_vars(EnsureExists)
  /\ WF_vars(Install)
  /\ WF_vars(Begin(Loop))
  /\ \A x \in Workers : WF_vars(PassStep(x))

Spec == Init /\ [][Next]_vars /\ Fairness
-----------------------------------------------------------------------------
(* Properties.                                                             *)

\* Every variable keeps its type; only a file system holds data, a secret and the UUID of an
\* entry, only an assembled array is mounted, and passes that overlap each add an entry to
\* fstab at most, later ones none.
TypeOK ==
  /\ conf \in [discover : BOOLEAN, raid : BOOLEAN]
  /\ disk \in [array : {"none", "stopped", "running"}, fs : BOOLEAN, used : BOOLEAN,
               mounted : BOOLEAN, saved : BOOLEAN]
  /\ disk.used \/ disk.mounted \/ secret["data"] # None \/ fstab.uuid > 0 => disk.fs
  /\ disk.mounted => disk.array = "running"
  /\ fstab \in [uuid : Nat, stale : Nat, path : Nat] /\ Entries <= Cardinality(Workers)
  /\ agent \in {"off", "renaming", "serving"}
  /\ secret \in [Places -> Nat] /\ cached \subseteq Places /\ using \in [Clients -> Nat]
  /\ w \in [Workers -> [pc : {"idle", "resolve", "detail", "create", "blkid", "mkfs", "findmnt",
                             "mount", "fstab", "append", "clients"},
                       live : BOOLEAN, sure : BOOLEAN]]
  /\ host \in {"up", "emergency"}
  /\ hidden \in BOOLEAN

\* "All steps are no-ops when the desired state is already present": whatever reboots,
\* crashes and overlapping passes do, the disk stage does not destroy the file system that a
\* client has used or that fstab names, unless blkid failed without a word, another pass
\* formatted the disk between a pass's blkid and its mkfs, or the array was not assembled.
DataIsKept ==
  [][(disk.used /\ ~disk'.used) \/ fstab'.stale > fstab.stale =>
       \E x \in Workers : \/ At(x, "mkfs") /\ ~w[x].sure
                          \/ At(x, "create") /\ disk.array = "stopped"]_vars

\* "Never regenerated if it already exists (breaks running consensus)": clients that run
\* were started with one secret, across restarts of the agent and of each client, unless
\* the disk was mounted or unmounted under the running host.
SecretsAgree ==
  hidden \/ \A c, d \in Clients : using[c] # None /\ using[d] # None => using[c] = using[d]

\* The secret keeps the agent down in one case only: it serves again and again, after every
\* crash and every write of the secret that failed half-way, unless the host itself does
\* not boot or a power cut has emptied the file, which nothing syncs.
AgentServes ==
  []<>(agent = "serving") \/ <>[](host = "emergency" \/ secret[Shown] = Emptied)

\* With devices that are listed, fstab has in the end an entry from which every boot mounts
\* the file system that is then on the disk, whatever failed half-way before.  The
\* exceptions: the host does not boot or its array is not assembled any more, a power cut
\* has emptied the secret, blkid had no UUID for the entry, or the disk
\* was formatted again after it (DataIsKept says when).
ProvisionedInTheEnd ==
  ~conf.discover => <>[]\/ fstab.uuid > 0
                        \/ host = "emergency" \/ disk.array = "stopped"
                        \/ secret[Shown] = Emptied
                        \/ fstab.path > 0 \/ fstab.stale > 0

\* "It is safe to call repeatedly": on a disk that is formatted, mounted and in fstab the
\* stage does not fail unless a command does.  (It does, where devices are discovered.)
SafeToRepeat ==
  [][\A x \in Workers :
       At(x, "resolve") /\ disk.mounted /\ Entries > 0 /\ w[x].live /\ UNCHANGED budget
         => w'[x].pc # "clients"]_vars
=============================================================================
