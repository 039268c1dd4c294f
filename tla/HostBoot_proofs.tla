---------------------------- MODULE HostBoot_proofs ----------------------------
(***************************************************************************)
(* Proofs about HostBoot, for any set of clients, any finite number of     *)
(* concurrent passes and any number of requests, troubles and reboots.     *)
(***************************************************************************)
EXTENDS HostBoot, FiniteSetTheorems, TLAPS

Pass == [pc : {"idle", "resolve", "detail", "create", "blkid", "mkfs", "findmnt", "mount",
               "fstab", "append", "clients"}, live : BOOLEAN, sure : BOOLEAN]

Disk == [array : {"none", "stopped", "running"}, fs : BOOLEAN, used : BOOLEAN,
         mounted : BOOLEAN, saved : BOOLEAN]

Fstab == [uuid : Nat, stale : Nat, path : Nat]

DiskTyped ==
  /\ disk \in Disk
  /\ disk.used \/ disk.mounted \/ secret["data"] # None \/ fstab.uuid > 0 => disk.fs
  /\ disk.mounted => disk.array = "running"
  /\ secret \in [Places -> Nat]

\* A pass about to append has seen no entry: each adds one of the entries there can be.
Appenders == {x \in Workers : w[x].pc = "append"}
RoomInFstab == Entries + Cardinality(Appenders) <= Cardinality(Workers)

\* A pass about to format that was told so by blkid, and was not overtaken, formats a disk
\* without a file system.
SureOfBlank == \A x \in Workers : w[x].pc = "mkfs" /\ w[x].sure => ~disk.fs

\* What runs has the secret that /data shows; one is installed only where none was.
OneSecret ==
  hidden \/ /\ \A c \in Clients : using[c] \in {None, secret[Shown]}
            /\ agent = "renaming" => secret[Shown] = None

\* A pass works on a device that is there.
Assembled ==
  /\ ~conf.raid => disk.array = "running"
  /\ \A x \in Workers : w[x].pc \in {"blkid", "mkfs", "findmnt", "mount"} => disk.array = "running"

IInv == TypeOK /\ Assembled /\ RoomInFstab /\ SureOfBlank /\ OneSecret
-----------------------------------------------------------------------------
(* How a step moves the passes.                                            *)

LEMMA Typing ==
  ASSUME TypeOK, DiskTyped', w' \in [Workers -> Pass], conf' = conf,
         fstab' \in Fstab, Entries' <= Cardinality(Workers), cached' \subseteq Places,
         agent' \in {"off", "renaming", "serving"}, using' \in [Clients -> Nat],
         host' \in {"up", "emergency"}, hidden' \in BOOLEAN
  PROVE  TypeOK'
BY DEF TypeOK, DiskTyped, Disk, Fstab, Pass

\* Pass x goes on to pc; the others are where they were.
Goes(x, pc) ==
  /\ w' \in [Workers -> Pass]
  /\ w'[x].pc = pc /\ w'[x].sure = w[x].sure
  /\ \A y \in Workers \ {x} : w'[y] = w[y]

LEMMA Going ==
  ASSUME TypeOK, NEW x \in Workers,
         NEW pc \in {"idle", "resolve", "detail", "create", "blkid", "mkfs", "findmnt", "mount",
                     "fstab", "append", "clients"},
         Goto(x, pc)
  PROVE  Goes(x, pc)
BY DEF TypeOK, Goto, Goes, Pass

\* A step that sends no pass to format or to append.
Calm ==
  /\ w' \in [Workers -> Pass]
  /\ \A y \in Workers : /\ w'[y].pc = "mkfs" => w[y].pc = "mkfs"
                        /\ w'[y].pc = "mkfs" /\ w'[y].sure => w[y].sure
                        /\ w'[y].pc = "append" => w[y].pc = "append"

LEMMA GoingCalm ==
  ASSUME TypeOK, NEW x \in Workers,
         NEW pc \in {"idle", "resolve", "detail", "create", "blkid", "findmnt", "mount", "fstab",
                     "clients"},
         Goto(x, pc)
  PROVE  Calm
BY Going DEF Goes, Calm

LEMMA CalmSteps ==
  ASSUME TypeOK,
         \/ EnsureExists \/ Install \/ Crash \/ Unmount \/ Writeback \/ Reboot
         \/ \E c \in Clients : Exit(c)
         \/ \E x \in Workers :
              \/ Begin(x) \/ Resolve(x) \/ Detail(x) \/ Create(x) \/ Mkfs(x) \/ Findmnt(x)
              \/ Mount(x) \/ AppendFstab(x) \/ StartClients(x)
         \/ \E x \in Requests : LoseRequest(x)
  PROVE  Calm
<1>t. w \in [Workers -> Pass]
  BY DEF TypeOK, Pass
<1>1. CASE UNCHANGED w
  BY <1>t, <1>1 DEF Calm
<1>2. CASE w' = [x \in Workers |-> Idle]
  BY <1>2 DEF Calm, Idle, Pass
<1>3. ASSUME NEW x \in Workers,
             \/ Begin(x) \/ Resolve(x) \/ Detail(x) \/ Create(x) \/ Findmnt(x) \/ Mount(x)
             \/ AppendFstab(x)
      PROVE  Calm
  BY <1>3, GoingCalm DEF Begin, Resolve, Detail, Create, Findmnt, Mount, AppendFstab, StageEnds
<1>4. ASSUME NEW x \in Workers, Mkfs(x) PROVE Calm
  <2>1. CASE StageEnds(x)
    BY <2>1, GoingCalm DEF StageEnds
  <2>2. CASE w' = [y \in Workers |-> IF y = x THEN [w[x] EXCEPT !.pc = "findmnt"]
                                     ELSE [w[y] EXCEPT !.sure = w[y].sure /\ w[y].pc # "mkfs"]]
    <3> SUFFICES ASSUME NEW y \in Workers
                 PROVE  /\ w'[y] \in Pass
                        /\ w'[y].pc \in {w[y].pc, "findmnt"}
                        /\ w'[y].sure => w[y].sure
      BY <2>2 DEF Calm
    <3> PICK p \in Pass, b \in BOOLEAN : p = w[y] /\ b = (w[y].sure /\ w[y].pc # "mkfs")
      BY <1>t
    <3> PICK q \in Pass : q = w[x]
      BY <1>t
    <3>1. w'[y] = IF y = x THEN [q EXCEPT !.pc = "findmnt"] ELSE [p EXCEPT !.sure = b]
      BY <2>2
    <3> QED BY <3>1 DEF Pass
  <2> QED BY <1>4, <2>1, <2>2 DEF Mkfs
<1>5. ASSUME NEW x \in Workers, StartClients(x) PROVE Calm
  BY <1>t, <1>5 DEF StartClients, Calm, Idle, Pass
<1>6. ASSUME NEW x \in Requests, LoseRequest(x) PROVE Calm
  <2>1. w' = [w EXCEPT ![x].live = FALSE]
    BY <1>6 DEF LoseRequest
  <2>2. ASSUME NEW y \in Workers
        PROVE  w'[y] \in Pass /\ w'[y].pc = w[y].pc /\ w'[y].sure = w[y].sure
    BY <1>t, <2>1, <2>2 DEF Pass
  <2>3. w' \in [Workers -> Pass]
    BY <1>t, <2>1 DEF Pass
  <2> QED BY <2>2, <2>3 DEF Calm
<1> QED BY <1>1, <1>2, <1>3, <1>4, <1>5, <1>6
        DEF EnsureExists, Install, Crash, Unmount, Writeback, Reboot, Exit

\* The steps that do send one: what blkid has said, and a read of fstab without an entry.
LEMMA OtherSteps ==
  ASSUME TypeOK, NEW x \in Workers, Blkid(x) \/ ReadFstab(x)
  PROVE  \/ Calm
         \/ Blkid(x) /\ Goes(x, "mkfs") /\ ~disk.fs
         \/ Blkid(x) /\ w' \in [Workers -> Pass] /\ w'[x].pc = "mkfs" /\ ~w'[x].sure
                     /\ \A y \in Workers \ {x} : w'[y] = w[y]
         \/ ReadFstab(x) /\ Goes(x, "append") /\ Entries = 0
<1>t. w \in [Workers -> Pass] /\ Entries \in Nat /\ disk.fs \in BOOLEAN
  BY DEF TypeOK, Pass, Entries
<1>1. CASE Blkid(x)
  <2>1. CASE w' = [w EXCEPT ![x].pc = "mkfs", ![x].sure = FALSE]
    BY <1>t, <1>1, <2>1 DEF Pass
  <2>2. CASE Goto(x, "findmnt")
    BY <2>2, GoingCalm
  <2>3. CASE Goto(x, "mkfs") /\ ~disk.fs
    BY <1>1, <2>3, Going
  <2> QED BY <1>1, <2>1, <2>2, <2>3 DEF Blkid
<1>2. CASE ReadFstab(x)
  <2>1. CASE StageEnds(x)
    BY <2>1, GoingCalm DEF StageEnds
  <2>2. CASE Goto(x, "append") /\ ~(Entries > 0)
    BY <1>t, <1>2, <2>2, Going
  <2> QED BY <1>2, <2>1, <2>2 DEF ReadFstab
<1> QED BY <1>1, <1>2

LEMMA Steps ==
  ASSUME TypeOK, Next
  PROVE  \/ Calm
         \/ \E x \in Workers :
              \/ Blkid(x) /\ Goes(x, "mkfs") /\ ~disk.fs
              \/ Blkid(x) /\ w' \in [Workers -> Pass] /\ w'[x].pc = "mkfs" /\ ~w'[x].sure
                          /\ \A y \in Workers \ {x} : w'[y] = w[y]
              \/ ReadFstab(x) /\ Goes(x, "append") /\ Entries = 0
BY CalmSteps, OtherSteps DEF Next, PassStep

-----------------------------------------------------------------------------
(* The disk and fstab.                                                     *)

\* A file system is lost with what it is for: the secret on it, and its entry in fstab.
LEMMA Losing ==
  ASSUME TypeOK, Gone
  PROVE  /\ secret' \in [Places -> Nat]
         /\ secret'["data"] = None /\ secret'["root"] = secret["root"]
         /\ fstab' \in Fstab /\ fstab'.uuid = 0 /\ fstab'.stale = fstab.stale + fstab.uuid
         /\ Entries' = Entries
<1>1. fstab \in Fstab /\ secret \in [Places -> Nat]
  BY DEF TypeOK, Fstab
<1>2. /\ fstab' \in Fstab /\ fstab'.uuid = 0 /\ fstab'.stale = fstab.stale + fstab.uuid
      /\ fstab'.path = fstab.path
  <2> PICK n \in Nat : n = fstab.stale + fstab.uuid
    BY <1>1 DEF Fstab
  <2>1. fstab' = [fstab EXCEPT !.uuid = 0, !.stale = n]
    BY DEF Gone
  <2>2. /\ fstab' \in Fstab /\ fstab'.uuid = 0 /\ fstab'.stale = n
        /\ fstab'.path = fstab.path
    BY <1>1, <2>1 DEF Fstab
  <2> QED BY <2>2
<1>3. Entries' = Entries
  BY <1>1, <1>2 DEF Entries, Fstab
<1> QED BY <1>1, <1>2, <1>3 DEF Gone, Places, None

\* What the stage does to the contents of a device, it does to one that is not mounted.
Formatted ==
  /\ ~disk.mounted /\ disk' \in Disk
  /\ ~disk'.used /\ ~disk'.mounted /\ disk'.array \in {disk.array, "running"}
  /\ Gone

\* An array is made of devices without one that runs, with the old contents or without.
LEMMA NewArray ==
  ASSUME TypeOK, NEW x \in Workers, Create(x)
  PROVE  \/ UNCHANGED <<disk, secret, fstab>>
         \/ Formatted /\ disk.array = "stopped" /\ ~disk'.fs
         \/ /\ ~disk.mounted /\ disk' \in Disk
            /\ disk'.fs = disk.fs /\ disk'.used = disk.used /\ ~disk'.mounted
            /\ disk'.array = "running"
            /\ UNCHANGED <<secret, fstab>>
<1>1. ASSUME disk.array # "running", NEW wiped \in {FALSE, disk.array = "stopped"},
             NEW base, base = (IF wiped THEN Wipe(disk) ELSE disk),
             \/ disk' = [base EXCEPT !.array = "running", !.saved = TRUE]
             \/ disk' = [base EXCEPT !.array = "running"]
      PROVE  /\ ~disk.mounted /\ disk' \in Disk /\ ~disk'.mounted /\ disk'.array = "running"
             /\ wiped => disk.array = "stopped" /\ ~disk'.fs /\ ~disk'.used
             /\ ~wiped => disk'.fs = disk.fs /\ disk'.used = disk.used
  <2>1. base \in Disk /\ ~base.mounted /\ ~disk.mounted
    BY <1>1 DEF TypeOK, Wipe, Disk
  <2>2. /\ wiped => disk.array = "stopped" /\ ~base.fs /\ ~base.used
        /\ ~wiped => base.fs = disk.fs /\ base.used = disk.used
    BY <1>1 DEF TypeOK, Wipe
  <2> QED BY <1>1, <2>1, <2>2 DEF Disk
<1>2. CASE disk.array # "running" /\ \E wiped \in {FALSE, disk.array = "stopped"} :
             LET base == IF wiped THEN Wipe(disk) ELSE disk IN
             /\ \/ disk' = [base EXCEPT !.array = "running", !.saved = TRUE]
                \/ disk' = [base EXCEPT !.array = "running"]
             /\ IF wiped THEN Gone ELSE UNCHANGED <<secret, fstab>>
  BY <1>1, <1>2 DEF Formatted
<1> QED BY <1>2 DEF Create

\* mkfs makes a file system of what is not mounted, or leaves nothing.
LEMMA NewFs ==
  ASSUME TypeOK, NEW x \in Workers, Mkfs(x)
  PROVE  \/ UNCHANGED <<disk, secret, fstab>>
         \/ Formatted /\ disk'.array = disk.array
<1>1. CASE disk' = [Wipe(disk) EXCEPT !.fs = TRUE] /\ Gone /\ ~disk.mounted
  BY <1>1 DEF TypeOK, Wipe, Formatted, Disk
<1>2. CASE disk' = Wipe(disk) /\ Gone /\ ~disk.mounted
  BY <1>2 DEF TypeOK, Wipe, Formatted, Disk
<1> QED BY <1>1, <1>2 DEF Mkfs

LEMMA DiskStep == ASSUME TypeOK, Assembled, Next PROVE DiskTyped'
<1>t. DiskTyped /\ conf.raid \in BOOLEAN /\ using \in [Clients -> Nat] /\ fstab \in Fstab
  BY DEF TypeOK, DiskTyped, Disk, Fstab
<1>1. CASE UNCHANGED <<disk, secret, fstab>>
  BY <1>t, <1>1 DEF DiskTyped
<1>2. CASE Install
  <2> PICK n \in Nat : n = NewSecret
    BY <1>t DEF NewSecret, DiskTyped, Valid, CutOff, Places
  <2>1. /\ disk' = disk /\ fstab' = fstab
        /\ secret' = secret \/ secret' = [secret EXCEPT ![Shown] = n]
    BY <1>2 DEF Install, secretVars
  <2> QED BY <1>t, <2>1 DEF DiskTyped, Places, Shown, None
<1>3. CASE Unmount
  BY <1>t, <1>3 DEF Unmount, DiskTyped, Disk
<1>4. CASE Reboot
  <2>1. secret' \in [Places -> Nat] /\ (secret'["data"] # None => secret["data"] # None)
    BY <1>t, <1>4 DEF Reboot, DiskTyped, Emptied, None, Places
  <2>2. PICK array \in {"none", "stopped", "running"} :
          disk' = [disk EXCEPT !.array = array,
                               !.mounted = fstab.uuid > 0 /\ array = "running" /\ disk.fs]
    BY <1>t, <1>4 DEF Reboot, DiskTyped, Disk
  <2>3. fstab' = fstab
    BY <1>4 DEF Reboot
  <2> QED BY <1>t, <2>1, <2>2, <2>3 DEF DiskTyped, Disk
<1>5. CASE Formatted
  BY <1>t, <1>5, Losing DEF Formatted, DiskTyped, Fstab
<1>6. ASSUME NEW x \in Workers, Create(x) PROVE DiskTyped'
  BY <1>t, <1>1, <1>5, <1>6, NewArray DEF DiskTyped
<1>7. ASSUME NEW x \in Workers, Mkfs(x) PROVE DiskTyped'
  BY <1>1, <1>5, <1>7, NewFs
<1>8. ASSUME NEW x \in Workers, Mount(x) PROVE DiskTyped'
  BY <1>t, <1>8 DEF Mount, At, Assembled, DiskTyped, Disk, secretVars
<1>9. ASSUME NEW x \in Workers, StartClients(x) PROVE DiskTyped'
  <2> PICK b \in BOOLEAN : b = (disk.used \/ (disk.mounted /\ using' # Down))
    OBVIOUS
  <2>1. disk' = [disk EXCEPT !.used = b] /\ UNCHANGED <<secret, fstab>> /\ (b => disk.fs)
    BY <1>t, <1>9 DEF StartClients, DiskTyped, secretVars
  <2> QED BY <1>t, <2>1 DEF DiskTyped, Disk
<1>10. ASSUME NEW x \in Workers, AppendFstab(x) PROVE DiskTyped'
  <2>1. UNCHANGED <<disk, secret>> /\ (fstab'.uuid = fstab.uuid \/ disk.fs)
    BY <1>t, <1>10 DEF AppendFstab, secretVars, Fstab
  <2> QED BY <1>t, <2>1 DEF DiskTyped
<1>11. CASE Writeback \/ EnsureExists \/ Crash \/ (\E x \in Workers : Begin(x))
            \/ (\E x \in Requests : LoseRequest(x)) \/ (\E c \in Clients : Exit(c))
  BY <1>1, <1>11 DEF Writeback, EnsureExists, Crash, Begin, LoseRequest, Exit, secretVars
<1>12. ASSUME NEW x \in Workers,
              Resolve(x) \/ Detail(x) \/ Blkid(x) \/ Findmnt(x) \/ ReadFstab(x)
       PROVE  DiskTyped'
  BY <1>1, <1>12 DEF Resolve, Detail, Blkid, Findmnt, ReadFstab, secretVars
<1> QED BY <1>2, <1>3, <1>4, <1>6, <1>7, <1>8, <1>9, <1>10, <1>11, <1>12 DEF Next, PassStep

Working == {"blkid", "mkfs", "findmnt", "mount"}

LEMMA WorkingStep ==
  ASSUME TypeOK, Next, NEW y \in Workers, w'[y].pc \in Working, w[y].pc \notin Working
  PROVE  Resolve(y) \/ Detail(y) \/ Create(y)
<1>t. w \in [Workers -> Pass]
  BY DEF TypeOK, Pass
<1>1. ~UNCHANGED w /\ w' # [x \in Workers |-> Idle]
  BY DEF Working, Idle
<1>2. ASSUME NEW x \in Workers, Begin(x) \/ PassStep(x), x # y PROVE FALSE
  <2>1. ASSUME Mkfs(x), ~StageEnds(x) PROVE FALSE
    <3>1. w'[y] = [w[y] EXCEPT !.sure = w[y].sure /\ w[y].pc # "mkfs"]
      BY <1>2, <2>1 DEF Mkfs
    <3> PICK p \in Pass, b \in BOOLEAN : p = w[y] /\ b = (w[y].sure /\ w[y].pc # "mkfs")
      BY <1>t
    <3>2. w'[y].pc = p.pc
      BY <3>1 DEF Pass
    <3> QED BY <3>2
  <2>2. w'[y] = w[y]
    BY <1>t, <1>2, <2>1 DEF Begin, PassStep, Resolve, Detail, Create, Blkid, Mkfs, Findmnt, Mount,
                            ReadFstab, AppendFstab, StartClients, StageEnds, Goto
  <2> QED BY <2>2
<1>3. ASSUME Begin(y) \/ Blkid(y) \/ Mkfs(y) \/ Findmnt(y) \/ Mount(y) \/ ReadFstab(y)
             \/ AppendFstab(y) \/ StartClients(y)
      PROVE  FALSE
  BY <1>t, <1>3 DEF Begin, Blkid, Mkfs, Findmnt, Mount, ReadFstab, AppendFstab, StartClients,
                    StageEnds, Goto, At, Idle, Working, Pass
<1>4. ASSUME NEW x \in Requests, LoseRequest(x) PROVE FALSE
  BY <1>t, <1>4 DEF LoseRequest, Pass
<1> QED BY <1>1, <1>2, <1>3, <1>4
        DEF Next, PassStep, EnsureExists, Install, Crash, Unmount, Writeback, Reboot, Exit

LEMMA AssembledStep == ASSUME TypeOK, Assembled, Next PROVE Assembled'
<1>t. disk.array \in {"none", "stopped", "running"} /\ conf.raid \in BOOLEAN
  BY DEF TypeOK
<1>1. CASE Reboot
  <2>1. ~conf.raid => disk'.array = "running"
    BY <1>t, <1>1 DEF Reboot, TypeOK, Assembled
  <2>2. \A x \in Workers : w'[x].pc = "idle"
    BY <1>1 DEF Reboot, Idle
  <2> QED BY <1>1, <2>1, <2>2 DEF Reboot, Assembled
<1>2. ASSUME ~Reboot PROVE conf' = conf /\ (disk'.array = disk.array \/ disk'.array = "running")
  <2>1. ASSUME NEW x \in Workers, Create(x)
        PROVE  disk'.array = disk.array \/ disk'.array = "running"
    BY <2>1, NewArray DEF Formatted
  <2>2. ASSUME NEW x \in Workers, Mkfs(x) PROVE disk'.array = disk.array
    BY <2>2, NewFs
  <2>3. ASSUME \A x \in Workers : ~Create(x) /\ ~Mkfs(x) PROVE disk'.array = disk.array
    BY <1>2, <2>3 DEF Next, PassStep, EnsureExists, Install, Crash, Unmount, Writeback, Begin,
         LoseRequest, Exit, Resolve, Detail, Blkid, Findmnt, Mount, ReadFstab, AppendFstab,
         StartClients, TypeOK
  <2>4. conf' = conf
    BY <1>2 DEF Next, PassStep, EnsureExists, Install, Crash, Unmount, Writeback, Begin,
         LoseRequest, Exit, Resolve, Detail, Create, Blkid, Mkfs, Findmnt, Mount, ReadFstab,
         AppendFstab, StartClients
  <2> QED BY <2>1, <2>2, <2>3, <2>4
<1>3. ASSUME ~Reboot, NEW x \in Workers, w'[x].pc \in Working PROVE disk'.array = "running"
  <2>1. CASE w[x].pc \in Working
    BY <1>2, <1>3, <2>1 DEF Assembled, Working
  <2>2. CASE Resolve(x)
    BY <1>t, <1>3, <2>2, Going DEF Resolve, StageEnds, Goes, Working, Assembled
  <2>3. CASE Detail(x)
    BY <1>t, <1>3, <2>3, Going DEF Detail, Goes, Working
  <2>4. CASE Create(x)
    <3>1. CASE StageEnds(x)
      BY <1>3, <3>1, Going DEF StageEnds, Goes, Working
    <3>2. CASE ~StageEnds(x)
      BY <2>4, <3>2 DEF Create, TypeOK, Wipe
    <3> QED BY <3>1, <3>2
  <2> QED BY <1>3, <2>1, <2>2, <2>3, <2>4, WorkingStep
<1>4. ASSUME ~Reboot PROVE ~conf'.raid => disk'.array = "running"
  BY <1>2, <1>4 DEF Assembled
<1> QED BY <1>1, <1>3, <1>4 DEF Assembled, Working

LEMMA Finite ==
  ASSUME NEW S \in SUBSET Workers
  PROVE  IsFiniteSet(S) /\ Cardinality(S) \in Nat /\ Cardinality(S) <= Cardinality(Workers)
<1>1. IsFiniteSet(Workers)
  <2>1. IsFiniteSet({Loop})
    BY FS_Singleton
  <2> QED BY <2>1, FS_Union, WorkersAssumption DEF Workers
<1> QED BY <1>1, FS_Subset, FS_CardinalityType

LEMMA FstabStep ==
  ASSUME TypeOK, RoomInFstab, Next
  PROVE  fstab' \in Fstab /\ RoomInFstab' /\ Entries' <= Cardinality(Workers)
<1>t. /\ w \in [Workers -> Pass] /\ fstab \in Fstab /\ Entries \in Nat
      /\ Cardinality(Workers) \in Nat /\ Cardinality(Appenders) \in Nat
      /\ Appenders' \in SUBSET Workers /\ Appenders \in SUBSET Workers
  BY Finite DEF TypeOK, Pass, Fstab, Entries, Appenders
<1>f. /\ Cardinality(Appenders') \in Nat /\ Cardinality(Appenders') <= Cardinality(Workers)
      /\ IsFiniteSet(Appenders)
  <2> PICK T \in SUBSET Workers : T = Appenders'
    BY <1>t
  <2> QED BY <1>t, Finite
<1>r. ASSUME Entries' \in Nat, Entries' + Cardinality(Appenders') <= Cardinality(Workers)
      PROVE  RoomInFstab' /\ Entries' <= Cardinality(Workers)
  BY <1>t, <1>f, <1>r DEF RoomInFstab
<1>1. ASSUME Entries' = Entries, Appenders' \subseteq Appenders
      PROVE  RoomInFstab' /\ Entries' <= Cardinality(Workers)
  <2>1. Cardinality(Appenders') <= Cardinality(Appenders)
    BY <1>f, <1>1, FS_Subset
  <2> QED BY <1>t, <1>f, <1>r, <1>1, <2>1 DEF RoomInFstab
<1>2. ASSUME Entries' = Entries, Entries = 0
      PROVE  RoomInFstab' /\ Entries' <= Cardinality(Workers)
  BY <1>t, <1>f, <1>r, <1>2
<1>3. ASSUME NEW x \in Workers, AppendFstab(x)
      PROVE  /\ fstab' \in Fstab
             /\ RoomInFstab' /\ Entries' <= Cardinality(Workers)
  <2>1. fstab' \in Fstab /\ Entries' \in Nat /\ Entries' <= Entries + 1
    BY <1>t, <1>3 DEF AppendFstab, Entries, Fstab
  <2>2. Goes(x, "clients")
    BY <1>3, Going DEF AppendFstab, StageEnds
  <2>3. x \in Appenders /\ Appenders' = Appenders \ {x}
    BY <1>3, <2>2 DEF AppendFstab, At, Appenders, Goes
  <2>4. Cardinality(Appenders') = Cardinality(Appenders) - 1
    BY <1>f, <2>3, FS_RemoveElement
  <2> QED BY <1>t, <1>f, <1>r, <2>1, <2>4 DEF RoomInFstab
<1>4. ASSUME \A x \in Workers : ~AppendFstab(x)
      PROVE  fstab' \in Fstab /\ Entries' = Entries
  <2>1. CASE UNCHANGED fstab
    BY <1>t, <2>1 DEF Entries
  <2>2. ASSUME NEW x \in Workers, Create(x) \/ Mkfs(x) PROVE UNCHANGED fstab \/ Gone
    BY <2>2, NewArray, NewFs DEF Formatted
  <2>3. ASSUME \A x \in Workers : ~Create(x) /\ ~Mkfs(x) PROVE UNCHANGED fstab
    BY <1>4, <2>3 DEF Next, PassStep, EnsureExists, Install, Crash, Unmount, Writeback, Reboot,
         Begin, LoseRequest, Exit, Resolve, Detail, Blkid, Findmnt, Mount, ReadFstab, StartClients
  <2> QED BY <2>1, <2>2, <2>3, Losing
<1>5. CASE Calm /\ \A x \in Workers : ~AppendFstab(x)
  <2>1. Appenders' \subseteq Appenders
    BY <1>5 DEF Calm, Appenders
  <2> QED BY <1>1, <1>4, <1>5, <2>1
<1>6. ASSUME ~Calm, \A x \in Workers : ~AppendFstab(x)
      PROVE  RoomInFstab' /\ Entries' <= Cardinality(Workers)
  <2>1. PICK x \in Workers :
          \/ w' \in [Workers -> Pass] /\ w'[x].pc = "mkfs" /\ \A y \in Workers \ {x} : w'[y] = w[y]
          \/ Entries = 0
    BY <1>6, Steps DEF Goes
  <2>2. ASSUME w' \in [Workers -> Pass], w'[x].pc = "mkfs", \A y \in Workers \ {x} : w'[y] = w[y]
        PROVE  Appenders' \subseteq Appenders
    BY <2>2 DEF Appenders
  <2> QED BY <1>1, <1>2, <1>4, <1>6, <2>1, <2>2
<1> QED BY <1>3, <1>4, <1>5, <1>6

-----------------------------------------------------------------------------
(* The contents of the disk.                                               *)

\* Only a format, or another array, changes whether there is a file system.
LEMMA Formats ==
  ASSUME TypeOK, Next, disk'.fs, ~disk.fs
  PROVE  \E x \in Workers :
           Mkfs(x) /\ w' = [y \in Workers |-> IF y = x THEN [w[x] EXCEPT !.pc = "findmnt"]
                                ELSE [w[y] EXCEPT !.sure = w[y].sure /\ w[y].pc # "mkfs"]]
<1>1. ASSUME NEW x \in Workers, Mkfs(x)
      PROVE  w' = [y \in Workers |-> IF y = x THEN [w[x] EXCEPT !.pc = "findmnt"]
                                ELSE [w[y] EXCEPT !.sure = w[y].sure /\ w[y].pc # "mkfs"]]
  BY <1>1 DEF Mkfs, Wipe, TypeOK
<1>2. ASSUME NEW x \in Workers, Create(x) PROVE FALSE
  BY <1>2, NewArray DEF Formatted
<1> QED BY <1>1, <1>2
        DEF Next, PassStep, EnsureExists, Install, Crash, Unmount, Writeback, Reboot, Begin,
            LoseRequest, Exit, Resolve, Detail, Blkid, Findmnt, Mount, ReadFstab, AppendFstab,
            StartClients, TypeOK

LEMMA SureStep == ASSUME TypeOK, SureOfBlank, Next PROVE SureOfBlank'
<1>t. w \in [Workers -> Pass]
  BY DEF TypeOK, Pass
<1>1. CASE disk'.fs /\ ~disk.fs
  <2>1. PICK x \in Workers :
           w' = [y \in Workers |-> IF y = x THEN [w[x] EXCEPT !.pc = "findmnt"]
                                ELSE [w[y] EXCEPT !.sure = w[y].sure /\ w[y].pc # "mkfs"]]
    BY <1>1, Formats
  <2> SUFFICES ASSUME NEW y \in Workers PROVE ~(w'[y].pc = "mkfs" /\ w'[y].sure)
    BY DEF SureOfBlank
  <2> PICK p \in Pass, b \in BOOLEAN : p = w[y] /\ b = (w[y].sure /\ w[y].pc # "mkfs")
    BY <1>t
  <2>2. CASE y = x
    BY <2>1, <2>2 DEF Pass
  <2>3. CASE y # x
    <3>1. w'[y] = [p EXCEPT !.sure = b]
      BY <2>1, <2>3
    <3> QED BY <3>1 DEF Pass
  <2> QED BY <2>2, <2>3
<1>2. CASE ~(disk'.fs /\ ~disk.fs) /\ Calm
  BY <1>2 DEF SureOfBlank, Calm
<1>3. ASSUME ~(disk'.fs /\ ~disk.fs), NEW x \in Workers, Goes(x, "mkfs"), ~disk.fs
      PROVE  SureOfBlank'
  BY <1>3 DEF SureOfBlank, Goes
<1>4. ASSUME ~(disk'.fs /\ ~disk.fs), NEW x \in Workers, ~w'[x].sure,
             \A y \in Workers \ {x} : w'[y] = w[y]
      PROVE  SureOfBlank'
  BY <1>4 DEF SureOfBlank
<1>5. ASSUME ~(disk'.fs /\ ~disk.fs), NEW x \in Workers, Goes(x, "append")
      PROVE  SureOfBlank'
  BY <1>5 DEF SureOfBlank, Goes
<1> QED BY <1>1, <1>2, <1>3, <1>4, <1>5, Steps

\* A step that loses what a client has used, or fstab names, is a format that was not sure,
\* or an array made over one that was not assembled.
KeepsData ==
  (disk.used /\ ~disk'.used) \/ fstab'.stale > fstab.stale =>
    \E x \in Workers : \/ At(x, "mkfs") /\ ~w[x].sure
                       \/ At(x, "create") /\ disk.array = "stopped"

LEMMA DataStep == ASSUME TypeOK, SureOfBlank, Next PROVE KeepsData
<1>t. fstab \in Fstab /\ disk \in Disk /\ (disk.used \/ fstab.uuid > 0 => disk.fs)
  BY DEF TypeOK, Fstab, Disk
<1>1. CASE fstab'.stale = fstab.stale /\ disk'.used = disk.used
  BY <1>t, <1>1 DEF KeepsData, Fstab
<1>2. CASE Formatted /\ ~disk.fs
  BY <1>t, <1>2, Losing DEF Formatted, KeepsData, Fstab, Disk
<1>3. ASSUME NEW x \in Workers, Mkfs(x) PROVE KeepsData
  <2>1. At(x, "mkfs") /\ (w[x].sure => ~disk.fs)
    BY <1>3 DEF Mkfs, At, SureOfBlank
  <2>2. CASE UNCHANGED <<disk, secret, fstab>>
    BY <1>1, <2>2
  <2>3. CASE Formatted /\ ~w[x].sure
    BY <2>1, <2>3 DEF KeepsData
  <2> QED BY <1>2, <1>3, <2>1, <2>2, <2>3, NewFs
<1>4. ASSUME NEW x \in Workers, Create(x) PROVE KeepsData
  <2>1. At(x, "create")
    BY <1>4 DEF Create
  <2>2. CASE disk'.used = disk.used /\ UNCHANGED fstab
    BY <1>1, <2>2
  <2>3. CASE disk.array = "stopped"
    BY <2>1, <2>3 DEF KeepsData
  <2> QED BY <1>4, <2>2, <2>3, NewArray
<1>5. ASSUME NEW x \in Workers, StartClients(x) PROVE KeepsData
  BY <1>t, <1>5 DEF StartClients, KeepsData, Disk, Fstab
<1>6. ASSUME NEW x \in Workers, AppendFstab(x) PROVE KeepsData
  BY <1>1, <1>t, <1>6 DEF AppendFstab, Fstab
<1>7. ASSUME NEW x \in Workers, Mount(x) PROVE KeepsData
  BY <1>1, <1>t, <1>7 DEF Mount, Disk
<1>8. CASE Reboot \/ Unmount
  BY <1>1, <1>t, <1>8 DEF Reboot, Unmount, Disk
<1>9. CASE Writeback \/ EnsureExists \/ Install \/ Crash \/ (\E x \in Workers : Begin(x))
           \/ (\E x \in Requests : LoseRequest(x)) \/ (\E c \in Clients : Exit(c))
  BY <1>1, <1>9 DEF Writeback, EnsureExists, Install, Crash, Begin, LoseRequest, Exit
<1>10. ASSUME NEW x \in Workers,
              Resolve(x) \/ Detail(x) \/ Blkid(x) \/ Findmnt(x) \/ ReadFstab(x)
       PROVE  KeepsData
  BY <1>1, <1>10 DEF Resolve, Detail, Blkid, Findmnt, ReadFstab
<1> QED BY <1>3, <1>4, <1>5, <1>6, <1>7, <1>8, <1>9, <1>10 DEF Next, PassStep

-----------------------------------------------------------------------------
(* The secret.                                                             *)

\* The secret that /data shows changes by an Install, a Reboot or under hidden only: the
\* disk stage never touches a disk that is mounted.
LEMMA ShownStays ==
  ASSUME TypeOK, Next, ~Install, ~Reboot, ~hidden'
  PROVE  ~hidden /\ secret'[Shown'] = secret[Shown]
<1>t. /\ disk.mounted \in BOOLEAN /\ disk.array \in {"none", "stopped", "running"}
      /\ disk.mounted => disk.array = "running"
      /\ secret \in [Places -> Nat] /\ hidden \in BOOLEAN
  BY DEF TypeOK
<1>1. ASSUME UNCHANGED <<hidden, secret>>, disk'.mounted = disk.mounted
      PROVE  ~hidden /\ secret'[Shown'] = secret[Shown]
  BY <1>1 DEF Shown
<1>2. ASSUME UNCHANGED hidden, ~disk.mounted, ~disk'.mounted,
             secret' = secret \/ secret'["root"] = secret["root"]
      PROVE  ~hidden /\ secret'[Shown'] = secret[Shown]
  BY <1>2 DEF Shown
<1>3. ASSUME NEW x \in Workers, Create(x)
      PROVE  ~hidden /\ secret'[Shown'] = secret[Shown]
  <2>1. UNCHANGED hidden
    BY <1>3 DEF Create
  <2> QED BY <1>1, <1>2, <1>3, <2>1, NewArray, Losing DEF Formatted
<1>4. ASSUME NEW x \in Workers, Mkfs(x)
      PROVE  ~hidden /\ secret'[Shown'] = secret[Shown]
  <2>1. UNCHANGED hidden
    BY <1>4 DEF Mkfs
  <2> QED BY <1>1, <1>2, <1>4, <2>1, NewFs, Losing DEF Formatted
<1>5. ASSUME NEW x \in Workers, Mount(x)
      PROVE  UNCHANGED <<hidden, secret>> /\ disk'.mounted = disk.mounted
  BY <1>5 DEF Mount, secretVars
<1>6. ASSUME NEW x \in Workers, StartClients(x)
      PROVE  UNCHANGED <<hidden, secret>> /\ disk'.mounted = disk.mounted
  BY <1>6 DEF StartClients, TypeOK, secretVars
<1>7. ASSUME \/ EnsureExists \/ Crash \/ Writeback \/ \E c \in Clients : Exit(c)
             \/ \E x \in Requests : LoseRequest(x)
             \/ \E x \in Workers :
                  \/ Begin(x) \/ Resolve(x) \/ Detail(x) \/ Blkid(x) \/ Findmnt(x)
                  \/ ReadFstab(x) \/ AppendFstab(x)
      PROVE  UNCHANGED <<hidden, secret>> /\ disk'.mounted = disk.mounted
  BY <1>7 DEF EnsureExists, Crash, Writeback, Exit, LoseRequest, Begin, Resolve, Detail, Blkid,
              Findmnt, ReadFstab, AppendFstab, secretVars
<1>8. ~Unmount
  BY DEF Unmount
<1> QED BY <1>1, <1>3, <1>4, <1>5, <1>6, <1>7, <1>8 DEF Next, PassStep

LEMMA SecretStep == ASSUME TypeOK, OneSecret, Next PROVE OneSecret'
<1>t. using \in [Clients -> Nat] /\ secret \in [Places -> Nat] /\ Shown \in Places
  BY DEF TypeOK, Shown, Places
<1>1. CASE hidden'
  BY <1>1 DEF OneSecret
<1>2. CASE Reboot
  BY <1>2 DEF Reboot, OneSecret, Down
<1>3. CASE Install /\ ~hidden'
  <2>1. ~hidden /\ secret[Shown] = None /\ using' = using
    BY <1>3 DEF Install, OneSecret
  <2>2. \A c \in Clients : using'[c] = None
    BY <2>1 DEF OneSecret
  <2>3. agent' # "renaming"
    BY <1>3 DEF Install
  <2> QED BY <2>2, <2>3 DEF OneSecret
<1>4. CASE ~hidden' /\ ~Install /\ ~Reboot
  <2>1. ~hidden /\ secret'[Shown'] = secret[Shown]
    BY <1>4, ShownStays
  <2>2. \A c \in Clients : using'[c] \in {None, using[c], secret[Shown]}
    <3>1. ASSUME NEW x \in Workers, StartClients(x), NEW c \in Clients
          PROVE  using'[c] \in {None, using[c], secret[Shown]}
      BY <1>t, <3>1 DEF StartClients, Started
    <3>2. ASSUME NEW d \in Clients, Exit(d), NEW c \in Clients
          PROVE  using'[c] \in {None, using[c], secret[Shown]}
      BY <1>t, <3>2 DEF Exit
    <3>3. ASSUME ~\E x \in Workers : StartClients(x), ~\E d \in Clients : Exit(d)
          PROVE  UNCHANGED using
      BY <1>4, <3>3 DEF Next, PassStep, EnsureExists, Crash, Unmount, Writeback, Begin,
           LoseRequest, Resolve, Detail, Create, Blkid, Mkfs, Findmnt, Mount, ReadFstab,
           AppendFstab
    <3> QED BY <3>1, <3>2, <3>3
  <2>3. agent' = "renaming" => secret[Shown] = None
    <3>1. EnsureExists \/ agent' = agent \/ agent' = "off"
      BY <1>4 DEF Next, PassStep, Crash, Unmount, Writeback, Begin, LoseRequest, Exit, Resolve,
           Detail, Create, Blkid, Mkfs, Findmnt, Mount, ReadFstab, AppendFstab, StartClients
    <3> QED BY <2>1, <3>1 DEF EnsureExists, OneSecret
  <2> QED BY <2>1, <2>2, <2>3 DEF OneSecret
<1> QED BY <1>1, <1>2, <1>3, <1>4

LEMMA RestStep ==
  ASSUME TypeOK, Next
  PROVE  /\ conf' = conf
         /\ agent' \in {"off", "renaming", "serving"} /\ using' \in [Clients -> Nat]
         /\ cached' \subseteq Places
         /\ host' \in {"up", "emergency"} /\ hidden' \in BOOLEAN
<1>t. /\ using \in [Clients -> Nat] /\ None \in Nat /\ Started \in Nat
      /\ Shown \in Places /\ cached \subseteq Places
  BY DEF TypeOK, Shown, Started, Places, None
<1>1. ASSUME NEW x \in Workers, StartClients(x) PROVE using' \in [Clients -> Nat]
  BY <1>t, <1>1 DEF StartClients
<1>2. ASSUME ~\E x \in Workers : StartClients(x) PROVE using' \in [Clients -> Nat]
  BY <1>t, <1>2 DEF Next, PassStep, EnsureExists, Install, Crash, Unmount, Writeback, Reboot,
       Begin, LoseRequest, Exit, Resolve, Detail, Create, Blkid, Mkfs, Findmnt, Mount, ReadFstab,
       AppendFstab, Down
<1>3. conf' = conf /\ host' \in {"up", "emergency"} /\ hidden' \in BOOLEAN
  BY DEF TypeOK, Next, PassStep, EnsureExists, Install, Crash, Unmount, Writeback, Reboot, Begin,
       LoseRequest, Exit, Resolve, Detail, Create, Blkid, Mkfs, Findmnt, Mount, ReadFstab,
       AppendFstab, StartClients
<1>4. agent' \in {"off", "renaming", "serving"}
  BY DEF TypeOK, Next, PassStep, EnsureExists, Install, Crash, Unmount, Writeback, Reboot, Begin,
       LoseRequest, Exit, Resolve, Detail, Create, Blkid, Mkfs, Findmnt, Mount, ReadFstab,
       AppendFstab, StartClients
<1>5. cached' \subseteq Places
  BY <1>t DEF Next, PassStep, EnsureExists, Install, Crash, Unmount, Writeback, Reboot, Begin,
       LoseRequest, Exit, Resolve, Detail, Create, Blkid, Mkfs, Findmnt, Mount, ReadFstab,
       AppendFstab, StartClients, secretVars
<1> QED BY <1>1, <1>2, <1>3, <1>4, <1>5

-----------------------------------------------------------------------------
(* The theorems.                                                           *)

LEMMA InitIInv == ASSUME Init PROVE IInv
<1>1. Entries = 0 /\ Appenders = {} /\ Cardinality(Appenders) = 0
  <2>1. Entries = 0 /\ Appenders = {}
    BY DEF Init, Idle, Entries, Appenders
  <2> QED BY <2>1, FS_EmptySet
<1>2. RoomInFstab /\ Entries <= Cardinality(Workers)
  BY <1>1, Finite DEF RoomInFstab
<1>3. TypeOK
  <2>1. DiskTyped
    BY DEF Init, DiskTyped, Disk, Places, None
  <2> QED BY <1>2, <2>1 DEF Init, TypeOK, DiskTyped, Disk, Idle, Down, None
<1>4. Assembled /\ SureOfBlank /\ OneSecret
  BY DEF Init, Idle, Down, Assembled, SureOfBlank, OneSecret
<1> QED BY <1>2, <1>3, <1>4 DEF IInv

LEMMA NextIInv == ASSUME IInv, Next PROVE IInv' /\ KeepsData
<1> USE DEF IInv
<1>1. fstab' \in Fstab /\ RoomInFstab' /\ Entries' <= Cardinality(Workers)
  BY FstabStep
<1>2. w' \in [Workers -> Pass]
  BY Steps DEF Calm, Goes
<1>3. TypeOK'
  BY <1>1, <1>2, DiskStep, RestStep, Typing
<1> QED BY <1>1, <1>3, AssembledStep, SureStep, SecretStep, DataStep

LEMMA StutterIInv == ASSUME IInv, UNCHANGED vars PROVE IInv' /\ KeepsData
<1>1. KeepsData
  <2>1. fstab.stale \in Nat
    BY DEF IInv, TypeOK
  <2> QED BY <2>1 DEF vars, KeepsData
<1>2. IInv'
  BY DEF vars, IInv, TypeOK, Assembled, RoomInFstab, SureOfBlank, OneSecret, Appenders, Entries,
       Shown
<1> QED BY <1>1, <1>2

\* The strengthened invariant holds in every reachable state.
THEOREM Invariance == Spec => []IInv
<1>1. IInv /\ [Next]_vars => IInv'
  BY NextIInv, StutterIInv
<1> QED BY <1>1, InitIInv, PTL DEF Spec

\* Types; in particular fstab gets at most one entry of each concurrent pass, whatever the
\* number of reboots, crashes and requests (disk.Reconcile's "safe to call repeatedly").
THEOREM TypeCorrect == Spec => []TypeOK
<1>1. IInv => TypeOK
  BY DEF IInv
<1> QED BY <1>1, Invariance, PTL

\* Clients that run share one secret as long as nothing is mounted or unmounted under the
\* agent: EnsureExists "never regenerates" one that /data shows.
THEOREM SecretsShared == Spec => []SecretsAgree
<1>1. IInv => SecretsAgree
  BY DEF IInv, OneSecret, SecretsAgree
<1> QED BY <1>1, Invariance, PTL

\* The disk stage destroys no file system that a client has used or that fstab names, but for
\* the named exceptions: every other format follows a blkid that saw a blank device.
THEOREM DataKept == Spec => DataIsKept
<1>1. IInv /\ [Next]_vars => KeepsData
  BY NextIInv, StutterIInv
<1>2. KeepsData => [(disk.used /\ ~disk'.used) \/ fstab'.stale > fstab.stale =>
                      \E x \in Workers : \/ At(x, "mkfs") /\ ~w[x].sure
                                         \/ At(x, "create") /\ disk.array = "stopped"]_vars
  BY DEF KeepsData
<1> QED BY <1>1, <1>2, Invariance, PTL DEF Spec, DataIsKept
=============================================================================
