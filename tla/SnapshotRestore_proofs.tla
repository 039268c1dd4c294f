------------------------ MODULE SnapshotRestore_proofs ------------------------
(***************************************************************************)
(* Proofs about SnapshotRestore, for any number of datadirs, servers that  *)
(* never answer, concurrent passes and troubles.                           *)
(***************************************************************************)
EXTENDS SnapshotRestore, TLAPS

Pass == [pc : {"idle", "look", "discover", "prepare", "checksum", "stream", "stuck", "mark",
               "client"},
         at : 1 .. Len(Dirs), live : BOOLEAN, wrote : BOOLEAN]

\* TypeOK, with the domain of w.
Typed == TypeOK /\ w \in [Workers -> Pass]

IsRestoring(x) == w[x].pc \in {"discover", "prepare", "checksum", "stream", "stuck"}

\* Two passes that are restoring one datadir have crossed.
TwoCross ==
  \A x, y \in Workers :
    x # y /\ IsRestoring(x) /\ IsRestoring(y) /\ Dir(x) = Dir(y) => Dir(x) \in crossed

\* A client that runs while its datadir is being restored has crossed, too.
RunningCrosses == \A x \in Workers : IsRestoring(x) /\ Dir(x) \in running => Dir(x) \in crossed

\* Until a pass's tar writes its datadir is as empty as the pass has found it.
StillEmpty ==
  \A x \in Workers : IsRestoring(x) /\ ~w[x].wrote => Empty(Dir(x)) \/ Dir(x) \in crossed

\* What a pass is about to mark is whole.
WholeAtMark ==
  \A x \in Workers : w[x].pc = "mark" => files[Dir(x)] = "all" \/ Dir(x) \in mixed

IInv ==
  /\ Typed
  /\ TwoCross /\ RunningCrosses /\ StillEmpty /\ WholeAtMark
  /\ MarkedIsWhole /\ MixedOnlyByCrossing
-----------------------------------------------------------------------------
(* How steps move the passes.                                              *)

\* What a step of pass x leaves alone: the other passes.
Others(x) == w' \in [Workers -> Pass] /\ \A y \in Workers \ {x} : w'[y] = w[y]

\* x leaves the datadir it is at, and is not about to mark another.
Leaves(x) == Others(x) /\ ~IsRestoring(x)' /\ w'[x].pc # "mark"

\* x stays at its datadir.
Stays(x, pc) ==
  Others(x) /\ w'[x].pc = pc /\ w'[x].at = w[x].at /\ w'[x].wrote = w[x].wrote

LEMMA Replacing ==
  ASSUME Typed, NEW x \in Workers, NEW r \in Pass, w' = [w EXCEPT ![x] = r]
  PROVE  Others(x) /\ w'[x] = r
BY DEF Typed, Others

LEMMA Leaving ==
  ASSUME Typed, NEW x \in Workers,
         NextDir(x) \/ StageFails(x) \/ (NextClient(x) /\ At(x, "client"))
  PROVE  Leaves(x) /\ ~w'[x].wrote
<1> PICK p \in Pass : p = w[x]
  BY DEF Typed
<1>1. Len(Dirs) \in Nat \ {0} /\ 1 \in 1 .. Len(Dirs)
  BY DirsAssumption
<1>2. p.at # Len(Dirs) => p.at + 1 \in 1 .. Len(Dirs)
  BY <1>1 DEF Pass
<1>3. ASSUME NEW r \in Pass, w' = [w EXCEPT ![x] = r], r.pc \in {"idle", "look", "client"},
             ~r.wrote
      PROVE  Leaves(x) /\ ~w'[x].wrote
  BY <1>3, Replacing DEF Leaves, IsRestoring
<1>a. ASSUME NEW n \in 1 .. Len(Dirs), NEW pc \in {"look", "client"},
             w' = [w EXCEPT ![x] = [p EXCEPT !.pc = pc, !.at = n, !.wrote = FALSE]]
      PROVE  Leaves(x) /\ ~w'[x].wrote
  <2> PICK r : r = [p EXCEPT !.pc = pc, !.at = n, !.wrote = FALSE]
    OBVIOUS
  <2>1. r \in Pass /\ r.pc = pc /\ ~r.wrote
    BY DEF Pass
  <2> QED BY <1>a, <1>3, <2>1
<1>4. CASE StageFails(x)
  BY <1>1, <1>4, <1>a DEF StageFails
<1>5. CASE NextDir(x)
  <2>1. CASE p.at = Len(Dirs)
    BY <1>1, <1>5, <2>1, <1>a DEF NextDir
  <2>2. CASE p.at # Len(Dirs)
    BY <1>2, <1>5, <2>2, <1>a DEF NextDir
  <2> QED BY <2>1, <2>2
<1>6. CASE NextClient(x) /\ At(x, "client")
  <2>1. p.pc = "client" /\ ~p.wrote
    BY <1>6 DEF At, Typed, TypeOK
  <2>2. CASE p.at = Len(Dirs)
    <3>1. Idle \in Pass /\ Idle.pc = "idle" /\ ~Idle.wrote
      BY <1>1 DEF Idle, Pass
    <3> QED BY <1>6, <2>2, <3>1, <1>3 DEF NextClient
  <2>3. CASE p.at # Len(Dirs)
    <3> PICK r : r = [p EXCEPT !.at = p.at + 1]
      OBVIOUS
    <3>1. r \in Pass /\ r.pc = p.pc /\ ~r.wrote
      BY <1>2, <2>1, <2>3 DEF Pass
    <3> QED BY <1>6, <2>1, <2>3, <3>1, <1>3 DEF NextClient
  <2> QED BY <2>2, <2>3
<1> QED BY <1>4, <1>5, <1>6

LEMMA Going ==
  ASSUME Typed, NEW x \in Workers,
         NEW pc \in {"look", "discover", "prepare", "checksum", "stream", "stuck", "mark"}, Goto(x, pc)
  PROVE  Stays(x, pc)
BY DEF Typed, Goto, Stays, Others, Pass

-----------------------------------------------------------------------------
(* The invariant is inductive.                                             *)

WrittenBy(x) == w[x].wrote => w[x].pc \in {"stream", "stuck", "mark"}

\* What is left of Typed beside the passes.
RestTyped ==
  /\ files \in [Clients -> {"none", "some", "all"}]
  /\ marker \subseteq Clients /\ running \subseteq Clients /\ used \subseteq Clients
  /\ troubles \in 0 .. MaxTroubles
  /\ crossed \subseteq Clients /\ mixed \subseteq Clients

LEMMA TypedSplit ==
  Typed <=> RestTyped /\ w \in [Workers -> Pass] /\ \A x \in Workers : WrittenBy(x)
BY DEF Typed, TypeOK, RestTyped, WrittenBy, Pass

LEMMA TypedNext ==
  ASSUME RestTyped', w' \in [Workers -> Pass], \A x \in Workers : WrittenBy(x)'
  PROVE  Typed'
BY DEF Typed, TypeOK, RestTyped, WrittenBy, Pass

LEMMA DirIsClient == ASSUME Typed, NEW x \in Workers PROVE Dir(x) \in Clients
BY DEF Typed, Pass, Dir, Clients

LEMMA TroublesTyped ==
  ASSUME Typed, NEW x, Trouble \/ Fails(x) \/ UNCHANGED troubles
  PROVE  troubles' \in 0 .. MaxTroubles
BY TroublesAssumption DEF Typed, TypeOK, Trouble, Fails

\* A pass leaves its datadir, which it may have marked; a client may be started.
LEMMA LeaveStep ==
  ASSUME IInv, NEW x \in Workers, Leaves(x), ~w'[x].wrote, RestTyped',
         UNCHANGED <<files, mixed, used>>, crossed \subseteq crossed',
         \A d \in marker' \ marker : files[d] = "all" \/ d \in mixed,
         \A y \in Workers : IsRestoring(y) /\ Dir(y) \in running' =>
                              Dir(y) \in running \cup crossed'
  PROVE  IInv'
<1> USE DEF IInv, Leaves, Others
<1>1. \A y \in Workers : IsRestoring(y)' => y # x /\ IsRestoring(y) /\ w'[y] = w[y] /\ Dir(y)' = Dir(y)
  BY DEF IsRestoring, Dir
<1>2. Typed'
  <2>1. \A y \in Workers : WrittenBy(y)
    BY TypedSplit
  <2>2. ASSUME NEW y \in Workers PROVE WrittenBy(y)'
    <3>1. CASE y = x
      BY <3>1 DEF WrittenBy
    <3>2. CASE y # x
      BY <2>1, <3>2 DEF WrittenBy
    <3> QED BY <3>1, <3>2
  <2> QED BY <2>2, TypedNext
<1>3. TwoCross' /\ RunningCrosses'
  BY <1>1 DEF TwoCross, RunningCrosses
<1>4. StillEmpty'
  <2>1. \A d : Empty(d)' <=> Empty(d)
    BY DEF Empty
  <2> QED BY <1>1, <2>1 DEF StillEmpty
<1>5. WholeAtMark'
  BY DEF WholeAtMark, Dir
<1>6. MarkedIsWhole' /\ MixedOnlyByCrossing'
  BY DEF MarkedIsWhole, MixedOnlyByCrossing
<1> QED BY <1>2, <1>3, <1>4, <1>5, <1>6

\* A pass goes on restoring its datadir.
LEMMA StayStep ==
  ASSUME IInv, NEW x \in Workers, NEW pc \in {"prepare", "checksum", "stream", "stuck"}, IsRestoring(x),
         Stays(x, pc), w[x].wrote => pc \in {"stream", "stuck"}, RestTyped',
         UNCHANGED <<dirVars, clientVars, crossed>>
  PROVE  IInv'
<1> USE DEF IInv, Stays, Others, dirVars, clientVars
<1>1. \A y \in Workers : /\ IsRestoring(y)' => IsRestoring(y)
                         /\ Dir(y)' = Dir(y) /\ w'[y].wrote = w[y].wrote
                         /\ w'[y].pc = "mark" => w[y].pc = "mark"
  BY DEF IsRestoring, Dir
<1>2. Typed'
  <2>1. \A y \in Workers : WrittenBy(y)
    BY TypedSplit
  <2>2. ASSUME NEW y \in Workers PROVE WrittenBy(y)'
    <3>1. CASE y = x
      BY <2>1, <3>1, w[x].pc # "mark" DEF WrittenBy, IsRestoring
    <3>2. CASE y # x
      BY <2>1, <3>2 DEF WrittenBy
    <3> QED BY <3>1, <3>2
  <2> QED BY <2>2, TypedNext
<1>3. TwoCross' /\ RunningCrosses'
  BY <1>1 DEF TwoCross, RunningCrosses
<1>4. StillEmpty'
  <2>1. \A d : Empty(d)' <=> Empty(d)
    BY DEF Empty
  <2> QED BY <1>1, <2>1 DEF StillEmpty
<1>5. WholeAtMark' /\ MarkedIsWhole' /\ MixedOnlyByCrossing'
  BY <1>1 DEF WholeAtMark, MarkedIsWhole, MixedOnlyByCrossing
<1> QED BY <1>2, <1>3, <1>4, <1>5

LEMMA RestNext ==
  ASSUME Typed, UNCHANGED <<dirVars, clientVars, crossed>>, troubles' \in 0 .. MaxTroubles
  PROVE  RestTyped'
BY DEF Typed, TypeOK, RestTyped, dirVars, clientVars

\* A pass leaves its datadir, and nothing else changes but the count of troubles.
LEMMA LeaveOnlyStep ==
  ASSUME IInv, NEW x \in Workers, Leaves(x), ~w'[x].wrote,
         troubles' \in 0 .. MaxTroubles, UNCHANGED <<dirVars, clientVars, crossed>>
  PROVE  IInv'
<1>1. RestTyped'
  BY RestNext DEF IInv
<1> QED BY <1>1, LeaveStep DEF dirVars, clientVars

LEMMA BeginStep == ASSUME IInv, NEW x \in Workers, Begin(x) PROVE IInv'
<1>1. Stays(x, "look") /\ ~w[x].wrote /\ troubles' \in 0 .. MaxTroubles
  BY Going, TroublesTyped DEF IInv, Begin, Typed, TypeOK, At
<1>2. Leaves(x) /\ ~w'[x].wrote
  BY <1>1 DEF Stays, Leaves, IsRestoring
<1> QED BY <1>1, <1>2, LeaveOnlyStep DEF Begin

LEMMA LookStep == ASSUME IInv, NEW x \in Workers, Look(x) PROVE IInv'
<1> USE DEF IInv
<1>1. troubles' \in 0 .. MaxTroubles /\ ~w[x].wrote /\ Dir(x) \in Clients /\ w[x].pc = "look"
  BY TroublesTyped, DirIsClient DEF Look, Typed, TypeOK, At
<1>2. CASE NextDir(x) /\ UNCHANGED crossed
  BY <1>1, <1>2, Leaving, LeaveOnlyStep DEF Look
<1>3. CASE /\ Empty(Dir(x)) /\ Goto(x, "discover")
           /\ Crosses(Dir(x), Restoring(Dir(x)) # {} \/ Dir(x) \in running)
  <2>1. Stays(x, "discover")
    BY <1>3, Going
  <2> USE <2>1 DEF Stays, Others
  <2>2. \A y \in Workers : Dir(y)' = Dir(y) /\ w'[y].wrote = w[y].wrote
    BY DEF Dir
  <2>3. \A y \in Workers \ {x} : IsRestoring(y)' <=> IsRestoring(y)
    BY DEF IsRestoring
  <2>4. UNCHANGED <<files, marker, mixed, running, used>>
    BY DEF Look, dirVars, clientVars
  <2>5. crossed \subseteq crossed' /\ crossed' \subseteq Clients
    BY <1>1, <1>3 DEF Crosses, Typed, TypeOK
  <2>6. \A y \in Workers \ {x} : IsRestoring(y) /\ Dir(y) = Dir(x) => Dir(x) \in crossed'
    BY <1>3 DEF Crosses, Restoring, IsRestoring
  <2>7. Typed'
    <3>1. RestTyped'
      BY <1>1, <2>4, <2>5 DEF Typed, TypeOK, RestTyped
    <3>2. ASSUME NEW y \in Workers PROVE WrittenBy(y)'
      <4>1. CASE y = x
        BY <1>1, <4>1 DEF WrittenBy
      <4>2. CASE y # x
        BY <4>2, TypedSplit DEF WrittenBy
      <4> QED BY <4>1, <4>2
    <3> QED BY <3>1, <3>2, TypedNext
  <2>8. TwoCross'
    BY <2>2, <2>3, <2>5, <2>6 DEF TwoCross
  <2>9. RunningCrosses'
    <3>1. Dir(x) \in running => Dir(x) \in crossed'
      BY <1>3 DEF Crosses
    <3> QED BY <3>1, <2>2, <2>3, <2>4, <2>5 DEF RunningCrosses
  <2>10. StillEmpty'
    <3>1. \A d : Empty(d)' <=> Empty(d)
      BY <2>4 DEF Empty
    <3> QED BY <3>1, <1>3, <2>2, <2>3, <2>5 DEF StillEmpty
  <2>11. WholeAtMark' /\ MarkedIsWhole' /\ MixedOnlyByCrossing'
    BY <2>2, <2>4, <2>5 DEF WholeAtMark, MarkedIsWhole, MixedOnlyByCrossing
  <2> QED BY <2>7, <2>8, <2>9, <2>10, <2>11
<1> QED BY <1>2, <1>3 DEF Look

LEMMA DiscoverStep == ASSUME IInv, NEW x \in Workers, Discover(x) PROVE IInv'
<1>1. /\ troubles' \in 0 .. MaxTroubles /\ ~w[x].wrote /\ IsRestoring(x)
      /\ UNCHANGED <<dirVars, clientVars, crossed>>
  BY TroublesTyped DEF IInv, Discover, Typed, TypeOK, At, IsRestoring
<1>2. CASE Goto(x, "prepare")
  <2>1. Stays(x, "prepare")
    BY <1>2, Going DEF IInv
  <2> QED BY <1>1, <2>1, RestNext, StayStep DEF IInv
<1>3. CASE StageFails(x)
  BY <1>1, <1>3, Leaving, LeaveOnlyStep DEF IInv
<1> QED BY <1>2, <1>3 DEF Discover

LEMMA LookFailsStep == ASSUME IInv, NEW x \in Workers, LookFails(x) PROVE IInv'
<1>1. troubles' \in 0 .. MaxTroubles /\ UNCHANGED <<dirVars, clientVars, crossed>>
  BY TroublesTyped DEF IInv, LookFails
<1> QED BY <1>1, Leaving, LeaveOnlyStep DEF IInv, LookFails

LEMMA PrepareStep == ASSUME IInv, NEW x \in Workers, Prepare(x) PROVE IInv'
<1>1. /\ troubles' \in 0 .. MaxTroubles /\ ~w[x].wrote /\ IsRestoring(x)
      /\ UNCHANGED <<dirVars, clientVars, crossed>>
  BY TroublesTyped DEF IInv, Prepare, Typed, TypeOK, At, IsRestoring
<1>2. CASE Goto(x, "checksum")
  <2>1. Stays(x, "checksum")
    BY <1>2, Going DEF IInv
  <2> QED BY <1>1, <2>1, RestNext, StayStep DEF IInv
<1>3. CASE StageFails(x)
  BY <1>1, <1>3, Leaving, LeaveOnlyStep DEF IInv
<1> QED BY <1>2, <1>3 DEF Prepare

LEMMA SpawnStep == ASSUME IInv, NEW x \in Workers, Spawn(x) PROVE IInv'
<1>1. /\ troubles' \in 0 .. MaxTroubles /\ IsRestoring(x)
      /\ UNCHANGED <<dirVars, clientVars, crossed>>
  BY TroublesTyped DEF IInv, Spawn, At, IsRestoring
<1>2. CASE Goto(x, "stream")
  <2>1. Stays(x, "stream")
    BY <1>2, Going DEF IInv
  <2> QED BY <1>1, <2>1, RestNext, StayStep DEF IInv
<1>3. CASE StageFails(x)
  BY <1>1, <1>3, Leaving, LeaveOnlyStep DEF IInv
<1> QED BY <1>2, <1>3 DEF Spawn

LEMMA TarDiesStep == ASSUME IInv, NEW x \in Workers, TarDies(x) PROVE IInv'
<1>1. /\ troubles' \in 0 .. MaxTroubles /\ IsRestoring(x)
      /\ UNCHANGED <<dirVars, clientVars, crossed>>
  BY TroublesTyped DEF IInv, TarDies, At, IsRestoring
<1>2. Stays(x, "stuck")
  BY Going DEF IInv, TarDies
<1> QED BY <1>1, <1>2, RestNext, StayStep DEF IInv

LEMMA KilledStep == ASSUME IInv, NEW x \in Workers, Killed(x) PROVE IInv'
<1>1. troubles' \in 0 .. MaxTroubles /\ UNCHANGED <<dirVars, clientVars, crossed>>
  BY TroublesTyped DEF IInv, Killed
<1> QED BY <1>1, Leaving, LeaveOnlyStep DEF IInv, Killed

\* What tar writes over has been crossed; nobody else goes on believing it is empty.
LEMMA ExtractStep == ASSUME IInv, NEW x \in Workers, Extract(x) PROVE IInv'
<1> USE DEF IInv
<1> PICK d \in Clients : d = Dir(x)
  BY DirIsClient
<1>1. /\ w[x].pc = "stream" /\ ~w[x].wrote /\ IsRestoring(x)
      /\ files' = [files EXCEPT ![d] = "some"] /\ files \in [Clients -> {"none", "some", "all"}]
      /\ mixed' = IF Empty(d) THEN mixed ELSE mixed \cup {d}
      /\ UNCHANGED <<marker, running, used, troubles, crossed>>
  BY DEF Extract, At, IsRestoring, Typed, TypeOK, clientVars
<1>2. /\ Others(x) /\ w'[x].pc = "stream" /\ w'[x].at = w[x].at /\ w'[x].wrote
  <2>1. w' = [w EXCEPT ![x].wrote = TRUE]
    BY DEF Extract
  <2>2. /\ w'[x].pc = w[x].pc /\ w'[x].at = w[x].at /\ w'[x].wrote
        /\ w' \in [Workers -> Pass]
    BY <2>1 DEF Typed, Pass
  <2>3. \A y \in Workers \ {x} : w'[y] = w[y]
    BY <2>1 DEF Typed
  <2> QED BY <1>1, <2>2, <2>3 DEF Others
<1> USE <1>2 DEF Others
<1>3. \A y \in Workers : Dir(y)' = Dir(y) /\ w'[y].pc = w[y].pc
  BY <1>1 DEF Dir
<1>4. Typed'
  <2>1. RestTyped'
    BY <1>1 DEF Typed, TypeOK, RestTyped
  <2>2. ASSUME NEW y \in Workers PROVE WrittenBy(y)'
    <3>1. CASE y = x
      BY <3>1 DEF WrittenBy
    <3>2. CASE y # x
      BY <3>2, TypedSplit DEF WrittenBy
    <3> QED BY <3>1, <3>2
  <2> QED BY <2>1, <2>2, TypedNext
<1>5. TwoCross' /\ RunningCrosses'
  BY <1>1, <1>3 DEF TwoCross, RunningCrosses, IsRestoring
<1>6. StillEmpty'
  <2>1. ASSUME NEW y \in Workers, IsRestoring(y)', ~w'[y].wrote
        PROVE  Empty(Dir(y))' \/ Dir(y)' \in crossed'
    <3>1. y # x /\ IsRestoring(y) /\ ~w[y].wrote
      BY <2>1, <1>3 DEF IsRestoring
    <3>2. CASE Dir(y) = d
      BY <1>1, <1>3, <3>1, <3>2 DEF TwoCross
    <3>3. CASE Dir(y) # d
      <4>1. Dir(y) \in Clients
        BY DirIsClient
      <4>2. Empty(Dir(y))' <=> Empty(Dir(y))
        BY <1>1, <1>3, <3>3, <4>1 DEF Empty
      <4> QED BY <1>1, <1>3, <3>1, <4>2 DEF StillEmpty
    <3> QED BY <3>2, <3>3
  <2> QED BY <2>1 DEF StillEmpty
<1>7. WholeAtMark'
  <2>1. ASSUME NEW y \in Workers, w[y].pc = "mark"
        PROVE  files'[Dir(y)] = "all" \/ Dir(y) \in mixed'
    <3>1. Dir(y) \in Clients /\ (files[Dir(y)] = "all" \/ Dir(y) \in mixed)
      BY <2>1, DirIsClient DEF WholeAtMark
    <3>2. CASE Dir(y) = d
      BY <1>1, <3>1, <3>2 DEF Empty
    <3>3. CASE Dir(y) # d
      BY <1>1, <3>1, <3>3
    <3> QED BY <3>2, <3>3
  <2> QED BY <1>3, <2>1 DEF WholeAtMark
<1>8. MarkedIsWhole'
  <2>1. ASSUME NEW e \in marker \ mixed' PROVE files'[e] = "all"
    <3>1. e \in Clients /\ files[e] = "all"
      BY <1>1, <2>1 DEF MarkedIsWhole, Typed, TypeOK
    <3>2. e # d
      BY <1>1, <2>1, <3>1 DEF Empty
    <3> QED BY <1>1, <3>1, <3>2
  <2> QED BY <1>1, <2>1 DEF MarkedIsWhole
<1>9. MixedOnlyByCrossing'
  BY <1>1 DEF MixedOnlyByCrossing, StillEmpty
<1> QED BY <1>4, <1>5, <1>6, <1>7, <1>8, <1>9

\* A stream that ends well leaves a whole snapshot to be marked.
LEMMA EndStreamStep == ASSUME IInv, NEW x \in Workers, EndStream(x) PROVE IInv'
<1> USE DEF IInv
<1> PICK d \in Clients : d = Dir(x)
  BY DirIsClient
<1>1. CASE Trouble /\ UNCHANGED files /\ StageFails(x)
  <2>1. troubles' \in 0 .. MaxTroubles /\ UNCHANGED <<dirVars, clientVars, crossed>>
    BY <1>1, TroublesTyped DEF EndStream, dirVars
  <2> QED BY <1>1, <2>1, Leaving, LeaveOnlyStep
<1>2. CASE /\ w[x].wrote /\ UNCHANGED troubles
           /\ files' = [files EXCEPT ![d] = "all"]
           /\ Goto(x, "mark")
  <2>1. /\ IsRestoring(x) /\ files \in [Clients -> {"none", "some", "all"}]
        /\ UNCHANGED <<marker, mixed, running, used, crossed>>
    BY DEF EndStream, At, IsRestoring, Typed, TypeOK, clientVars
  <2>2. Stays(x, "mark")
    BY <1>2, Going
  <2> USE <2>2 DEF Stays, Others
  <2>3. \A y \in Workers : Dir(y)' = Dir(y) /\ w'[y].wrote = w[y].wrote
    BY DEF Dir
  <2>4. \A y \in Workers : IsRestoring(y)' => y # x /\ IsRestoring(y)
    BY DEF IsRestoring
  <2>5. Typed'
    <3>1. RestTyped'
      BY <1>2, <2>1 DEF Typed, TypeOK, RestTyped
    <3>2. ASSUME NEW y \in Workers PROVE WrittenBy(y)'
      <4>1. CASE y = x
        BY <4>1 DEF WrittenBy
      <4>2. CASE y # x
        BY <4>2, TypedSplit DEF WrittenBy
      <4> QED BY <4>1, <4>2
    <3> QED BY <3>1, <3>2, TypedNext
  <2>6. TwoCross' /\ RunningCrosses'
    BY <2>1, <2>3, <2>4 DEF TwoCross, RunningCrosses
  <2>7. StillEmpty'
    <3>1. ASSUME NEW y \in Workers, IsRestoring(y)', ~w'[y].wrote
          PROVE  Empty(Dir(y))' \/ Dir(y)' \in crossed'
      <4>1. y # x /\ IsRestoring(y) /\ ~w[y].wrote
        BY <2>3, <2>4, <3>1
      <4>2. CASE Dir(y) = d
        BY <2>1, <2>3, <4>1, <4>2 DEF TwoCross
      <4>3. CASE Dir(y) # d
        <5>1. Dir(y) \in Clients
          BY DirIsClient
        <5>2. Empty(Dir(y))' <=> Empty(Dir(y))
          BY <1>2, <2>1, <2>3, <4>3, <5>1 DEF Empty
        <5> QED BY <2>1, <2>3, <4>1, <5>2 DEF StillEmpty
      <4> QED BY <4>2, <4>3
    <3> QED BY <3>1 DEF StillEmpty
  <2>8. \A e \in Clients : files'[e] = files[e] \/ files'[e] = "all"
    BY <1>2, <2>1
  <2>9. WholeAtMark'
    <3>1. ASSUME NEW y \in Workers, w'[y].pc = "mark"
          PROVE  files'[Dir(y)] = "all" \/ Dir(y) \in mixed
      <4>1. CASE y = x
        BY <1>2, <2>1, <4>1
      <4>2. CASE y # x
        BY <3>1, <4>2, <2>8, DirIsClient DEF WholeAtMark
      <4> QED BY <4>1, <4>2
    <3> QED BY <3>1, <2>1, <2>3 DEF WholeAtMark
  <2>10. MarkedIsWhole' /\ MixedOnlyByCrossing'
    BY <2>1, <2>8 DEF MarkedIsWhole, MixedOnlyByCrossing, Typed, TypeOK
  <2> QED BY <2>5, <2>6, <2>7, <2>9, <2>10
<1> QED BY <1>1, <1>2 DEF EndStream

LEMMA MarkStep == ASSUME IInv, NEW x \in Workers, Mark(x) PROVE IInv'
<1> USE DEF IInv
<1>1. /\ troubles' \in 0 .. MaxTroubles /\ Dir(x) \in Clients /\ w[x].pc = "mark"
      /\ marker' \in {marker, marker \cup {Dir(x)}}
      /\ UNCHANGED <<files, mixed, running, used, crossed>>
  BY TroublesTyped, DirIsClient DEF Mark, At, clientVars
<1>2. \A d \in marker' \ marker : files[d] = "all" \/ d \in mixed
  BY <1>1 DEF WholeAtMark
<1>3. RestTyped'
  BY <1>1 DEF Typed, TypeOK, RestTyped
<1>4. Leaves(x) /\ ~w'[x].wrote
  BY Leaving DEF Mark
<1> QED BY <1>1, <1>2, <1>3, <1>4, LeaveStep

LEMMA StartClientStep == ASSUME IInv, NEW x \in Workers, StartClient(x) PROVE IInv'
<1> USE DEF IInv
<1>1. /\ troubles' \in 0 .. MaxTroubles /\ Dir(x) \in Clients
      /\ UNCHANGED <<files, marker, mixed, used>>
  BY TroublesTyped, DirIsClient DEF StartClient, dirVars
<1>2. /\ crossed \subseteq crossed' /\ crossed' \subseteq Clients /\ running' \subseteq Clients
      /\ running' # running =>
           /\ running' = running \cup {Dir(x)}
           /\ Restoring(Dir(x)) # {} => Dir(x) \in crossed'
  BY <1>1 DEF StartClient, Crosses, Typed, TypeOK
<1>3. \A y \in Workers : IsRestoring(y) /\ Dir(y) \in running' => Dir(y) \in running \cup crossed'
  BY <1>2 DEF Restoring, IsRestoring
<1>4. RestTyped'
  BY <1>1, <1>2 DEF Typed, TypeOK, RestTyped
<1>5. Leaves(x) /\ ~w'[x].wrote
  BY Leaving DEF StartClient
<1> QED BY <1>1, <1>2, <1>3, <1>4, <1>5, LeaveStep

\* What a client writes it writes where only crossed passes still find nothing.
LEMMA ClientWritesStep == ASSUME IInv, NEW d \in Clients, ClientWrites(d) PROVE IInv'
<1> USE DEF IInv
<1>1. /\ used' = used \cup {d} /\ d \in running
      /\ UNCHANGED <<files, marker, mixed, running, w, troubles, crossed>>
  BY DEF ClientWrites, dirVars
<1>2. Typed'
  BY <1>1 DEF Typed, TypeOK
<1>3. StillEmpty'
  BY <1>1 DEF StillEmpty, RunningCrosses, IsRestoring, Dir, Empty
<1>4. TwoCross' /\ RunningCrosses' /\ WholeAtMark' /\ MarkedIsWhole' /\ MixedOnlyByCrossing'
  BY <1>1 DEF TwoCross, RunningCrosses, WholeAtMark, MarkedIsWhole, MixedOnlyByCrossing,
              IsRestoring, Dir
<1> QED BY <1>2, <1>3, <1>4

LEMMA LoseRequestStep == ASSUME IInv, NEW x \in Workers, LoseRequest(x) PROVE IInv'
<1> USE DEF IInv
<1>1. UNCHANGED <<files, marker, mixed, running, used, troubles, crossed>>
  BY DEF LoseRequest, dirVars, clientVars
<1>2. /\ w' \in [Workers -> Pass]
      /\ \A y \in Workers : w'[y].pc = w[y].pc /\ w'[y].at = w[y].at /\ w'[y].wrote = w[y].wrote
  BY DEF LoseRequest, Typed, Pass
<1>3. Typed'
  BY <1>1, <1>2 DEF Typed, TypeOK, Pass
<1>4. StillEmpty'
  BY <1>1, <1>2 DEF StillEmpty, IsRestoring, Dir, Empty
<1>5. TwoCross' /\ RunningCrosses' /\ WholeAtMark' /\ MarkedIsWhole' /\ MixedOnlyByCrossing'
  BY <1>1, <1>2 DEF TwoCross, RunningCrosses, WholeAtMark, MarkedIsWhole, MixedOnlyByCrossing,
              IsRestoring, Dir
<1> QED BY <1>3, <1>4, <1>5

LEMMA IdleIsPass == Idle \in Pass
<1>1. 1 \in 1 .. Len(Dirs)
  BY DirsAssumption
<1> QED BY <1>1 DEF Idle, Pass

\* All passes end at once.
LEMMA AllIdleStep ==
  ASSUME IInv, w' = [x \in Workers |-> Idle], troubles' \in 0 .. MaxTroubles,
         UNCHANGED <<dirVars, clientVars, crossed>>
  PROVE  IInv'
<1> USE DEF IInv, dirVars, clientVars
<1>1. RestTyped'
  BY RestNext
<1>2. Typed'
  BY <1>1, IdleIsPass, TypedNext DEF WrittenBy, Idle
<1>3. TwoCross' /\ RunningCrosses' /\ StillEmpty' /\ WholeAtMark'
  BY DEF TwoCross, RunningCrosses, StillEmpty, WholeAtMark, IsRestoring, Idle
<1>4. MarkedIsWhole' /\ MixedOnlyByCrossing'
  BY DEF MarkedIsWhole, MixedOnlyByCrossing
<1> QED BY <1>2, <1>3, <1>4

LEMMA CrashStep == ASSUME IInv, Crash PROVE IInv'
BY AllIdleStep, TroublesTyped DEF Crash, IInv

\* A panic ends all passes or one, before its tar has been started.
LEMMA PanicStep == ASSUME IInv, NEW x \in Workers, Panic(x) PROVE IInv'
<1>1. troubles' \in 0 .. MaxTroubles /\ UNCHANGED <<dirVars, clientVars, crossed>>
  BY TroublesTyped DEF IInv, Panic
<1>2. CASE w' = [y \in Workers |-> Idle]
  BY <1>1, <1>2, AllIdleStep
<1>3. CASE w' = [w EXCEPT ![x] = Idle]
  <2>1. Others(x) /\ w'[x] = Idle
    BY <1>3, IdleIsPass, Replacing DEF IInv
  <2>2. Leaves(x) /\ ~w'[x].wrote
    BY <2>1 DEF Leaves, IsRestoring, Idle
  <2> QED BY <1>1, <2>2, LeaveOnlyStep
<1> QED BY <1>2, <1>3 DEF Panic

-----------------------------------------------------------------------------
(* The theorems.                                                           *)

LEMMA InitIInv == ASSUME Init PROVE IInv
<1>1. Typed
  BY IdleIsPass, TroublesAssumption DEF Init, Typed, TypeOK, Idle, Pass
<1>2. TwoCross /\ RunningCrosses /\ StillEmpty /\ WholeAtMark
  BY DEF Init, TwoCross, RunningCrosses, StillEmpty, WholeAtMark, IsRestoring, Idle
<1>3. MarkedIsWhole /\ MixedOnlyByCrossing
  BY DEF Init, MarkedIsWhole, MixedOnlyByCrossing
<1> QED BY <1>1, <1>2, <1>3 DEF IInv

\* Every step of a pass, of a client and of the environment preserves IInv.
LEMMA NextIInv == ASSUME IInv, [Next]_vars PROVE IInv'
<1>1. ASSUME NEW x \in Workers, Begin(x) \/ PassStep(x) \/ Transfer(x) PROVE IInv'
  <2>1. CASE Begin(x)
    BY <2>1, BeginStep
  <2>2. CASE PassStep(x)
    BY <2>2, LookStep, LookFailsStep, DiscoverStep, PrepareStep, SpawnStep, KilledStep,
       MarkStep, StartClientStep DEF PassStep
  <2>3. CASE Transfer(x)
    BY <2>3, PanicStep, ExtractStep, EndStreamStep, TarDiesStep DEF Transfer
  <2> QED BY <1>1, <2>1, <2>2, <2>3
<1>2. ASSUME NEW x \in Requests, LoseRequest(x) PROVE IInv'
  BY <1>2, LoseRequestStep DEF Workers
<1>3. CASE UNCHANGED vars
  BY <1>3 DEF vars, IInv, Typed, TypeOK, TwoCross, RunningCrosses, StillEmpty, WholeAtMark,
              MarkedIsWhole, MixedOnlyByCrossing, IsRestoring, Dir, Empty
<1> QED BY <1>1, <1>2, <1>3, ClientWritesStep, CrashStep DEF Next

\* The inductive invariant: what passes believe about their datadirs, in every reachable state.
THEOREM Invariance == Spec => []IInv
BY InitIInv, NextIInv, PTL DEF Spec

\* Every variable keeps its type.
THEOREM TypeCorrect == Spec => []TypeOK
<1>1. IInv => TypeOK
  BY DEF IInv, Typed
<1> QED BY <1>1, Invariance, PTL

\* A marked datadir got all of a snapshot (writeMarker comes after both processes' Wait).
THEOREM MarkedWhole == Spec => []MarkedIsWhole
<1>1. IInv => MarkedIsWhole
  BY DEF IInv
<1> QED BY <1>1, Invariance, PTL

\* Nothing but two passes at once, or a client that runs meanwhile, makes RestoreIfEmpty
\* extract over other data.
THEOREM MixedCrossed == Spec => []MixedOnlyByCrossing
<1>1. IInv => MixedOnlyByCrossing
  BY DEF IInv
<1> QED BY <1>1, Invariance, PTL
=============================================================================
