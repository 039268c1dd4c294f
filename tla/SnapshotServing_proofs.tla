------------------------ MODULE SnapshotServing_proofs ------------------------
(***************************************************************************)
(* Proofs about SnapshotServing, and so about SnapshotStore under it, for  *)
(* any -keep and any bounds on heights, clock readings and troubles.       *)
(***************************************************************************)
EXTENDS SnapshotServing, FiniteSetTheorems, WellFoundedInduction, TLAPS

Maker == [pc : {"idle", "stop", "mkdir", "tar", "taring", "latest", "write", "restart", "finish",
                "prune"},
          block : Blocks \cup {None}, dirty : BOOLEAN]

ReaderTyped ==
  /\ reader \in [pc : {"idle", "asked", "streaming"}, block : Blocks \cup {None},
                 file : {"none", "named", "nameless"}, stream : {"whole", "short"},
                 retarred : BOOLEAN]
  /\ reader.pc # "idle" => reader.block \in Blocks

\* What the maker knows of its own archive.
Making ==
  /\ maker.pc = "taring" =>
       dir[maker.block] = "partial" /\ (latest = maker.block => latest \in rewritten)
  /\ maker.pc \in {"latest", "write"} => dir[maker.block] \in Whole

\* A container that is down before the maker has stopped it is excused.
StoppedExcused == maker.pc \in {"idle", "stop", "prune"} /\ ~running => excused

StoreInv == TypeOK /\ Making /\ StoppedExcused /\ LatestIsServed
IInv == StoreInv /\ ReaderTyped /\ AskedIsServed
-----------------------------------------------------------------------------
(* Numbers and sets of blocks.                                             *)

Top == MaxHeight + MaxStamp

LEMMA BlockNumbers ==
  /\ Heights \subseteq Blocks /\ Stamps \subseteq Blocks /\ Blocks \subseteq 1 .. Top
  /\ None \notin Blocks /\ 1 \in Heights /\ MaxHeight + 1 \in Stamps /\ Top \in Nat
BY BoundsAssumption DEF Heights, Stamps, Blocks, None, Top

LEMMA Counted ==
  ASSUME NEW S \in SUBSET Blocks, NEW T \in SUBSET S
  PROVE  /\ Cardinality(S) \in Nat /\ Cardinality(T) \in Nat
         /\ Cardinality(T) <= Cardinality(S)
<1>1. IsFiniteSet(1 .. Top)
  BY BlockNumbers, FS_Interval
<1>2. IsFiniteSet(S)
  <2>1. S \in SUBSET (1 .. Top)
    BY BlockNumbers
  <2> QED BY <1>1, <2>1, FS_Subset
<1> QED BY <1>2, FS_Subset, FS_CardinalityType

LEMMA Highest ==
  ASSUME NEW S \in SUBSET Blocks, S # {}
  PROVE  \E x \in S : \A y \in S : y <= x
<1> DEFINE T == {Top - b : b \in S}
<1>1. T \in SUBSET Nat /\ T # {}
  <2>1. \A b \in S : Top - b \in Nat
    <3> SUFFICES ASSUME NEW b \in S PROVE Top - b \in Nat
      OBVIOUS
    <3>1. b \in 1 .. Top /\ Top \in Nat
      BY BlockNumbers
    <3> QED BY <3>1
  <2> QED BY <2>1
<1>2. PICK x \in T : \A y \in T : ~(<<y, x>> \in OpToRel(<, Nat))
  <2> HIDE DEF T
  <2> QED BY <1>1, NatLessThanWellFounded, WFMin, Zenon
<1>3. \A y \in T : ~(y < x)
  BY <1>1, <1>2 DEF OpToRel
<1>4. PICK b \in S : x = Top - b
  BY DEF T
<1>5. \A c \in S : c <= b
  <2> SUFFICES ASSUME NEW c \in S PROVE c <= b
    OBVIOUS
  <2>1. ~(Top - c < Top - b)
    BY <1>3, <1>4
  <2>2. Top \in Int /\ b \in Int /\ c \in Int
    BY BlockNumbers
  <2> QED BY <2>1, <2>2
<1> QED BY <1>5

\* A block behind Keep directories stays so when PruneOld is done, or half done: the highest
\* directory to go has Keep above it that stay.
LEMMA StillOutnumbered ==
  ASSUME NEW x \in Blocks, Cardinality({b \in Dirs : b > x}) >= Keep,
         NEW D \in SUBSET Blocks, Dirs \ Doomed \subseteq D
  PROVE  Cardinality({b \in D : b > x}) >= Keep
<1>1. CASE \E b \in Doomed : b > x
  <2> DEFINE S == {b \in Doomed : b > x}
  <2>1. S \in SUBSET Blocks /\ S # {}
    BY <1>1 DEF Doomed, Dirs
  <2>2. PICK m \in S : \A b \in S : b <= m
    BY <2>1, Highest
  <2>3. Cardinality({b \in Dirs : b > m}) >= Keep /\ m > x /\ m \in Blocks
    BY <2>2 DEF Doomed, Dirs
  <2>4. {b \in Dirs : b > m} \subseteq {b \in D : b > x}
    <3> SUFFICES ASSUME NEW b \in Dirs, b > m PROVE b \in D /\ b > x
      OBVIOUS
    <3>1. b \in Int /\ m \in Int /\ x \in Int
      BY <2>3, BlockNumbers DEF Dirs
    <3>2. b > x
      BY <2>3, <3>1
    <3>3. b \notin Doomed
      <4> SUFFICES ASSUME b \in Doomed PROVE FALSE
        OBVIOUS
      <4>1. b <= m
        BY <2>2, <3>2
      <4> QED BY <3>1, <4>1
    <3> QED BY <3>2, <3>3
  <2>5. {b \in D : b > x} \in SUBSET Blocks
    OBVIOUS
  <2> QED BY <2>3, <2>4, <2>5, Counted, KeepAssumption
<1>2. CASE ~\E b \in Doomed : b > x
  <2>1. {b \in Dirs : b > x} \subseteq {b \in D : b > x}
    BY <1>2
  <2>2. {b \in D : b > x} \in SUBSET Blocks
    OBVIOUS
  <2> QED BY <2>1, <2>2, Counted, KeepAssumption
<1> QED BY <1>1, <1>2

-----------------------------------------------------------------------------
(* The maker.                                                              *)

LEMMA Removed ==
  ASSUME RemoveArchive
  PROVE  dir' = [dir EXCEPT ![maker.block] = "empty"] \/ dir' = dir
BY DEF RemoveArchive

LEMMA Spent == ASSUME TypeOK, Trouble \/ Fails \/ Works \/ UNCHANGED troubles PROVE troubles' \in 0 .. MaxTroubles
BY BoundsAssumption DEF TypeOK, Trouble, Fails, Works

LEMMA Going ==
  ASSUME TypeOK, NEW pc \in {"mkdir", "tar", "taring", "latest", "write", "restart", "finish", "prune"},
         Goto(pc)
  PROVE  maker' \in Maker /\ maker'.pc = pc /\ maker'.block = maker.block
BY DEF TypeOK, Goto, Maker

LEMMA IdleIsMaker == Idle \in Maker /\ Idle.pc = "idle" /\ Idle.block = None
BY DEF Idle, Maker

\* What a step makes of the maker's place: it ends, it begins, or it keeps its block.
LEMMA MakerMoves ==
  ASSUME TypeOK, MakerStep
  PROVE  /\ maker' \in Maker
         /\ maker'.block = None <=> maker'.pc = "idle"
         /\ \/ Begin /\ maker.pc = "idle" /\ maker'.pc \in {"idle", "stop"}
            \/ StopContainer /\ maker.pc = "stop" /\ maker'.pc \in {"mkdir", "idle"}
            \/ MkBlockDir /\ maker.pc = "mkdir" /\ maker'.pc \in {"tar", "restart"}
            \/ StartTar /\ maker.pc = "tar" /\ maker'.pc \in {"taring", "restart"}
            \/ EndTar /\ maker.pc = "taring" /\ maker'.pc \in {"latest", "restart"}
            \/ TruncateLatest /\ maker.pc = "latest" /\ maker'.pc \in {"write", "restart"}
            \/ WriteLatest /\ maker.pc = "write" /\ maker'.pc \in {"finish", "restart"}
            \/ StartContainer /\ maker.pc \in {"restart", "finish"} /\ maker'.pc \in {"idle", "prune"}
            \/ PruneOld /\ maker.pc = "prune" /\ maker'.pc = "idle"
         /\ maker'.pc \notin {"idle", "stop"} => maker'.block = maker.block
<1>t. maker \in Maker /\ (maker.block = None <=> maker.pc = "idle")
  BY DEF TypeOK, Maker
<1>1. CASE Begin
  <2>1. height \in Blocks /\ clock \in Blocks /\ None \notin Blocks
    BY BlockNumbers DEF TypeOK
  <2>2. CASE maker' = maker
    BY <1>t, <1>1, <2>2 DEF Begin, At
  <2>3. CASE maker' # maker
    <3>1. PICK b \in Blocks : maker' = [Idle EXCEPT !.pc = "stop", !.block = b]
      BY <1>1, <2>1, <2>3 DEF Begin
    <3> QED BY <1>1, <2>1, <3>1 DEF Begin, At, Idle, Maker
  <2> QED BY <2>2, <2>3
<1>2. CASE StopContainer
  BY <1>t, <1>2, Going, IdleIsMaker DEF StopContainer, At
<1>3. CASE MkBlockDir
  BY <1>t, <1>3, Going DEF MkBlockDir, At
<1>4. CASE StartTar
  <2>1. CASE maker' = [maker EXCEPT !.pc = "taring", !.dirty = running]
    BY <1>t, <1>4, <2>1 DEF StartTar, At, TypeOK, Maker
  <2>2. CASE Goto("restart")
    BY <1>t, <1>4, <2>2, Going DEF StartTar, At
  <2> QED BY <1>4, <2>1, <2>2 DEF StartTar
<1>5. CASE EndTar
  BY <1>t, <1>5, Going DEF EndTar, At
<1>6. CASE TruncateLatest
  BY <1>t, <1>6, Going DEF TruncateLatest, At
<1>7. CASE WriteLatest
  BY <1>t, <1>7, Going DEF WriteLatest, At
<1>8. CASE StartContainer
  BY <1>t, <1>8, Going, IdleIsMaker DEF StartContainer, At
<1>9. CASE PruneOld
  BY <1>9, IdleIsMaker DEF PruneOld, At
<1> QED BY <1>1, <1>2, <1>3, <1>4, <1>5, <1>6, <1>7, <1>8, <1>9 DEF MakerStep

\* The steps of the host leave the archives alone, and a maker either where it is or dead.
LEMMA HostMoves ==
  ASSUME TypeOK, Grow \/ AgentStarts \/ Terminate \/ Die \/ Boot
  PROVE  /\ UNCHANGED storeVars /\ maker' \in Maker
         /\ maker' = Idle \/ (maker'.pc = maker.pc /\ maker'.block = maker.block)
<1>t. maker \in Maker
  BY DEF TypeOK, Maker
<1>1. CASE AgentStarts
  <2>1. (maker.dirty \/ maker.pc = "taring") \in BOOLEAN
    OBVIOUS
  <2>2. ASSUME NEW e \in BOOLEAN
        PROVE  LET m == [maker EXCEPT !.dirty = e] IN
               m \in Maker /\ m.pc = maker.pc /\ m.block = maker.block
    BY <1>t DEF Maker
  <2>3. maker' = [maker EXCEPT !.dirty = maker.dirty \/ maker.pc = "taring"]
    BY <1>1 DEF AgentStarts
  <2> QED BY <1>1, <2>1, <2>2, <2>3 DEF AgentStarts
<1>2. CASE Die
  BY <1>2, IdleIsMaker DEF Die
<1>3. CASE Grow \/ Terminate \/ Boot
  BY <1>t, <1>3 DEF Grow, Terminate, Boot
<1> QED BY <1>1, <1>2, <1>3

LEMMA NextType == ASSUME TypeOK, Next PROVE TypeOK'
<1>1. maker' \in Maker /\ (maker'.block = None <=> maker'.pc = "idle")
  BY MakerMoves, HostMoves, IdleIsMaker DEF Next, TypeOK
<1>2. maker.pc # "idle" => maker.block \in Blocks
  BY DEF TypeOK
<1>3. CASE Begin
  <2>1. clock' \in Stamps
    BY <1>3, BoundsAssumption DEF Begin, TypeOK, Stamps
  <2>2. troubles' \in 0 .. MaxTroubles
    BY <1>3, Spent DEF Begin
  <2> QED BY <1>1, <1>3, <2>1, <2>2 DEF Begin, TypeOK, Maker, storeVars, clientVars
<1>4. CASE StopContainer \/ StartContainer
  <2>1. troubles' \in 0 .. MaxTroubles /\ running' \in BOOLEAN /\ excused' \in BOOLEAN
    BY <1>4, Spent DEF StopContainer, StartContainer, TypeOK
  <2> QED BY <1>1, <1>4, <2>1 DEF StopContainer, StartContainer, TypeOK, Maker, storeVars, hostVars
<1>5. CASE MkBlockDir \/ StartTar \/ EndTar
  <2>1. troubles' \in 0 .. MaxTroubles
    BY <1>5, Spent DEF MkBlockDir, StartTar, EndTar, RemoveArchive
  <2>2. dir' \in [Blocks -> Contents]
    BY <1>5, Removed DEF MkBlockDir, StartTar, EndTar, TypeOK, Contents
  <2>3. rewritten' \subseteq Blocks
    BY <1>2, <1>5 DEF MkBlockDir, StartTar, EndTar, Rewrites, At, TypeOK
  <2> QED BY <1>1, <1>5, <2>1, <2>2, <2>3
          DEF MkBlockDir, StartTar, EndTar, TypeOK, Maker, clientVars, hostVars
<1>6. CASE TruncateLatest \/ WriteLatest
  <2>1. troubles' \in 0 .. MaxTroubles /\ latest' \in Blocks \cup {None} /\ rewritten' \subseteq Blocks
    BY <1>2, <1>6, Spent DEF TruncateLatest, WriteLatest, At, TypeOK
  <2> QED BY <1>1, <1>6, <2>1 DEF TruncateLatest, WriteLatest, TypeOK, Maker, clientVars, hostVars
<1>7. CASE PruneOld
  <2>1. troubles' \in 0 .. MaxTroubles
    BY <1>7, Spent DEF PruneOld
  <2>2. dir' \in [Blocks -> Contents]
    BY <1>7 DEF PruneOld, TypeOK, Contents
  <2> QED BY <1>1, <1>7, <2>1, <2>2 DEF PruneOld, TypeOK, Maker, clientVars, hostVars
<1>8. CASE Grow \/ AgentStarts \/ Terminate \/ Die \/ Boot
  <2>1. troubles' \in 0 .. MaxTroubles
    BY <1>8, Spent DEF Grow, AgentStarts, Terminate, Die, Boot
  <2>2. height' \in Heights
    BY <1>8, BoundsAssumption DEF Grow, AgentStarts, Terminate, Die, Boot, hostVars, TypeOK, Heights
  <2>3. running' \in BOOLEAN /\ excused' \in BOOLEAN /\ up' \in BOOLEAN /\ cancelled' \in BOOLEAN
    BY <1>8 DEF Grow, AgentStarts, Terminate, Die, Boot, hostVars, clientVars, TypeOK
  <2>4. UNCHANGED <<dir, latest, rewritten, clock>>
    BY <1>8 DEF Grow, AgentStarts, Terminate, Die, Boot, storeVars, hostVars
  <2> QED BY <1>1, <2>1, <2>2, <2>3, <2>4 DEF TypeOK, Maker
<1> QED BY <1>3, <1>4, <1>5, <1>6, <1>7, <1>8 DEF Next, MakerStep

-----------------------------------------------------------------------------
(* What becomes of an archive.                                             *)

Good(b) == dir[b] \in Whole \/ Outnumbered(b)

LEMMA DirsGrow ==
  ASSUME NEW b \in Blocks, Outnumbered(b), dir'[b] \in {"absent", "empty"}, Dirs \subseteq Dirs'
  PROVE  Outnumbered(b)'
<1> PICK S, T : S = {d \in Dirs : d > b} /\ T = {d \in Dirs' : d > b}
  OBVIOUS
<1>1. S \subseteq T /\ T \in SUBSET Blocks
  BY DEF Dirs
<1>2. Cardinality(S) >= Keep /\ Cardinality(S) \in Nat /\ Cardinality(T) \in Nat
      /\ Cardinality(S) <= Cardinality(T)
  BY <1>1, Counted DEF Outnumbered
<1>3. Cardinality(T) >= Keep
  BY <1>2, KeepAssumption
<1> QED BY <1>3 DEF Outnumbered

\* A whole archive stays whole, and one that Keep directories have outnumbered stays
\* outnumbered, until a tar begins at its block; but PruneOld may turn the one into the other.
LEMMA Kept ==
  ASSUME StoreInv, MakerStep, NEW b \in Blocks, Good(b)
  PROVE  Good(b)' \/ (StartTar /\ maker.block = b)
<1> USE DEF StoreInv
<1>t. dir \in [Blocks -> Contents] /\ (maker.pc # "idle" => maker.block \in Blocks)
  BY DEF TypeOK
<1>1. CASE UNCHANGED dir
  <2>1. Dirs' = Dirs
    BY <1>1 DEF Dirs
  <2> QED BY <1>1, <2>1 DEF Good, Outnumbered
<1>2. ASSUME NEW c, dir' = [dir EXCEPT ![maker.block] = c], maker.block \in Blocks,
             c \in Contents \ {"absent"},
             maker.block = b => dir[b] = c \/ (dir[b] = "absent" /\ c = "empty")
      PROVE  Good(b)'
  <2>1. Dirs \subseteq Dirs'
    BY <1>t, <1>2 DEF Dirs
  <2>2. CASE dir[b] \in Whole
    BY <1>t, <1>2, <2>2 DEF Good, Whole
  <2>3. CASE Outnumbered(b)
    <3>1. dir'[b] \in {"absent", "empty"}
      BY <1>t, <1>2, <2>3 DEF Outnumbered
    <3> QED BY <2>1, <2>3, <3>1, DirsGrow DEF Good
  <2> QED BY <2>2, <2>3 DEF Good
<1>3. CASE MkBlockDir
  <2>1. maker.block \in Blocks
    BY <1>t, <1>3 DEF MkBlockDir, At
  <2>2. CASE dir' = [dir EXCEPT ![maker.block] = IF @ = "absent" THEN "empty" ELSE @]
    <3> PICK c : c = IF dir[maker.block] = "absent" THEN "empty" ELSE dir[maker.block]
      OBVIOUS
    <3>1. c \in Contents \ {"absent"}
      BY <1>t, <2>1 DEF Contents
    <3> QED BY <1>2, <2>1, <2>2, <3>1
  <2> QED BY <1>1, <1>3, <2>2 DEF MkBlockDir
<1>4. CASE StartTar
  <2>1. CASE maker.block # b
    <3>1. maker.block \in Blocks
      BY <1>t, <1>4 DEF StartTar, At
    <3>2. CASE dir' # dir
      <4>1. PICK c \in {"partial", "empty"} : dir' = [dir EXCEPT ![maker.block] = c]
        BY <1>4, <3>2, Removed DEF StartTar
      <4> QED BY <1>2, <2>1, <3>1, <4>1 DEF Contents
    <3> QED BY <1>1, <3>2
  <2> QED BY <1>4, <2>1
<1>5. CASE EndTar
  <2>1. maker.block \in Blocks /\ dir[maker.block] = "partial"
    BY <1>t, <1>5 DEF EndTar, At, Making
  <2>2. maker.block # b
    BY <2>1 DEF Good, Outnumbered, Whole
  <2>3. CASE dir' # dir
    <3>1. PICK c \in {"torn", "good", "empty"} : dir' = [dir EXCEPT ![maker.block] = c]
      BY <1>5, <2>3, Removed DEF EndTar
    <3> QED BY <1>2, <2>1, <2>2, <3>1 DEF Contents
  <2> QED BY <1>1, <2>3
<1>6. CASE PruneOld
  <2>1. Dirs' \in SUBSET Blocks /\ Dirs \ Doomed \subseteq Dirs'
    BY <1>t, <1>6 DEF PruneOld, Dirs
  <2>2. dir'[b] \in {dir[b], "absent"} /\ (dir'[b] # dir[b] => b \in Doomed)
    BY <1>t, <1>6 DEF PruneOld
  <2>3. CASE b \in Doomed \/ Outnumbered(b)
    <3>1. Cardinality({d \in Dirs : d > b}) >= Keep
      BY <2>3 DEF Doomed, Outnumbered
    <3>2. Cardinality({d \in Dirs' : d > b}) >= Keep
      BY <2>1, <3>1, StillOutnumbered
    <3> QED BY <2>2, <3>2 DEF Good, Outnumbered
  <2>4. CASE ~(b \in Doomed \/ Outnumbered(b))
    BY <2>2, <2>4 DEF Good
  <2> QED BY <2>3, <2>4
<1> QED BY <1>1, <1>3, <1>4, <1>5, <1>6
        DEF MakerStep, Begin, StopContainer, TruncateLatest, WriteLatest, StartContainer, storeVars

-----------------------------------------------------------------------------
(* The store's invariant.                                                  *)

LEMMA MakingStep == ASSUME StoreInv, Next PROVE Making'
<1> USE DEF StoreInv
<1>t. dir \in [Blocks -> Contents] /\ (maker.pc # "idle" => maker.block \in Blocks)
  BY DEF TypeOK
<1>1. CASE StartTar
  <2>1. maker.block \in Blocks /\ maker'.block = maker.block /\ maker'.pc \in {"taring", "restart"}
    BY <1>t, <1>1, MakerMoves DEF StartTar, At, MakerStep
  <2>2. maker'.pc = "taring" => dir' = [dir EXCEPT ![maker.block] = "partial"]
    BY <1>1 DEF StartTar, Goto, TypeOK
  <2>3. latest' = latest /\ (latest = maker.block => latest \in rewritten')
    BY <1>1 DEF StartTar, Rewrites
  <2> QED BY <1>t, <2>1, <2>2, <2>3 DEF Making
<1>2. CASE EndTar
  <2>1. maker.block \in Blocks /\ maker'.block = maker.block /\ maker'.pc \in {"latest", "restart"}
    BY <1>t, <1>2, MakerMoves DEF EndTar, At, MakerStep
  <2>2. maker'.pc = "latest" => dir'[maker.block] \in Whole
    BY <1>t, <1>2, <2>1 DEF EndTar, Goto, TypeOK, Whole
  <2> QED BY <2>1, <2>2 DEF Making
<1>3. CASE TruncateLatest
  <2>1. /\ maker'.block = maker.block /\ maker'.pc \in {"write", "restart"} /\ dir' = dir
        /\ maker.pc = "latest"
    BY <1>3, MakerMoves DEF TruncateLatest, At, MakerStep
  <2> QED BY <2>1 DEF Making
<1>4. CASE MakerStep /\ ~StartTar /\ ~EndTar /\ ~TruncateLatest
  <2>1. maker'.pc \notin {"taring", "latest", "write"}
    BY <1>4, MakerMoves
  <2> QED BY <2>1 DEF Making
<1>5. CASE Grow \/ AgentStarts \/ Terminate \/ Die \/ Boot
  BY <1>5, HostMoves DEF Making, storeVars, Idle
<1> QED BY <1>1, <1>2, <1>3, <1>4, <1>5 DEF Next

LEMMA StoppedStep == ASSUME StoreInv, Next PROVE StoppedExcused'
<1> USE DEF StoreInv
<1>t. running \in BOOLEAN /\ excused \in BOOLEAN
  BY DEF TypeOK
<1>1. CASE Begin
  BY <1>1, MakerMoves DEF Begin, At, clientVars, StoppedExcused
<1>2. CASE StopContainer
  BY <1>2, MakerMoves DEF StopContainer, At, Goto, MakerStep, StoppedExcused, TypeOK
<1>3. CASE StartContainer
  BY <1>3 DEF StartContainer, StoppedExcused
<1>4. CASE PruneOld
  BY <1>4 DEF PruneOld, At, clientVars, StoppedExcused, Idle
<1>5. CASE MkBlockDir \/ StartTar \/ EndTar \/ TruncateLatest \/ WriteLatest
  <2>1. maker'.pc \notin {"idle", "stop", "prune"}
    BY <1>5, MakerMoves DEF MakerStep, MkBlockDir, StartTar, EndTar, TruncateLatest, WriteLatest, At
  <2> QED BY <2>1 DEF StoppedExcused
<1>6. CASE AgentStarts
  BY <1>6 DEF AgentStarts, StoppedExcused
<1>7. CASE Die
  BY <1>7 DEF Die, StoppedExcused, Idle
<1>8. CASE Grow \/ Terminate \/ Boot
  BY <1>8 DEF Grow, Terminate, Boot, clientVars, StoppedExcused
<1> QED BY <1>1, <1>2, <1>3, <1>4, <1>5, <1>6, <1>7, <1>8 DEF Next, MakerStep

LEMMA ServedStep == ASSUME StoreInv, Next PROVE LatestIsServed'
<1> USE DEF StoreInv
<1>1. LatestIsServed <=> (latest # None => Good(latest) \/ latest \in rewritten)
  BY DEF LatestIsServed, Good, Outnumbered, Whole
<1>2. LatestIsServed' <=> (latest' # None => Good(latest)' \/ latest' \in rewritten')
  BY DEF LatestIsServed, Good, Outnumbered, Whole
<1>3. latest \in Blocks \cup {None}
  BY DEF TypeOK
<1>4. CASE TruncateLatest /\ latest' = None
  BY <1>2, <1>4
<1>5. CASE WriteLatest /\ latest' = maker.block
  <2>1. dir' = dir /\ dir[maker.block] \in Whole
    BY <1>5 DEF WriteLatest, At, Making
  <2> QED BY <1>2, <1>5, <2>1 DEF Good
<1>6. CASE MakerStep /\ latest' = latest /\ rewritten \subseteq rewritten'
  <2>1. StartTar /\ maker.block = latest => latest \in rewritten'
    BY DEF StartTar, Rewrites
  <2> QED BY <1>1, <1>2, <1>3, <1>6, <2>1, Kept
<1>7. CASE Grow \/ AgentStarts \/ Terminate \/ Die \/ Boot
  <2>1. UNCHANGED <<dir, latest, rewritten>>
    BY <1>7, HostMoves DEF storeVars
  <2>2. Dirs' = Dirs
    BY <2>1 DEF Dirs
  <2> QED BY <1>1, <1>2, <2>1, <2>2 DEF Good, Outnumbered
<1>8. ASSUME MakerStep
      PROVE  \/ TruncateLatest /\ latest' = None
             \/ WriteLatest /\ latest' = maker.block
             \/ latest' = latest /\ rewritten \subseteq rewritten'
  BY <1>8 DEF MakerStep, Begin, StopContainer, MkBlockDir, StartTar, EndTar, TruncateLatest,
              WriteLatest, StartContainer, PruneOld, storeVars, Rewrites
<1> QED BY <1>4, <1>5, <1>6, <1>7, <1>8 DEF Next

LEMMA NextStoreInv == ASSUME StoreInv, Next PROVE StoreInv'
BY NextType, MakingStep, StoppedStep, ServedStep DEF StoreInv

LEMMA StoreStutter == ASSUME StoreInv, UNCHANGED vars PROVE StoreInv'
BY DEF vars, StoreInv, TypeOK, Making, StoppedExcused, LatestIsServed, Dirs

-----------------------------------------------------------------------------
(* The download.                                                           *)

LEMMA ServeStep == ASSUME IInv, Serve PROVE IInv'
<1> USE DEF IInv
<1>1. StoreInv'
  BY StoreStutter DEF Serve
<1>2. dir' = dir /\ Dirs' = Dirs /\ Archives' = Archives
  BY DEF Serve, vars, Dirs, Archives
<1>3. CASE HandleLatest
  <2>1. latest \in Blocks /\ (Good(latest) \/ latest \in rewritten)
    BY <1>3 DEF HandleLatest, StoreInv, TypeOK, LatestIsServed, Good, Outnumbered, Whole
  <2>2. (latest \in rewritten) \in BOOLEAN
    OBVIOUS
  <2>3. /\ reader'.pc = "asked" /\ reader'.block = latest
        /\ reader'.retarred = (latest \in rewritten) /\ ReaderTyped'
    BY <1>3, <2>1, <2>2 DEF HandleLatest, NoReader, ReaderTyped
  <2>4. AskedIsServed'
    BY <1>2, <2>1, <2>3 DEF AskedIsServed, Good, Outnumbered
  <2> QED BY <1>1, <2>3, <2>4
<1>4. CASE HandleArchive
  <2>1. CASE reader.block \in Archives
    <3>1. /\ reader'.pc = "streaming" /\ reader'.retarred = reader.retarred
          /\ reader'.stream = IF dir[reader.block] \in Whole THEN "whole" ELSE "short"
          /\ ReaderTyped'
      BY <1>4, <2>1 DEF HandleArchive, ReaderTyped
    <3>2. dir[reader.block] \in Whole \/ reader.retarred
      BY <1>4, <2>1 DEF HandleArchive, AskedIsServed, Outnumbered, Archives
    <3> QED BY <1>1, <3>1, <3>2 DEF AskedIsServed
  <2>2. CASE reader.block \notin Archives
    BY <1>1, <1>4, <2>2 DEF HandleArchive, NoReader, ReaderTyped, AskedIsServed
  <2> QED BY <2>1, <2>2
<1>5. CASE EndDownload
  BY <1>1, <1>5 DEF EndDownload, NoReader, ReaderTyped, AskedIsServed
<1> QED BY <1>3, <1>4, <1>5 DEF Serve

LEMMA FollowStep == ASSUME IInv, Next, Follow PROVE ReaderTyped' /\ AskedIsServed'
<1> USE DEF IInv
<1> PICK hit \in BOOLEAN : hit = (reader.block # None /\ TarBegins(reader.block))
  OBVIOUS
<1> PICK cut \in BOOLEAN : cut = (hit /\ maker'.pc = "taring" /\ reader.file = "named")
  OBVIOUS
<1> PICK gone \in BOOLEAN : gone = (reader.block # None /\ dir'[reader.block] \in {"absent", "empty"})
  OBVIOUS
<1>1. CASE reader' = NoReader
  BY <1>1 DEF NoReader, ReaderTyped, AskedIsServed
<1>2. CASE reader' = [reader EXCEPT
                        !.file = IF reader.file = "named" /\ gone THEN "nameless" ELSE reader.file,
                        !.stream = IF cut THEN "short" ELSE reader.stream,
                        !.retarred = reader.retarred \/ hit]
  <2>1. /\ ReaderTyped' /\ reader'.pc = reader.pc /\ reader'.block = reader.block
        /\ reader'.retarred = (reader.retarred \/ hit)
        /\ reader'.stream = IF cut THEN "short" ELSE reader.stream
    BY <1>2 DEF ReaderTyped
  <2>2. ASSUME reader.pc = "asked", ~reader'.retarred
        PROVE  Good(reader.block)'
    <3>1. reader.block \in Blocks /\ None \notin Blocks
      BY <2>2, BlockNumbers DEF ReaderTyped
    <3>2. Good(reader.block) /\ ~TarBegins(reader.block)
      BY <2>1, <2>2, <3>1 DEF AskedIsServed, Good
    <3> PICK b \in Blocks : b = reader.block /\ b = reader'.block
      BY <2>1, <3>1
    <3>3. CASE MakerStep
      <4>1. ~(StartTar /\ maker.block = reader.block)
        <5> SUFFICES ASSUME StartTar, maker.block = reader.block PROVE FALSE
          OBVIOUS
        <5>1. maker.pc = "tar" /\ At("tar")
          BY DEF StartTar, At
        <5>2. maker'.pc \in {"taring", "restart"}
          BY <3>3, <5>1, MakerMoves DEF StoreInv
        <5> QED BY <3>2, <5>1, <5>2 DEF TarBegins
      <4>2. Good(b)'
        BY <3>2, <3>3, <4>1, Kept
      <4> QED BY <4>2 DEF Good, Outnumbered
    <3>4. CASE Grow \/ AgentStarts \/ Terminate \/ Die \/ Boot
      <4>1. dir' = dir
        BY <3>4, HostMoves DEF storeVars, StoreInv
      <4>2. Dirs' = Dirs
        BY <4>1 DEF Dirs
      <4>3. Good(b)'
        BY <3>2, <4>1, <4>2 DEF Good, Outnumbered
      <4> QED BY <4>3 DEF Good, Outnumbered
    <3> QED BY <3>3, <3>4 DEF Next
  <2>3. ASSUME reader.pc = "streaming"
        PROVE  reader'.stream = "whole" \/ reader'.retarred
    BY <2>1, <2>3 DEF AskedIsServed
  <2> QED BY <2>1, <2>2, <2>3 DEF AskedIsServed, Good, Outnumbered
<1> QED BY <1>1, <1>2 DEF Follow

-----------------------------------------------------------------------------
(* The theorems.                                                           *)

LEMMA InitIInv == ASSUME ServingInit PROVE IInv
<1>1. TypeOK
  <2>1. height \in Heights /\ clock \in Stamps /\ maker \in Maker
    BY BlockNumbers, IdleIsMaker DEF ServingInit, Init
  <2>2. troubles \in 0 .. MaxTroubles
    BY BoundsAssumption DEF ServingInit, Init
  <2>3. running \in BOOLEAN /\ excused \in BOOLEAN
    BY DEF ServingInit, Init
  <2> QED BY <2>1, <2>2, <2>3 DEF ServingInit, Init, TypeOK, Contents, Maker, Idle
<1>2. Making /\ StoppedExcused /\ LatestIsServed
  BY DEF ServingInit, Init, Idle, Making, StoppedExcused, LatestIsServed
<1>3. ReaderTyped /\ AskedIsServed
  BY DEF ServingInit, NoReader, ReaderTyped, AskedIsServed
<1> QED BY <1>1, <1>2, <1>3 DEF IInv, StoreInv

LEMMA NextIInv == ASSUME IInv, [ServingNext]_servingVars PROVE IInv'
<1>1. CASE Serve
  BY <1>1, ServeStep
<1>2. CASE Next /\ Follow
  BY <1>2, FollowStep, NextStoreInv DEF IInv
<1>3. CASE UNCHANGED servingVars
  <2>1. StoreInv'
    BY <1>3, StoreStutter DEF servingVars, IInv
  <2>2. ReaderTyped' /\ AskedIsServed'
    BY <1>3 DEF servingVars, vars, IInv, ReaderTyped, AskedIsServed, Outnumbered, Dirs
  <2> QED BY <2>1, <2>2 DEF IInv
<1> QED BY <1>1, <1>2, <1>3 DEF ServingNext

\* The inductive invariant: what the maker and a download may rely on.
THEOREM Invariance == ServingSpec => []IInv
BY InitIInv, NextIInv, PTL DEF ServingSpec

\* Every variable keeps its type.
THEOREM TypeCorrect == ServingSpec => []TypeOK
<1>1. IInv => TypeOK
  BY DEF IInv, StoreInv
<1> QED BY <1>1, Invariance, PTL

\* What "latest" names can be downloaded, for any -keep: CreateSnapshot publishes what it has
\* finished, PruneOld takes nothing that Keep directories have not outnumbered.
THEOREM LatestServed == ServingSpec => []LatestIsServed
<1>1. IInv => LatestIsServed
  BY DEF IInv, StoreInv
<1> QED BY <1>1, Invariance, PTL

\* "Always restart even on error": what is down between two snapshots has an excuse.
THEOREM Restarted == ServingSpec => []RestartedAfterwards
<1>1. IInv => RestartedAfterwards
  BY DEF IInv, StoreInv, StoppedExcused, RestartedAfterwards
<1> QED BY <1>1, Invariance, PTL

\* A block that was handed out is served, however long ago, with the two exceptions.
THEOREM AskedServed == ServingSpec => []AskedIsServed
<1>1. IInv => AskedIsServed
  BY DEF IInv
<1> QED BY <1>1, Invariance, PTL
=============================================================================
