---------------------------- MODULE SnapshotServing ----------------------------
(***************************************************************************)
(* The snapshot server of a client's archives beside their maker, in one   *)
(* process, and one other node that downloads: it asks for "latest", then  *)
(* opens the archive of the block it was told, then streams it.  Nothing   *)
(* ties the three together.  The maker may prune the block in between; an  *)
(* archive that is being streamed survives that, for its file is open, but *)
(* not a tar that begins at the same block again and truncates the file.   *)
(*                                                                         *)
(* What cannot be told from a whole archive by its length is told by zstd: *)
(* the body of a 404, an archive that was not yet whole, bytes of two      *)
(* archives all make the node's tar fail.                                  *)
(***************************************************************************)
EXTENDS SnapshotStore

VARIABLE
  reader     \* the download: its place, its block, its open file (a block's file or one
             \* without a name), what the stream will amount to; history: has a tar begun
             \* at the block since it was published

servingVars == <<vars, reader>>

NoReader == [pc |-> "idle", block |-> None, file |-> "none", stream |-> "whole", retarred |-> FALSE]

Whole == {"good", "torn"}

ServingInit == Init /\ reader = NoReader

-----------------------------------------------------------------------------
(* The server.                                                             *)

\* Mutant of HandleLatest: the highest block that has an archive, published or not.
MutantHandleLatest ==
  /\ up /\ reader.pc = "idle"
  /\ \E b \in Archives :
       /\ \A c \in Archives : c <= b
       /\ reader' = [NoReader EXCEPT !.pc = "asked", !.block = b]

\* LatestBlock: a "latest" that is missing or empty is an error, nothing is begun.
HandleLatest ==
  /\ up /\ reader.pc = "idle"
  /\ latest # None
  /\ reader' = [NoReader EXCEPT !.pc = "asked", !.block = latest,
                                !.retarred = latest \in rewritten]

\* os.Open and the file's size; without a file the 404 goes to the node's tar, which fails.
HandleArchive ==
  LET b == reader.block IN
  /\ up /\ reader.pc = "asked"
  /\ reader' = IF b \in Archives
               THEN [reader EXCEPT !.pc = "streaming", !.file = "named",
                                   !.stream = IF dir[b] \in Whole THEN "whole" ELSE "short"]
               ELSE NoReader

\* The transfer ends, or fails, or the node that asked has gone.
EndDownload ==
  /\ reader.pc # "idle"
  /\ reader' = NoReader

Serve == (HandleLatest \/ HandleArchive \/ EndDownload) /\ UNCHANGED vars

-----------------------------------------------------------------------------
(* What the maker's steps do to a download.                                *)

TarBegins(b) == At("tar") /\ maker.block = b /\ maker'.pc \in {"taring", "restart"}

\* tar truncates the file it finds; one that was removed goes on to its end without a name.
\* A tar that does not start truncates nothing, but its archive may be removed.
Follow ==
  LET b == reader.block
      hit == b # None /\ TarBegins(b)
      cut == hit /\ maker'.pc = "taring" /\ reader.file = "named"
      removed == b # None /\ dir'[b] \in {"absent", "empty"}
  IN
  reader' =
    IF reader.pc = "streaming" /\ ~up' THEN NoReader
    ELSE [reader EXCEPT !.file = IF @ = "named" /\ removed THEN "nameless" ELSE @,
                        !.stream = IF cut THEN "short" ELSE @,
                        !.retarred = @ \/ hit]

-----------------------------------------------------------------------------
ServingNext == Serve \/ (Next /\ Follow)

ServingFairness ==
  /\ WF_servingVars(MakerStep /\ Follow)
  /\ WF_servingVars(~cancelled /\ Boot /\ Follow)
  /\ WF_servingVars(cancelled /\ Die /\ Follow)

ServingSpec == ServingInit /\ [][ServingNext]_servingVars /\ ServingFairness
-----------------------------------------------------------------------------
(* Properties.                                                             *)

Outnumbered(b) == dir[b] \in {"absent", "empty"} /\ Cardinality({d \in Dirs : d > b}) >= Keep

\* A block number that was handed out stays good for a download however long ago that was,
\* and a download that has begun ends well whatever is pruned, with two exceptions: a tar
\* has begun at the same block since it was published, or the block was pruned before the
\* archive was opened, which Keep directories with higher numbers show.
AskedIsServed ==
  /\ reader.pc = "asked" =>
       dir[reader.block] \in Whole \/ reader.retarred \/ Outnumbered(reader.block)
  /\ reader.pc = "streaming" => reader.stream = "whole" \/ reader.retarred
=============================================================================
