-------------------------- MODULE MCSnapshotRestore --------------------------
(***************************************************************************)
(* SnapshotRestore with the datadirs of both clients and one HTTP pass     *)
(* beside the loop.                                                        *)
(***************************************************************************)
EXTENDS SnapshotRestore

MCDirs == <<"execution", "consensus">>
MCUnserved == {"consensus"}
=============================================================================
