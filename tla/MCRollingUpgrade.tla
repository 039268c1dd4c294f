--------------------------- MODULE MCRollingUpgrade ---------------------------
(***************************************************************************)
(* RollingUpgrade over three requests for nodes with a client, one of them *)
(* repeated, and one for a node without.                                   *)
(***************************************************************************)
EXTENDS RollingUpgrade

MCRequested == <<"n1", "ghost", "n2", "n1">>
MCNodes == {"n1", "n2"}
=============================================================================
