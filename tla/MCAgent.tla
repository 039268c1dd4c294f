------------------------------- MODULE MCAgent -------------------------------
(***************************************************************************)
(* Agent with two client containers, one HTTP pass beside the loop and two *)
(* images.                                                                 *)
(***************************************************************************)
EXTENDS Agent

CONSTANTS execution, consensus

MCOrder == <<execution, consensus>>
=============================================================================
