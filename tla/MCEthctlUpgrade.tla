---------------------------- MODULE MCEthctlUpgrade ----------------------------
(* Small instance of EthctlUpgrade for TLC: three files, two of them with one name, and a *)
(* second directory in which the last target has no file.                                 *)
EXTENDS EthctlUpgrade

File(name, host) == [name |-> name, host |-> host]
MCInventories ==
  { << File("a", "h1"), File("b", "h2"), File("a", "h3") >>, << File("b", "h2"), File("c", "h3") >> }
MCTargets == <<"b", "a">>
=============================================================================
