------------------------------ MODULE MCFirewall ------------------------------
(***************************************************************************)
(* Firewall with a cut of the mainnet-base rules: the agent's port, whose  *)
(* digits hold those of the consensus client's, and that one for tcp and   *)
(* for udp; one management network and one gateway.                        *)
(***************************************************************************)
EXTENDS Firewall

Rule(port, proto, from) == [port |-> port, proto |-> proto, from |-> from]

MCRules == <<Rule(19000, "tcp", "any"), Rule(9000, "tcp", "any"), Rule(9000, "udp", "any")>>
MCManagement == <<Rule(19000, "tcp", "office")>>
MCGateways == <<Rule(5052, "tcp", "gateway")>>
MCOccurs == {<<9000, 19000>>}
=============================================================================
