---------------------------- MODULE MCDnsRegistry ----------------------------
(* DnsRegistry for TLC.  Nothing tells one client from another, so that the  *)
(* first node may be taken to start with a given one.                        *)
EXTENDS DnsRegistry

CONSTANTS n1, geth

MCInit == DnsInit /\ client[n1] = geth

MCSpec == MCInit /\ [][DnsNext]_dnsVars /\ DnsFairness
=============================================================================
