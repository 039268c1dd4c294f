----------------------------- MODULE DnsRegistry -----------------------------
(***************************************************************************)
(* The DNS stage of a pass, the Route 53 zone that all nodes share, and    *)
(* the ethctl commands that delete from it.                                *)
(*                                                                         *)
(* Register finds out the node's public address, deletes the record of the *)
(* name in the node's state file if that is another one (the client was    *)
(* swapped), looks whether the wanted record is current, upserts it, and   *)
(* saves the name in the state file.  Each of these is a command or a file *)
(* operation of its own; a failing lookup passes for "no record".          *)
(*                                                                         *)
(* The name is made of the node's name and its execution client, but the   *)
(* reconciler takes the node's name from a result in which nothing sets    *)
(* it: agents with the same client share one record.                       *)
(***************************************************************************)
EXTENDS Naturals, FiniteSets

CONSTANTS
  Nodes,        \* the nodes of the inventory
  Handlers,     \* nodes where a POST /reconcile may run a pass beside the loop's
  Clients,      \* execution clients
  Inline,       \* nodes whose cluster entry itself, not a profile, names the client
  Ttl,          \* the ttl of the route53 section; 0 when it has none
  NoName,       \* the empty node name
  None,         \* no record, no name
  MaxRequests,  \* bound: passes of the handlers
  MaxChanges,   \* bound: swapped clients and new public addresses
  MaxTroubles   \* bound: failing commands, lost requests, crashes, ethctl's deletions

Passes == (Nodes \X {"loop"}) \cup (Handlers \X {"http"})
NodeOf(x) == x[1]

\* Hostname, and how the reconciler calls it.
Hostname(name, c) == <<name, c>>
AgentHost(c) == Hostname(NoName, c)
Hosts == (Nodes \cup {NoName}) \X Clients
Addresses == Nodes \X (0 .. MaxChanges)

\* Register writes a ttl of 300 for 0; Delete always asks for one of 300.
RecordTtl == IF Ttl = 0 THEN 300 ELSE Ttl

ASSUME SetsAssumption == Handlers \subseteq Nodes /\ Inline \subseteq Nodes /\ NoName \notin Nodes
ASSUME NoneAssumption == None \notin Hosts \cup Addresses
ASSUME BoundsAssumption ==
  Ttl \in Nat /\ MaxRequests \in Nat /\ MaxChanges \in Nat /\ MaxTroubles \in Nat

VARIABLES
  zone,     \* the A records: the address of each name
  state,    \* each node's dns-state.json: the name it registered
  client,   \* the execution client of each node's spec
  ip,       \* each node's public address
  w,        \* each pass: its place, the name and address it registers, the old name, the
            \* value found for it, is its context live
  tool,     \* an ethctl command: its place, the names left, the record it deletes
  budget,   \* requests, changes and troubles so far
  leaked    \* history: names whose record no state file may ever have deleted

dnsVars == <<zone, state, client, ip, w, tool, budget, leaked>>
nodeVars == <<state, client, ip>>

Idle == [pc |-> "idle", host |-> None, ip |-> None, prev |-> None, seen |-> None, live |-> TRUE]
NoTool == [pc |-> "next", todo |-> {}, host |-> None, seen |-> None]

DnsInit ==
  /\ zone = [h \in Hosts |-> None]
  /\ state = [n \in Nodes |-> None]
  /\ client \in [Nodes -> Clients]
  /\ ip = [n \in Nodes |-> <<n, 0>>]
  /\ w = [x \in Passes |-> Idle]
  /\ tool = NoTool
  /\ budget = [requests |-> 0, changes |-> 0, troubles |-> 0]
  /\ leaked = {}

-----------------------------------------------------------------------------
(* Register.                                                               *)

At(x, pc) == w[x].pc = pc
Goto(x, pc) == w' = [w EXCEPT ![x].pc = pc]
Spend(kind, limit) == budget[kind] < limit /\ budget' = [budget EXCEPT ![kind] = @ + 1]
Trouble == Spend("troubles", MaxTroubles)
Works(x) == w[x].live /\ UNCHANGED budget
Fails(x) == IF w[x].live THEN Trouble ELSE UNCHANGED budget

\* Route 53 deletes a record only if its value and its ttl are the ones asked for.
Without(h, value) ==
  IF zone[h] = value /\ RecordTtl = 300 THEN [zone EXCEPT ![h] = None] ELSE zone

\* publicIP; without an address there is no registration.
Begin(x) ==
  LET n == NodeOf(x) IN
  /\ At(x, "idle")
  /\ IF x[2] = "loop" THEN UNCHANGED budget ELSE Spend("requests", MaxRequests)
  /\ w' = [w EXCEPT ![x] = [Idle EXCEPT !.pc = "load", !.host = AgentHost(client[n]), !.ip = ip[n]]]
  /\ UNCHANGED <<zone, nodeVars, tool, leaked>>

\* Mutants of LoadState: the old name is ignored; a name in the state file counts as done;
\* it counts as another one without being compared.
MutantLoadForgets(x) ==
  /\ At(x, "load")
  /\ Goto(x, "look")
  /\ UNCHANGED <<zone, nodeVars, tool, budget, leaked>>

MutantLoadTrusts(x) ==
  LET prev == state[NodeOf(x)] IN
  /\ At(x, "load")
  /\ w' = [w EXCEPT ![x] = IF prev = None THEN [w[x] EXCEPT !.pc = "look"]
                           ELSE IF prev = w[x].host THEN Idle
                           ELSE [w[x] EXCEPT !.pc = "old", !.prev = prev]]
  /\ UNCHANGED <<zone, nodeVars, tool, budget, leaked>>

MutantLoadCompares(x) ==
  LET prev == state[NodeOf(x)] IN
  /\ At(x, "load")
  /\ w' = [w EXCEPT ![x] = IF prev = None THEN [w[x] EXCEPT !.pc = "look"]
                           ELSE [w[x] EXCEPT !.pc = "old", !.prev = prev]]
  /\ UNCHANGED <<zone, nodeVars, tool, budget, leaked>>

\* A state file that is missing, or cannot be read as one, has no name.
LoadState(x) ==
  LET prev == state[NodeOf(x)] IN
  /\ At(x, "load")
  /\ w' = [w EXCEPT ![x] = IF prev \in {None, w[x].host} THEN [w[x] EXCEPT !.pc = "look"]
                           ELSE [w[x] EXCEPT !.pc = "old", !.prev = prev]]
  /\ UNCHANGED <<zone, nodeVars, tool, budget, leaked>>

ForgetOld(x) == w' = [w EXCEPT ![x].pc = "look", ![x].prev = None, ![x].seen = None]

\* Delete, of the old name: look up its value ...
LookOld(x) ==
  LET prev == w[x].prev IN
  /\ At(x, "old")
  /\ \/ /\ Works(x) /\ UNCHANGED leaked
        /\ IF zone[prev] # None THEN w' = [w EXCEPT ![x].pc = "delete", ![x].seen = zone[prev]]
           ELSE ForgetOld(x)
     \/ Fails(x) /\ ForgetOld(x) /\ leaked' = leaked \cup {prev}
  /\ UNCHANGED <<zone, nodeVars, tool>>

\* ... and delete the record with that value.  An error is not fatal to the registration.
DeleteOld(x) ==
  LET prev == w[x].prev IN
  /\ At(x, "delete")
  /\ \/ Works(x) /\ zone' = Without(prev, w[x].seen)
     \/ Fails(x) /\ zone' \in {zone} \cup (IF w[x].live THEN {Without(prev, w[x].seen)} ELSE {})
  /\ leaked' = IF zone'[prev] = None THEN leaked \ {prev} ELSE leaked \cup {prev}
  /\ ForgetOld(x)
  /\ UNCHANGED <<nodeVars, tool>>

\* A record that is current ends the registration, with the state file as it is.
LookWanted(x) ==
  LET h == w[x].host IN
  /\ At(x, "look")
  /\ \/ /\ Works(x) /\ zone[h] = w[x].ip
        /\ w' = [w EXCEPT ![x] = Idle]
        /\ leaked' = IF state[NodeOf(x)] = h THEN leaked ELSE leaked \cup {h}
     \/ /\ (Works(x) /\ zone[h] # w[x].ip) \/ Fails(x)
        /\ Goto(x, "upsert") /\ UNCHANGED leaked
  /\ UNCHANGED <<zone, nodeVars, tool>>

Upsert(x) ==
  LET h == w[x].host
      upserted == [zone EXCEPT ![h] = w[x].ip]
  IN
  /\ At(x, "upsert")
  /\ \/ Works(x) /\ zone' = upserted /\ Goto(x, "save") /\ UNCHANGED leaked
     \/ /\ Fails(x) /\ zone' \in {zone} \cup (IF w[x].live THEN {upserted} ELSE {})
        /\ w' = [w EXCEPT ![x] = Idle]
        /\ leaked' = leaked \cup {h}
  /\ UNCHANGED <<nodeVars, tool>>

\* A pass that read the state file before may yet overwrite what this one saves.
Overlapped(x) ==
  \E y \in Passes \ {x} : NodeOf(y) = NodeOf(x) /\ w[y].pc \notin {"idle", "load"}

\* saveState drops its errors.  os.WriteFile truncates the file ...
TruncateState(x) ==
  /\ At(x, "save")
  /\ \/ /\ state' = [state EXCEPT ![NodeOf(x)] = None]
        /\ Goto(x, "write")
        /\ UNCHANGED <<budget, leaked>>
     \/ /\ Trouble
        /\ w' = [w EXCEPT ![x] = Idle]
        /\ leaked' = leaked \cup {w[x].host}
        /\ UNCHANGED state
  /\ UNCHANGED <<zone, client, ip, tool>>

\* ... and writes it; over what another pass has written since, of which a part may remain
\* and make the file unreadable.
WriteState(x) ==
  LET n == NodeOf(x)
      h == w[x].host
  IN
  /\ At(x, "write")
  /\ \/ /\ state' = [state EXCEPT ![n] = h]
        /\ leaked' = IF Overlapped(x) THEN leaked \cup {h} ELSE leaked \ {h}
        /\ UNCHANGED budget
     \/ /\ IF state[n] # None THEN UNCHANGED budget ELSE Trouble
        /\ state' = [state EXCEPT ![n] = None]
        /\ leaked' = leaked \cup {h}
  /\ w' = [w EXCEPT ![x] = Idle]
  /\ UNCHANGED <<zone, client, ip, tool>>

Saving(x) == At(x, "save") \/ At(x, "write")

PassStep(x) ==
  \/ LoadState(x) \/ LookOld(x) \/ DeleteOld(x) \/ LookWanted(x) \/ Upsert(x)
  \/ TruncateState(x) \/ WriteState(x)

\* The client of a request goes away: every later command of its pass fails.
LoseRequest(x) ==
  /\ x[2] = "http" /\ ~At(x, "idle") /\ w[x].live
  /\ Trouble
  /\ w' = [w EXCEPT ![x].live = FALSE]
  /\ UNCHANGED <<zone, nodeVars, tool, leaked>>

\* The agent of a node dies between two commands and is started again.
Crash(n) ==
  LET own == {x \in Passes : NodeOf(x) = n /\ ~At(x, "idle")} IN
  /\ own # {}
  /\ Trouble
  /\ w' = [x \in Passes |-> IF x \in own THEN Idle ELSE w[x]]
  /\ leaked' = leaked \cup {w[x].host : x \in {y \in own : Saving(y)}}
  /\ UNCHANGED <<zone, nodeVars, tool>>

-----------------------------------------------------------------------------
(* ethctl, and the inventory.                                              *)

\* expectedHostnames reads the client of the cluster entry, with no profile merged in.
ExpectedHostnames == {Hostname(n, client[n]) : n \in Inline}

\* ethctl dns cleanup: the records that are not expected, deleted one by one.
Cleanup ==
  LET stale == {h \in Hosts : zone[h] # None} \ ExpectedHostnames IN
  /\ tool = NoTool /\ stale # {}
  /\ Trouble
  /\ tool' = [tool EXCEPT !.todo = stale]
  /\ UNCHANGED <<zone, nodeVars, w, leaked>>

\* ethctl dns decommission.
Decommission(n) ==
  /\ tool = NoTool
  /\ Trouble
  /\ tool' = [tool EXCEPT !.todo = {Hostname(n, client[n])}]
  /\ UNCHANGED <<zone, nodeVars, w, leaked>>

ToolLook ==
  /\ tool.pc = "next"
  /\ \E h \in tool.todo :
       \/ /\ zone[h] # None /\ UNCHANGED budget
          /\ tool' = [pc |-> "delete", todo |-> tool.todo \ {h}, host |-> h, seen |-> zone[h]]
       \/ /\ IF zone[h] = None THEN UNCHANGED budget ELSE Trouble
          /\ tool' = [tool EXCEPT !.todo = tool.todo \ {h}]
  /\ UNCHANGED <<zone, nodeVars, w, leaked>>

ToolDelete ==
  /\ tool.pc = "delete"
  /\ \/ UNCHANGED budget /\ zone' = Without(tool.host, tool.seen)
     \/ Trouble /\ zone' \in {zone, Without(tool.host, tool.seen)}
  /\ tool' = [NoTool EXCEPT !.todo = tool.todo]
  /\ UNCHANGED <<nodeVars, w, leaked>>

SwapClient(n) ==
  /\ Spend("changes", MaxChanges)
  /\ \E c \in Clients \ {client[n]} : client' = [client EXCEPT ![n] = c]
  /\ UNCHANGED <<zone, state, ip, w, tool, leaked>>

MoveNode(n) ==
  /\ Spend("changes", MaxChanges)
  /\ ip' = [ip EXCEPT ![n] = <<n, ip[n][2] + 1>>]
  /\ UNCHANGED <<zone, state, client, w, tool, leaked>>

DnsNext ==
  \/ \E x \in Passes : Begin(x) \/ PassStep(x) \/ LoseRequest(x)
  \/ \E n \in Nodes : Crash(n) \/ SwapClient(n) \/ MoveNode(n) \/ Decommission(n)
  \/ Cleanup \/ ToolLook \/ ToolDelete

\* Each node's loop ticks and its passes move on; ethctl and its operator need not.
DnsFairness ==
  /\ \A n \in Nodes : WF_dnsVars(Begin(<<n, "loop">>))
  /\ \A x \in Passes : WF_dnsVars(PassStep(x))

DnsSpec == DnsInit /\ [][DnsNext]_dnsVars /\ DnsFairness
-----------------------------------------------------------------------------
(* Properties.                                                             *)

\* Every variable keeps its type; what a pass deletes is never the name it is about to
\* register.
DnsTypeOK ==
  /\ zone \in [Hosts -> Addresses \cup {None}]
  /\ state \in [Nodes -> Hosts \cup {None}]
  /\ client \in [Nodes -> Clients]
  /\ ip \in [Nodes -> Addresses]
  /\ w \in [Passes -> [pc : {"idle", "load", "old", "delete", "look", "upsert", "save", "write"},
                       host : Hosts \cup {None}, ip : Addresses \cup {None},
                       prev : Hosts \cup {None}, seen : Addresses \cup {None}, live : BOOLEAN]]
  /\ \A x \in Passes : w[x].pc \in {"old", "delete"} => w[x].prev \notin {None, w[x].host}
  /\ tool \in [pc : {"next", "delete"}, todo : SUBSET Hosts, host : Hosts \cup {None},
               seen : Addresses \cup {None}]
  /\ budget \in [requests : 0 .. MaxRequests, changes : 0 .. MaxChanges, troubles : 0 .. MaxTroubles]
  /\ leaked \subseteq Hosts

\* A client swap leaves no record behind: every record is the one some node's state file
\* names, which that node deletes when its client changes, or is about to be, unless its
\* deletion or the saving of its name failed or was cut off, it was found current while
\* the state file named another, or two passes of one node overlapped.
LeftBehindIsExplained ==
  \A h \in Hosts :
    zone[h] # None =>
      \/ h \in leaked
      \/ \E n \in Nodes : state[n] = h
      \/ \E x \in Passes : Saving(x) /\ w[x].host = h

\* Registration heals: whatever ethctl, the other nodes, crashes or a stale state file have
\* done to the zone, each node's client has a record with the node's address again and
\* again, the node's latest client and its latest address.
RegistersAgain == \A n \in Nodes : []<>(zone[AgentHost(client[n])] = ip[n])
=============================================================================
