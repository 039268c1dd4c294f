------------------------------ MODULE Inventory ------------------------------
(***************************************************************************)
(* From inventory files to node specs.  A spec is built from layers: the   *)
(* profiles a node names, those of its cluster first, and what the node    *)
(* says itself on top.  Two packages do this, each with a mergeSpecs and a *)
(* loader of its own: inventory (a cluster file, or a directory of node    *)
(* files) and profile (one node).                                          *)
(*                                                                         *)
(* Specs are Go structs: copied by assignment, but for maps and slices,    *)
(* which go on pointing to the same memory.  A profile is merged into many *)
(* nodes, so whether a merge writes to its own memory or to that of a      *)
(* layer is what decides if one node's override shows up in another.  The  *)
(* model keeps the memory: maps and arrays by address.                     *)
(*                                                                         *)
(* One field stands for each way a field is merged: schedule (a string),   *)
(* mev (a struct with a switch), flags (a map), rules (a list with keys),  *)
(* gateways (a list that only package profile merges, as it does Route 53, *)
(* the snapshot settings and others that package inventory leaves out).    *)
(***************************************************************************)
EXTENDS Integers, SequencesExt

CONSTANTS
  Jobs,      \* the calls to look at: entry point and the files it finds
  NoString   \* the string "", a field that is not set

\* What a file says: a map, and two lists.
IsFileSpec(s) ==
  /\ s = [f \in {"schedule", "mev", "flags", "rules", "gateways"} |-> s[f]]
  /\ s.rules \in Seq(ToSet(s.rules)) /\ s.gateways \in Seq(ToSet(s.gateways))
  /\ s.mev \in [on : BOOLEAN, image : {s.mev.image}]
  /\ s.flags = [f \in DOMAIN s.flags |-> s.flags[f]]

VARIABLES
  job,       \* the call
  pc,        \* its place: "load", "expand", "merge", "done", "failed"
  profiles,  \* the profiles it has loaded, by name
  at,        \* the index of its loop over the nodes
  nodes,     \* what it returns so far
  build,     \* the node at work: its list of profiles, the next of them, the spec so far
  mem        \* the memory: maps and arrays by address

vars == <<job, pc, profiles, at, nodes, build, mem>>

ASSUME JobsAssumption ==
  \A j \in Jobs :
    /\ j.entry \in {"cluster", "directory", "profile"} /\ j.spare \in Nat
    /\ j.shared \in Seq(ToSet(j.shared)) /\ (j.entry # "cluster" => j.shared = <<>>)
    /\ j.files \in Seq(ToSet(j.files)) /\ j.nodes \in Seq(ToSet(j.nodes))
    /\ \A f \in ToSet(j.files) : IsFileSpec(f.spec) /\ f.sub \in BOOLEAN /\ f.unreadable \in BOOLEAN
    /\ \A n \in ToSet(j.nodes) :
         /\ IsFileSpec(n.spec) /\ n.own \in Seq(ToSet(n.own))
         /\ n.disabled \in BOOLEAN /\ (j.entry # "cluster" => ~n.disabled)

-----------------------------------------------------------------------------
(* Memory.                                                                 *)

Nil == <<"nil", 0, "nil">>
NilSlice == [array |-> Nil, len |-> 0]
Blank == "blank"

Table(m, addr) == IF addr = Nil THEN <<>> ELSE m[addr]
Elems(m, s) == [k \in 1 .. s.len |-> m[s.array][k]]
Cap(m, s) == IF s.array = Nil THEN 0 ELSE Len(m[s.array])

Fresh(m) == <<"new", Cardinality(DOMAIN m), "new">>
Store(m, addr, object) == [a \in DOMAIN m \cup {addr} |-> IF a = addr THEN object ELSE m[a]]
Overlay(top, base) ==
  [x \in DOMAIN top \cup DOMAIN base |-> IF x \in DOMAIN top THEN top[x] ELSE base[x]]
Larger(n, m) == IF n > m THEN n ELSE m

\* append: into the array when there is room, also if others share it, else into a new one
\* of twice the capacity.
AppendTo(m, s, values) ==
  LET n == s.len + Len(values)
      Filled(size) == [k \in 1 .. size |-> IF k \in s.len + 1 .. n THEN values[k - s.len]
                                           ELSE IF k <= Cap(m, s) THEN m[s.array][k] ELSE Blank]
      grown == Filled(Larger(n, 2 * Cap(m, s)))
  IN
  IF values = <<>> THEN [mem |-> m, slice |-> s]
  ELSE IF n <= Cap(m, s)
  THEN [mem |-> Store(m, s.array, Filled(Cap(m, s))), slice |-> [array |-> s.array, len |-> n]]
  ELSE [mem |-> Store(m, Fresh(m), grown), slice |-> [array |-> Fresh(m), len |-> n]]

\* Mutant of PutAll: a map that is not there yet is not made, the layer's is taken.
MutantPutAll(m, dst, src) ==
  IF Table(m, src) = <<>> THEN [mem |-> m, addr |-> dst]
  ELSE IF dst = Nil THEN [mem |-> m, addr |-> src]
  ELSE [mem |-> Store(m, dst, Overlay(m[src], m[dst])), addr |-> dst]

\* Key by key into a map, which is made when it is not there yet.
PutAll(m, dst, src) ==
  IF Table(m, src) = <<>> THEN [mem |-> m, addr |-> dst]
  ELSE IF dst = Nil THEN [mem |-> Store(m, Fresh(m), m[src]), addr |-> Fresh(m)]
  ELSE [mem |-> Store(m, dst, Overlay(m[src], m[dst])), addr |-> dst]

LastOf(S) == CHOOSE k \in S : \A j \in S : j <= k

\* The elements of a list at the indices in K, in their order.
Rank(K, k) == Cardinality({j \in K : j <= k})
Chosen(list, K) == [i \in 1 .. Cardinality(K) |-> list[CHOOSE k \in K : Rank(K, k) = i]]

\* The index of keys is made once: in dst the last rule with a key, and never those appended.
Hits(rules, src, k) ==
  {j \in DOMAIN src : /\ src[j].key = rules[k].key
                      /\ \A i \in k + 1 .. Len(rules) : rules[i].key # src[j].key}
Updated(rules, src) ==
  [k \in DOMAIN rules |-> IF Hits(rules, src, k) = {} THEN rules[k] ELSE src[LastOf(Hits(rules, src, k))]]
Unknown(rules, src) == {j \in DOMAIN src : \A k \in DOMAIN rules : rules[k].key # src[j].key}

MergeRules(m, dst, src) ==
  LET rules == Elems(m, dst)
      cells == [k \in DOMAIN m[dst.array] |-> IF k <= dst.len THEN Updated(rules, src)[k]
                                              ELSE m[dst.array][k]]
  IN AppendTo(IF dst.array = Nil THEN m ELSE Store(m, dst.array, cells), dst,
              Chosen(src, Unknown(rules, src)))

-----------------------------------------------------------------------------
(* The two mergeSpecs; h is the memory and the spec that is merged into.   *)

Off == [on |-> FALSE, image |-> NoString]
EmptySpec == [schedule |-> NoString, mev |-> Off, flags |-> Nil, rules |-> NilSlice, gateways |-> NilSlice]

Or(new, old) == IF new # NoString THEN new ELSE old

InventoryMerge(h, src) ==
  LET f == PutAll(h.mem, h.spec.flags, src.flags)
      r == AppendTo(f.mem, h.spec.rules, Elems(f.mem, src.rules))
  IN [mem |-> r.mem,
      spec |-> [schedule |-> Or(src.schedule, h.spec.schedule),
                mev |-> IF src.mev.on THEN src.mev ELSE h.spec.mev,
                flags |-> f.addr, rules |-> r.slice, gateways |-> h.spec.gateways]]

ProfileMerge(h, src) ==
  LET f == PutAll(h.mem, h.spec.flags, src.flags)
      r == MergeRules(f.mem, h.spec.rules, Elems(f.mem, src.rules))
      g == AppendTo(r.mem, h.spec.gateways, Elems(r.mem, src.gateways))
  IN [mem |-> g.mem,
      spec |-> [schedule |-> Or(src.schedule, h.spec.schedule),
                mev |-> [on |-> h.spec.mev.on \/ src.mev.on,
                         image |-> Or(src.mev.image, h.spec.mev.image)],
                flags |-> f.addr, rules |-> r.slice, gateways |-> g.slice]]

MergeSpecs(h, src) ==
  IF job.entry = "profile" THEN ProfileMerge(h, src) ELSE InventoryMerge(h, src)

-----------------------------------------------------------------------------
(* The files, as yaml.Unmarshal puts them into memory: what is empty stays *)
(* nil; a list has an array of its own, with room left by null entries.    *)

Slice(addr, list) == IF list = <<>> THEN NilSlice ELSE [array |-> addr, len |-> Len(list)]
SpecAt(kind, k, spec) ==
  [schedule |-> spec.schedule, mev |-> spec.mev,
   flags |-> IF spec.flags = <<>> THEN Nil ELSE <<kind, k, "flags">>,
   rules |-> Slice(<<kind, k, "rules">>, spec.rules),
   gateways |-> Slice(<<kind, k, "gateways">>, spec.gateways)]

Fields(kind, specs) == {kind} \X (1 .. Len(specs)) \X {"flags", "rules", "gateways"}

ListAddr == <<"cluster", 0, "profiles">>
Decoded(j) ==
  [a \in {ListAddr} \cup Fields("file", j.files) \cup Fields("node", j.nodes) |->
     IF a = ListAddr THEN j.shared \o [k \in 1 .. j.spare |-> Blank]
     ELSE IF a[1] = "file" THEN j.files[a[2]].spec[a[3]]
     ELSE j.nodes[a[2]].spec[a[3]]]

\* The process has ended and its memory with it.
Gone == [entry |-> "gone", files |-> <<>>, shared |-> <<>>, spare |-> 0, nodes |-> <<>>]

NoBuild == [names |-> NilSlice, k |-> 1, spec |-> EmptySpec]

Init ==
  /\ job \in Jobs
  /\ pc = "load"
  /\ profiles = <<>>
  /\ at = 1
  /\ nodes = <<>>
  /\ build = NoBuild
  /\ mem = Decoded(job)

-----------------------------------------------------------------------------
(* The call.                                                               *)

\* Package profile walks the tree, package inventory reads the directory itself only.
Read == {k \in 1 .. Len(job.files) : job.entry = "profile" \/ ~job.files[k].sub}
Named(n) == {k \in Read : job.files[k].name = n}
Loaded == {job.files[k].name : k \in Read}

\* Two profiles with one name, or one without a name, are an error to package profile; to
\* package inventory the last file stands.
LoadProfiles ==
  /\ pc = "load"
  /\ \/ /\ \E k \in Read : job.files[k].unreadable
        /\ pc' = "failed" /\ UNCHANGED profiles
     \/ /\ \A k \in Read : ~job.files[k].unreadable
        /\ job.entry = "profile" /\ (NoString \in Loaded \/ \E n \in Loaded : Cardinality(Named(n)) > 1)
        /\ pc' = "failed" /\ UNCHANGED profiles
     \/ /\ \A k \in Read : ~job.files[k].unreadable
        /\ job.entry = "profile" => NoString \notin Loaded /\ \A n \in Loaded : Cardinality(Named(n)) = 1
        /\ profiles' = [n \in Loaded |-> SpecAt("file", LastOf(Named(n)), job.files[LastOf(Named(n))].spec)]
        /\ pc' = "expand"
  /\ UNCHANGED <<job, at, nodes, build, mem>>

Node == job.nodes[at]
NodeSpec == SpecAt("node", at, Node.spec)

\* Mutant of AllProfiles: the list has been made with room for every node's own.
MutantAllProfiles ==
  AppendTo(Store(mem, ListAddr, mem[ListAddr] \o [k \in 1 .. 4 |-> Blank]),
           [array |-> ListAddr, len |-> Len(job.shared)], Node.own)

\* A cluster's nodes get its profiles before their own, in one append; the other entry
\* points have no cluster.
AllProfiles ==
  IF job.entry = "cluster"
  THEN AppendTo(mem, IF job.shared = <<>> /\ job.spare = 0 THEN NilSlice
                     ELSE [array |-> ListAddr, len |-> Len(job.shared)], Node.own)
  ELSE AppendTo(mem, NilSlice, Node.own)

\* A node of a directory that names no profile keeps its spec as it is; every other one,
\* of a cluster too, has its spec merged into an empty one.
Untouched(k) == job.entry = "directory" /\ job.nodes[k].own = <<>>

KeepNode ==
  /\ pc = "expand" /\ at <= Len(job.nodes) /\ Untouched(at)
  /\ nodes' = Append(nodes, [from |-> at, spec |-> NodeSpec, profiles |-> NilSlice])
  /\ at' = at + 1
  /\ UNCHANGED <<job, pc, profiles, build, mem>>

\* Only a cluster's nodes can be disabled.
SkipDisabled ==
  /\ pc = "expand" /\ at <= Len(job.nodes) /\ Node.disabled
  /\ at' = at + 1
  /\ UNCHANGED <<job, pc, profiles, nodes, build, mem>>

StartNode ==
  /\ pc = "expand" /\ at <= Len(job.nodes) /\ ~Node.disabled /\ ~Untouched(at)
  /\ mem' = AllProfiles.mem
  /\ build' = [names |-> AllProfiles.slice, k |-> 1, spec |-> EmptySpec]
  /\ pc' = "merge"
  /\ UNCHANGED <<job, profiles, at, nodes>>

\* The loop over the list, one profile a step.
Name == mem[build.names.array][build.k]
Merged(src) == MergeSpecs([mem |-> mem, spec |-> build.spec], src)

MergeProfile ==
  /\ pc = "merge" /\ build.k <= build.names.len
  /\ Name \in DOMAIN profiles
  /\ mem' = Merged(profiles[Name]).mem
  /\ build' = [build EXCEPT !.k = build.k + 1, !.spec = Merged(profiles[Name]).spec]
  /\ UNCHANGED <<job, pc, profiles, at, nodes>>

\* Mutant of UnknownProfile: the nodes that went well are returned with the error.
MutantUnknownProfile ==
  /\ pc = "merge" /\ build.k <= build.names.len
  /\ Name \notin DOMAIN profiles
  /\ pc' = "failed"
  /\ UNCHANGED <<job, profiles, at, nodes, build, mem>>

\* An unknown profile fails the whole call.
UnknownProfile ==
  /\ pc = "merge" /\ build.k <= build.names.len
  /\ Name \notin DOMAIN profiles
  /\ nodes' = <<>> /\ build' = NoBuild
  /\ pc' = "failed"
  /\ UNCHANGED <<job, profiles, at, mem>>

\* The node's own spec goes on top.
FinishNode ==
  /\ pc = "merge" /\ build.k > build.names.len
  /\ mem' = Merged(NodeSpec).mem
  /\ nodes' = Append(nodes, [from |-> at, spec |-> Merged(NodeSpec).spec, profiles |-> build.names])
  /\ at' = at + 1 /\ build' = NoBuild
  /\ pc' = "expand"
  /\ UNCHANGED <<job, profiles>>

Return ==
  /\ pc = "expand" /\ at > Len(job.nodes)
  /\ pc' = "done"
  /\ UNCHANGED <<job, profiles, at, nodes, build, mem>>

Next ==
  \/ LoadProfiles \/ KeepNode \/ SkipDisabled \/ StartNode \/ MergeProfile \/ UnknownProfile
  \/ FinishNode \/ Return

Spec == Init /\ [][Next]_vars
-----------------------------------------------------------------------------
(* What the layers amount to, told from the files alone.                   *)

Names(k) == (IF job.entry = "cluster" THEN job.shared ELSE <<>>) \o job.nodes[k].own
Layers(k) == [j \in 1 .. Len(Names(k)) |-> job.files[LastOf(Named(Names(k)[j]))].spec]
               \o <<job.nodes[k].spec>>

Concat(layers, field) == FlattenSeq([j \in DOMAIN layers |-> layers[j][field]])
TopWith(layers, Has(_)) == LastOf({0} \cup {j \in DOMAIN layers : Has(layers[j])})

TopString(layers, Get(_)) ==
  LET top == TopWith(layers, LAMBDA l : Get(l) # NoString)
  IN IF top = 0 THEN NoString ELSE Get(layers[top])

TopFlags(layers) ==
  [f \in UNION {DOMAIN layers[j].flags : j \in DOMAIN layers} |->
     layers[TopWith(layers, LAMBDA l : f \in DOMAIN l.flags)].flags[f]]

With(list, key) == {k \in DOMAIN list : list[k].key = key}

\* Of the rules with one key the top layer's stands, alone, provided no layer has the key twice.
RulesAreTop(layers, rules) ==
  \A key \in UNION {{r.key : r \in ToSet(layers[j].rules)} : j \in DOMAIN layers} :
    (\A j \in DOMAIN layers : Cardinality(With(layers[j].rules, key)) <= 1) =>
      LET top == layers[TopWith(layers, LAMBDA l : With(l.rules, key) # {})].rules IN
      \E k \in DOMAIN rules, i \in DOMAIN top :
        With(rules, key) = {k} /\ With(top, key) = {i} /\ rules[k] = top[i]

\* What a spec says, wherever in the memory its map and its lists are.
Said(m, spec) ==
  [schedule |-> spec.schedule, mev |-> spec.mev, flags |-> Table(m, spec.flags),
   rules |-> Elems(m, spec.rules), gateways |-> Elems(m, spec.gateways)]

Layered(layers, said) ==
  /\ said.schedule = TopString(layers, LAMBDA l : l.schedule)
  /\ said.flags = TopFlags(layers)
  /\ IF job.entry = "profile"
     THEN /\ said.mev = [on |-> \E j \in DOMAIN layers : layers[j].mev.on,
                         image |-> TopString(layers, LAMBDA l : l.mev.image)]
          /\ RulesAreTop(layers, said.rules)
          /\ said.gateways = Concat(layers, "gateways")
     ELSE /\ LET top == TopWith(layers, LAMBDA l : l.mev.on)
             IN said.mev = IF top = 0 THEN Off ELSE layers[top].mev
          /\ said.rules = Concat(layers, "rules")
          /\ said.gateways = <<>>

-----------------------------------------------------------------------------
(* Properties.                                                             *)

\* Later layers win over earlier ones and the node over its profiles, for every node of the
\* call, when its merge ends and for good: no node's override leaks into another node
\* through a profile they share.
SpecsAreLayered ==
  \A k \in DOMAIN nodes :
    LET from == nodes[k].from
        said == Said(mem, nodes[k].spec)
    IN IF Untouched(from) THEN said = job.nodes[from].spec ELSE Layered(Layers(from), said)

\* The profile list a node is returned with is its cluster's and then its own, unless a
\* later node with profiles of its own has overwritten them: all lists share the cluster's
\* array if that has room, which yaml.Unmarshal leaves for null entries.
ListsAreOwn ==
  \A k \in DOMAIN nodes :
    LET own(n) == job.nodes[n].own
        from == nodes[k].from
        reached == IF pc = "merge" THEN at ELSE at - 1
    IN \/ Elems(mem, nodes[k].profiles) = Names(from)
       \/ /\ Len(own(from)) \in 1 .. job.spare
          /\ \E later \in from + 1 .. reached : ~job.nodes[later].disabled /\ Len(own(later)) \in 1 .. job.spare

InMemory(s) == s.array \in DOMAIN mem \cup {Nil} /\ s.len \in 0 .. Cap(mem, s)

\* Every variable keeps its type; an address that is in use has an object, a slice has no
\* more elements than its array, and a call that fails returns no nodes.
TypeOK ==
  /\ job \in Jobs \cup {Gone}
  /\ pc \in {"load", "expand", "merge", "done", "failed", "gone"}
  /\ DOMAIN profiles \subseteq Loaded
  /\ pc = "failed" => nodes = <<>>
  /\ at \in 1 .. Len(job.nodes) + 1
  /\ build.k \in 1 .. build.names.len + 1 /\ (pc # "merge" => build = NoBuild)
  /\ \A k \in DOMAIN nodes : nodes[k].from \in 1 .. at - 1
  /\ \A spec \in {build.spec} \cup {nodes[k].spec : k \in DOMAIN nodes} :
       spec.flags \in DOMAIN mem \cup {Nil} /\ InMemory(spec.rules) /\ InMemory(spec.gateways)
  /\ \A list \in {build.names} \cup {nodes[k].profiles : k \in DOMAIN nodes} : InMemory(list)
===============================================================================
