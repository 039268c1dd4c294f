# eth-node-operator: a TLA+ verification project

`eth-node-operator` keeps bare-metal Ethereum hosts in line with a YAML inventory. On each host an
agent (`ethagent`) reconciles the host with `/etc/ethagent/node.yaml` every few minutes and on
request; a `snapshot-server` process makes and serves archives of the clients' datadirs;
operators use `ethctl`, and a rolling upgrade drives the agents over HTTP. The modules here are
translated from the Go source under `src/`; `PROJECT.json` maps every definition to its lines.

## 1. The system

| component | source | state it keeps | operations |
|---|---|---|---|
| agent: loop and HTTP server | `internal/agent/server.go`, `cmd/agent` | `cordoned` (memory only); nothing else | tick, `/cordon`, `/reconcile`, `/restart`, `/status`, boot, death |
| reconciler | `internal/reconciler` | none; a pass works on its copy of the spec | ten stages in fixed order, each with its error collected |
| docker client | `pkg/dockerclient` | docker's containers | inspect, pull, stop, start, restart |
| disk manager, JWT secret | `internal/disk`, `internal/jwt` | array, file system, mount, fstab; secret file | provision, `EnsureExists` |
| firewall | `internal/ufw` | ufw's rules and whether it is on | drift check, enable, policy, reset, add |
| snapshot restore | `internal/snapshot/downloader.go` | datadirs, marker file | look, discover, `curl \| tar`, mark |
| snapshot maker | `internal/snapshot/maker.go`, `cmd/snapshot-server` | block directories, `latest` | create, prune |
| snapshot HTTP server | `internal/snapshot/server.go` | none; the open archive of each download | latest, archive |
| DNS registration | `internal/dns` | zone (shared by all nodes), state file per node | register, delete, and `ethctl dns cleanup / decommission` |
| rolling upgrade | `internal/upgrade`, `cli/agentclient` | semaphore, results | `RollingUpgrade`, `upgradeNode`, `waitForSync` |
| ethctl upgrade, cordon, uncordon | `cli/commands` | the loop over its targets; cordons live in the agents | look up, preflight, cordon, reconcile, uncordon, first error ends it |
| inventory, profiles | `pkg/inventory`, `pkg/profile` | none; maps and slices that profiles and nodes may share | load, expand, merge |
| maintenance window | `internal/maintenance` | none | parse, `IsOpen`, `NextOpen` |
| collector, discover, obs, auth, types | | none | read-only probes, one docker compose call, a request filter |

How they interact. The loop and every `POST /reconcile` handler run the same pass, in goroutines
of their own and **without a lock between them**; `Agent.mu` only guards the `cordoned` flag. A
handler's pass runs under the request's context, and `ethctl` gives up after 10 s, so that passes
are regularly killed in the middle. Stages act through external programs (docker, ufw, mkfs,
mount, curl, tar, aws), each atomic at best. The orchestrator, the snapshot maker and the
operators' tools change the same containers, cordons and records without knowing of the passes.

What is hard, and where it is written down: the `hazards` of `PROJECT.json`, each at its line. They
fall into four groups: state looked at long before it is used (datadir emptiness, drift, current
record, mounted or not); two passes, or a pass and another program, on one resource; steps that
stay undone after a failure, a crash or a cancelled context (start after stop, uncordon after
cordon, save after upsert, rename after write); and answers that hide an error (sync status, blkid,
RPC fallbacks). Of the pure code, the hard parts are memory that is shared without being meant to be
(a profile's maps in the specs of many nodes) and the boundaries of a schedule.

What makes each component correct: clients end up running and are never left down by a pass
(`Agent`); at most N nodes are being upgraded, the call returns with all results and no cordon is
forgotten (`RollingUpgrade`); an applied rule list is installed whole, and in force as soon as ufw
is on, which the stages themselves do not leave it (`Firewall`); a marked datadir is whole and no
restore writes over data (`SnapshotRestore`); what `latest` names can be served and the client comes
back unless the process is stopped for good (`SnapshotStore`), and what a node was told to download
it gets whole (`SnapshotServing`); every node's record comes back and none is left behind silently
(`DnsRegistry`); the data disk is not formatted away and clients share one secret (`HostBoot`); the
second upgrader keeps the promises of the first, without its deferred uncordon (`EthctlUpgrade`); no
node's override shows in another node (`Inventory`); the window opens when it should, which for most
expressions is when cron fires (`MaintenanceWindow`).

## 2. Modules

| module | models | actions ↔ code |
|---|---|---|
| `Agent` (+ `MCAgent`) | one host: agent, passes, containers | `LoopTick`, `HttpReconcile`, `LoadSpec`, `Inspect`, `Pull`, `Stop`, `Start` are `runReconcile`, `handleReconcile`, `reconcileClient`/`reconcileMEV` command by command; `Cordon`, `Restart` the handlers |
| `RollingPlan` | what a rolling upgrade promises | abstract specification, no code of its own |
| `RollingUpgrade` (+ `MCRollingUpgrade`) | orchestrator, its goroutines, and of each node cordon and health | `MainStep` is `RollingUpgrade`, `UpgradeStep` is `upgradeNode` and `waitForSync`, one action per call or channel operation |
| `EthctlUpgrade` (+ `MCEthctlUpgrade`) | the sequential upgrader of the CLI, its operator, the agents | `Step` is the loop of `ethctl upgrade`, one action per HTTP call; `Operate` is `ethctl cordon` and `uncordon`, with the other lookup of names |
| `Firewall` (+ `MCFirewall`) | the firewall stages and ufw | `DriftCheck`, `Enable`, `SetDefaultPolicy`, `Reset`, `Add`; `TurnOn` is somebody with a shell |
| `SnapshotRestore` (+ `MCSnapshotRestore`) | the snapshot stage, the client starts after it | `Look`, `LookFails`, `Discover`, `Prepare`, `Spawn`, `Mark`, `StartClient`; of the server and what it sends, `Panic`, `Extract`, `EndStream`, `TarDies`; `Killed` by the context |
| `SnapshotStore` | the maker beside the agent of its host | `CreateSnapshot` step by step, `PruneOld`, SIGTERM, death, boot |
| `SnapshotServing` | the maker's HTTP server and one download beside the maker | `HandleLatest`, `HandleArchive`, `EndDownload`; `Follow` is what the maker's steps do to an open file |
| `DnsRegistry` (+ `MCDnsRegistry`) | registration of all nodes in one zone, `ethctl` | `LoadState` … `WriteState` are `Register`; `Cleanup`, `ToolLook`, `ToolDelete`, `Decommission` are `ethctl` |
| `HostBoot` | first boot to later reboots: secret, disk, clients | `EnsureExists`, `Install` are `jwt`; `Resolve` … `AppendFstab` are `disk.Reconcile`; `Writeback`, `Reboot` are the kernel and the next boot |
| `Inventory` | both loaders and both mergers of specs, with maps and arrays by address | `LoadProfiles`; then for each node `SkipDisabled`, `KeepNode`, or `StartNode`, a `MergeProfile` for each profile it names and `FinishNode`; `UnknownProfile`, `Return`. `build` is the node at work |
| `MaintenanceWindow` | `parseCron`, `IsOpen`, `NextOpen` as operators, and beside them cron's own rule (`CronFires`: a star is every value, day of month and month count), which the code does not ask | no state |
| `Deployment` (+ `MCDeployment`) | from the inventory to an agent's look at its window | `Expand` is a step of `Inventory`, `Look` the start of `runReconcile` |
| `RollingUpgrade_proofs`, `EthctlUpgrade_proofs`, `Agent_proofs`, `Firewall_proofs`, `SnapshotRestore_proofs`, `SnapshotServing_proofs`, `HostBoot_proofs`, `Deployment_proofs` | TLAPS proofs (section 4) | |

Composition. `RollingUpgrade` is composed with `RollingPlan` by `INSTANCE ... WITH` (the refinement
mapping `PlanStage`, `PlanCall`), and so is `EthctlUpgrade`, with one node at a time: the two
upgraders share no code but what an operator may expect of them. `SnapshotServing` extends
`SnapshotStore`: its reader takes steps of its own, and each step of the maker is conjoined with
what it does to the reader's open file. `Deployment` feeds what `Inventory` returns to
`MaintenanceWindow`. The other modules each hold the shared resource and **all** actors that touch
it: the concurrent passes, the second program, the environment. They meet in the pass, whose stages
share nothing but their order and the context; each module therefore carries the pass's own context
(`live`) and the way a stage's error is collected. Within a module the record `w[x]` is the local
state of pass `x` and `w[x].pc` its next command.

Data are abstracted to what the properties tell apart: an image is a name, a file system holds data
or not, an archive is absent, empty, partial, torn or good, an address is its node and a generation,
a secret file is missing, empty, cut off or one of the secrets made so far, an fstab entry names the
file system on the disk, one that was there before, or a path where a UUID belongs. Two textual
tests are modelled by what they do because a property depends on them: the substring test of
`DriftCheck` (`Occurs`) and the names made by `Hostname`. History variables (`excused`, `leaked`,
`held`, `crossed`, `mixed`, `rewritten`, `retarred`, `hidden`, `last`, `bounced`) record only what a
property refers to; no guard reads them, except that `bounced` stops counting at 2.

## 3. Runs

Twelve runs; every property of a passing run has a mutant, a plausible bug in one mapped
definition that TLC must catch under the same configuration.

| run | question | bounds |
|---|---|---|
| `agent` | Do overlapping passes, cordons, restarts and crashes leave a client down? | 2 containers (one with docker commands that may fail for ever), 1 handler beside the loop, 2 images, 1 fault, 1 crash, 1 edit |
| `rolling` | Does the orchestrator keep its promises? | 4 requests: one node twice, one unknown; MaxUnavailable 2; 1 trouble; 1 poll |
| `rolling_sync` ✗ | Has an upgrade that ends well seen its node synced? | same |
| `firewall` | Do lists survive overlapping passes, and what does it take that the stages leave ufw alone? | 2 passes of a handler beside the loop, 2 troubles, rules whose digits overlap, ufw on or off, a policy that the reset loses |
| `firewall_off` ✗ | Is a list that was applied without an error in force? | same, with the policy of the profiles |
| `restore` | Is a marked datadir whole, and is any client held back? | 2 datadirs, one never served, 1 handler, 2 troubles |
| `store` | Is `latest` servable, does a download end whole, does the client come back? | Keep 1, heights 1..2, 2 clock readings, 2 troubles, 1 download |
| `dns` | Are records left behind, do they come back? | 2 nodes, 1 with a handler, 2 clients, 1 request, 1 change, 1 trouble; the first client of the first node is fixed, as clients are interchangeable |
| `host` | Are data, secret and fstab safe, is the disk provisioned? | 1 handler, 2 troubles, 2 reboots; listed or discovered, single or array |
| `host_repeat` ✗ | Is a pass over a provisioned host harmless? | same |
| `ethctl` | Does `ethctl upgrade` keep the plan, leave cordons or clients behind? | 2 targets; an inventory with a name twice and one without it; 2 troubles, 2 operator commands |
| `inventory` | Do overrides stay with their node, does `NextOpen` find the next opening? | 2 profiles, up to 3 nodes, every combination of profile lists, spare capacity 0..2, profiles missing, doubled, unreadable, without a name or in a subdirectory; 56 schedules at 25 minutes of a week |

✗ marks a run that TLC must find violated; `findings` in `PROJECT.json` says what each shows and
which line of the documentation it contradicts.

What the passing properties say, beyond their one-line comments in the modules:

- `DownIsExplained`, `LoopKeepsClientsUp` (`agent`): interleaved stop/start of two passes is
  harmless only because every stop is followed by its own start in the same pass, and later stages
  run whatever an earlier one returned. Whoever adds an early return between the two, or aborts a
  pass at an error, breaks one of them. `CordonQuietsLoop`: a pass in flight at the cordon is all
  that may still bounce a container, once each.
- `CordonIsAccountedFor`, `ClientsComeBack` (`rolling`): the only leaks of a cordon are a lost
  answer to `/cordon` and an uncordon that was not made because the context was done; `leaked` names
  them.
- `LastListInstalled`, `Settles`, `ComesOn` (`firewall`): what the code does achieve, next to the
  finding of `firewall_off`. `ufw reset` switches the firewall off, and `ApplyRules` enables it
  *before* its reset: a list that was applied to its end is in ufw whole (and alone, with the policy
  of the reset, if no other pass interfered), but waits for somebody to turn ufw on. As long as
  nobody does, every pass finds all rules missing, enables ufw and resets it again: `ComesOn` says
  that ufw is on again and again, and no more than that. `Settles` has the way out as its premise:
  ufw, found off while no pass is under way again and again, is turned on there some time (strong
  fairness of `TurnOn` in the property, not in the specification). Then the drift check of each list
  accepts what the last one installed, and no stage resets any more. That rests on the substring
  test, which looks at ports only: the same weakness lets a stage be skipped although ufw lacks a
  rule (a finding).
- `MarkedIsWhole`, `MixedOnlyByCrossing` (`restore`): what can extract over other data is a second
  pass, or a client that runs, *while* a pass restores; a later pass never does. `ClientsGetStarted`
  names the two ways in which a server can hold the clients back: a transfer that never ends
  (a finding), and an empty checksum answer, at which the agent panics at every
  start.
- `LatestIsServed`, `RestartedAfterwards`, `AskedIsServed` (`store`): exact exceptions are part of
  the statements (a rewrite at the same block, clock-numbered directories, a cancelled context). A
  download survives a prune because the file stays open, and does not survive a second tar at its
  block, which truncates the file it reads. `ComesBack`: the next snapshot restarts a client that
  one before has left down, unless SIGTERM has ended the process, which systemd then does not start
  again (a finding).
- `LeftBehindIsExplained`, `RegistersAgain` (`dns`): `leaked` lists each way a record can outlive
  its owner; registration itself always heals because it looks at the zone and not at its state
  file. The state file is truncated before it is written, so that an overlapping pass may read it
  empty, or two passes leave it unreadable; both count as a name that is lost.
- `DataIsKept`, `SecretsAgree` (`host`): a file system that was used, or that fstab names by its
  UUID, is only lost to a `blkid` that fails silently, to two passes that race to format, or to an
  array that was not assembled. Clients may see two secrets only across a mount under the running
  host.
- `AgentServes`, `ProvisionedInTheEnd` (`host`): main exits at every start on a secret file that is
  no secret. A write that fails or dies half-way does not leave one, because it goes to a temporary
  file; a power cut after the rename may (a finding). In the end fstab has an entry with the UUID of
  the file system that is on the disk; an entry with a path in its place, or with a UUID that a
  second format has replaced, ends the next boot in the emergency shell (a finding). The two
  properties name these as their exceptions; `DataIsKept` says when a second format can occur.
- `CordonLeftIsExplained`, `ImplementsPlan`, `ClientsComeBack` (`ethctl`): every error path of the
  loop lifts the cordon it has set, although nothing is deferred; only a call that fails, an
  interruption, or the operator leaves one. A client whose restart failed is reported as upgraded,
  and comes up because the node is uncordoned and its own loop starts it.
- `SpecsAreLayered`, `ListsAreOwn` (`inventory`): the specs returned equal what the files say layer
  by layer, when a node's merge ends and ever after, although maps and slices of a profile are in
  the specs of many nodes; the profile *lists* of nodes do share memory, which `ListsAreOwn` names.
- `NextOpenIsNext` (`inventory`): `NextOpen`'s search of one week finds the next opening. For an
  expression with a minute, an hour and at most a weekday, as in the inventory's files, a closed
  window opens when cron fires next, by cron's own rule. For others it does not (a finding): a
  star for minute or hour is read as 0, day of month and month are not looked at. And it closes with
  the hour it has opened in, which may be a minute later (a finding).

Bounds and why they are enough. Every hazard listed takes at most two concurrent passes and one or
two failures; the runs have both, over every order. Two containers, datadirs or nodes are needed for
"the others", a third is symmetric to one of them. In `SnapshotServing` two heights are enough for
the block to move or not between two snapshots, and with Keep 1 two clock readings for a directory
above every block and one above that. In `MCDeployment` three nodes are needed for an override that
skips a node; the instants lie around minute, hour, day and week boundaries (the theorem covers all
others). All budgets (`MaxFaults`, `MaxTroubles`, `MaxCrashes`, `MaxEdits`, `MaxRequests`,
`MaxChanges`, `MaxReboots`) bound what the environment does to the program, never what the program
does; where a failure for ever matters it is outside the budget (`Broken`, `Unserved`, a context
that is done). `Ticks`, `MaxHeight` and `MaxStamp` bound counters. `CHECK_DEADLOCK FALSE` is said
where the system really stops: a rolling upgrade that has returned or an `ethctl upgrade` that has
ended, a host in the emergency shell, and an agent that has looked at its window.

Fairness. Weak fairness of the loop's tick (`time.Ticker`), of the steps of each pass and goroutine
(the Go scheduler; local commands end, HTTP calls have a 10 s timeout), and of systemd's restart,
which is `Restart=on-failure`: in `SnapshotStore` `Boot` is fair after a crash and not after a
SIGTERM, on which main returns 0; a process that got SIGTERM ends. In `SnapshotRestore` a transfer
is *not* fair: curl has no time limit and the loop's context no deadline, so that a stream may stall
for ever, and a dead tar (`stuck`) is ended by nothing but its context; a request's context ends,
for `ethctl` gives up. In `EthctlUpgrade` the command's calls end (10 s) and each agent's loop
ticks; `Deployment` has no liveness. Nothing is assumed of operators, handlers, ethctl, clients'
progress or failures; `Settles` alone has the operator's help as its premise.

Each module's pass is the whole pass as far as it concerns that module's resource, and its liveness
takes for granted that the stages of the other modules end. `LoopKeepsClientsUp`, `RegistersAgain`,
`ProvisionedInTheEnd` and the loop in the upgrade modules therefore hold on a host whose restore
does not hang; `ClientsGetStarted` names the hang, and a finding says what it stops.

## 4. Proofs

TLC checks each property on a small instance; TLAPS proves these for every value of the constants
(number of passes, nodes, containers, datadirs, rules, troubles, reboots ...).

| module | theorems | state |
|---|---|---|
| `RollingUpgrade_proofs` | `Invariance`, `TypeCorrect`, `BoundedUnavailability`, `CompleteReturns`, `CordonsAccounted` | `[]IInv`, `[]TypeOK`, `[]AtMostMaxUnavailable`, `[]ReturnIsComplete`, `[]CordonIsAccountedFor` |
| | `Implementation` | `Spec => Plan!Spec`, the refinement of `RollingPlan` |
| `EthctlUpgrade_proofs` | `Invariance`, `TypeCorrect`, `CordonExplained` | `[]IInv`, `[]TypeOK`, `[]CordonLeftIsExplained` |
| | `Implementation` | the same plan, with one node at a time |
| `Agent_proofs` | `Invariance`, `TypeCorrect`, `DownExplained`, `CordonQuiets` | `[]IInv`, `[]TypeOK`, `[]DownIsExplained`, `[]CordonQuietsLoop` |
| `Firewall_proofs` | `Invariance`, `TypeCorrect`, `AppliedListInstalled` | `[]IInv`, `[]TypeOK`, `[]LastListInstalled` |
| `SnapshotRestore_proofs` | `Invariance`, `TypeCorrect`, `MarkedWhole`, `MixedCrossed` | `[]IInv`, `[]TypeOK`, `[]MarkedIsWhole`, `[]MixedOnlyByCrossing` |
| `SnapshotServing_proofs` | `Invariance`, `TypeCorrect`, `LatestServed`, `Restarted`, `AskedServed` | `[]IInv`, `[]TypeOK`, `[]LatestIsServed`, `[]RestartedAfterwards`, `[]AskedIsServed` |
| `HostBoot_proofs` | `Invariance`, `TypeCorrect`, `SecretsShared`, `DataKept` | `[]IInv`, `[]TypeOK`, `[]SecretsAgree`, `DataIsKept` (an action property) |
| `Deployment_proofs` | `InventoryTypeTheorem`, `ListsAreOwnTheorem`, `SpecsAreLayeredTheorem` | of `DeploymentSpec`: `[]TypeOK`, `[]ListsAreOwn`, `[]SpecsAreLayered` |
| | `NextOpenFindsTheNext`, `NextOpenTheorem` | what `NextOpen` returns, `[]NextOpenIsNext` |
| | `DnsTypeTheorem`, `LeftBehindTheorem` | of `DnsSpec`: `[]DnsTypeOK`, `[]LeftBehindIsExplained` |

Assumptions: only the named ones of the modules (sets that are disjoint, bounds that are natural
numbers, sequences without repetition, finitely many handlers, a policy that is deny or allow, and
in `Inventory` that files decode to specs). One is more than a type: `ListsAssumption` of `Firewall`
says that the lists of a pass are sequences of rules and that there is at least one. They are built
with `SelectSeq`, and what that returns would need an induction over data; TLC evaluates the
assumption.

The arguments, by what has to be added to the property to make it inductive:

- `RollingUpgrade`. That a slot is free says nothing of the goroutines unless the two are tied
  together. `IInv` adds `Placed` (goroutines exist for exactly the requests before the loop index
  that have a client), `Counted` (a result exists for exactly the requests that are over), `Indexed`
  (where the loop index is), `Slots` (the slots in use are those of the goroutines at work plus
  those drained) and `Settled` (a complete call has drained all). `Slots` needs cardinalities: a
  launch adds one goroutine to `AtWork`, a release removes one, every call of `upgradeNode` leaves
  it alone (`CallStep`). At the end of the drain `drained = Cap` and `sem <= Cap` leave no goroutine
  at work, which with `Counted` gives `ReturnIsComplete`. The refinement maps each action to
  `Begin`, `Reject`, `Finish`, `Complete`, `CutShort` or a stutter; `Begin`'s bound on the busy
  upgrades is `Slots` again. `CordonIsAccountedFor` is inductive beside `IInv`.
- `EthctlUpgrade`. `TypeOK` and `CordonLeftIsExplained` are inductive together. The refinement has a
  lemma for each way the command moves (`Moves`): from target to target, at its target, to its end.
- `Agent`. `DownIsExplained` is inductive beside the types. `CordonQuietsLoop` needs `Bounces`: what
  the loop's pass may still stop (`Ahead`, the stages from its own on) it has not stopped since the
  last uncordon; every step moves a stage out of `Ahead` before or as it counts a bounce.
- `Firewall`. `AddedSoFar`: as long as the last reset is a pass's own, all rules before its next one
  are in ufw, and if no other pass has interfered nothing else, with the policy of the reset. A
  reset by another pass makes `last` its own, and the first pass's claim void; a list that is empty
  is never applied.
- `SnapshotRestore`. Four conjuncts: two restores of one datadir have crossed (`TwoCross`), so has
  one beside a running client (`RunningCrosses`); a stream that has not crossed finds the directory
  as empty as `Look` did (`StillEmpty`); what is about to be marked is whole (`WholeAtMark`).
- `SnapshotServing`. `Making` (an archive in `latest` or `write` is whole), `StoppedExcused`, and
  for the download the same exceptions as for `latest`. The one deep step is the prune: a block with
  Keep directories above it keeps having them, because the highest directory that goes has Keep
  above it that stay (`StillOutnumbered`, by well-founded choice of that highest one); so a
  half-done prune does not matter either.
- `HostBoot`. `Assembled` (a pass past `Detail` has an array), `SureOfBlank` (a pass sure of a blank
  disk is right: whoever formats it makes the others unsure), `RoomInFstab` (entries plus passes
  about to append never exceed the number of passes: each of them has seen none) and `OneSecret`
  (clients that run have the secret `/data` shows, and one is installed only where none was). A
  format or a new array loses the file system with all that hangs on it (`Losing`), and only where
  nothing is mounted (`NewFs`, `NewArray`).
- `Deployment`, the window. The invariant only ties the agent's look to its schedule; the work is in
  `NextOpen`, a search over the 10080 minutes of a week. The fields of an instant come from its
  quotients by 60, 24 and 7 (`Instant`, `FieldsMeet`); once a week every window is open
  (`OpensWeekly`), so the search finds something, and the least such minute exists by
  well-foundedness (`SmallestOf`); a window that was closed a minute before opens at the minute of
  its expression (`OpensOnTheMinute`). For an expression with a minute, an hour and at most a
  weekday these are the minutes of cron's own rule (`FiresAtOpening`), and the first of the one is
  the first of the other.
- `Inventory`. `SpecsAreLayered` says what finished nodes say in a memory that goes on being
  written, so `IInv` is mostly about who may write where. `IsMemory`: the memory is what was decoded
  from the files and objects made since, each at an address that was free. `Owned`: the map and the
  lists of the spec at work are objects made since, no two of them one. `NodeOk`: nothing of a
  finished node is a cell of the spec at work. A merge writes to the cells of the spec at work or to
  fresh objects and to nothing else (`KeepsBeside`, `Grown`, from `PutAllIs`, `AppendToIs`,
  `MergeRulesIs`), so it leaves layers and finished nodes as they are (`FilesBeside`,
  `NodeBesideWork`). The value goes one layer at a time, which is why a profile is a step: `Merging`
  says that the spec amounts to the layers so far, and `AmountsGrows` that a merge makes it amount
  to one more, field by field (`ScheduleGrows`, `FlagsGrow`, `ImageGrows`, `SwitchGrows`,
  `ConcatGrows`, `RulesGrow`). `Known`, that every rule has its key from a layer, is what the keyed
  merge needs besides. The one array that is shared is the cluster's profile list: `FilesKept` keeps
  its profiles but not the room behind them, and `ListKept` says who may have lost a name there
  (`Lost`), which is `ListsAreOwn`.
- `DnsRegistry`. `LeftBehindIsExplained` accepts a record that some state file names, but that is
  not inductive: a pass that read the state file before the name was in it may be about to overwrite
  it. `DnsInv` asks for more (`Holds`): the state file names the record and no pass of that node is
  at work without having seen the name there, as its own new one or as the old one it will delete.
  Where passes of one node overlap this fails, and that is where `leaked` takes over.

Model-checked only: liveness (`LoopKeepsClientsUp`, `CallReturns`, `ClientsComeBack`, `Settles`,
`ComesOn`, `ClientsGetStarted`, `ComesBack`, `RegistersAgain`, `AgentServes`, `ProvisionedInTheEnd`)
and `ENABLED`, which are out of the prover's reach. Every invariant and every other action property
of a passing run is a theorem. Induction over data is out of reach as a rule; where a proof needs it
for a function on numbers (`FlattenSeq`, `NextOpen`) it is an argument about the least number at
which the claim would fail.

## 5. Not modelled

- `auth.go`, `collector`, `discover`, `/logs`, `/metrics`, `/diff`, the snapshot server's index and
  `ethctl`'s printing commands: they keep and change nothing.
- `obs`: checks that its directory, compose file and `.env` are there and runs `docker compose pull`
  and `up -d`. Nothing else runs compose, no state is kept between passes, and its error is
  collected like that of any stage; there is nothing for a property to be about.
- Kernel settings and labels in specs; the operator merges or carries them and applies neither.
- Contents: rules' wording, archives, secrets, log lines. In `Inventory` one field stands for each
  *way* a field is merged; the field-by-field list of `mergeSpecs` is not repeated.
- The YAML parser, docker, ufw, mdadm, tar, systemd: as the code uses them.

## 6. Plan

Done: all modules of section 2, with the proofs of section 4.

Next:

1. The snapshot chain as one system: a restore (`SnapshotRestore`) against a server that is being
   written (`SnapshotServing`). Today each takes the other as its environment: a stream that works,
   fails or hangs there, a reader that may end at any time here.
2. Larger instances of `agent` and `dns`, if a shape of state with fewer symmetric copies is found.

The number of runs is kept at one per question. Violation runs exist for findings that no passing
property states; a finding whose behaviour is an exception of a passing property has no run of its
own, nor has one that a single action shows, such as the update that leaves the container its old
image (`Start` of `Agent`).
