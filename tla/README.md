# WireHub: a verification project in TLA+

WireHub is a hub-and-spoke WireGuard VPN in user space. One process holds an
SQLite store, a control plane behind an HTTP API, and a VPN stack: a WireGuard
device on a gVisor netstack, a packet filter, a DNS server and two proxies. This
directory models the parts that carry its logic, checks them with TLC on small
hubs and proves with TLAPS what can be proved for every hub.

Paths below are relative to `src/internal/` unless they begin with `src/`.

## Inventory

| Component | State | Operations | What makes it correct |
|---|---|---|---|
| Store (`repo/`) | rows of settings, admin, groups, links, peers, DNS records, maps, forwards | one transaction or a few statements per service call | addresses, names and ports are unique; no reference dangles; a failing statement leaves nothing orphaned |
| Control plane (`service/`) | `controlMu`, the setup token | setup, settings, reset, import; create, change and delete peers, groups, links, maps, forwards | after every call the runtime equals the store or is stopped |
| Access policy (`domain/policy`, `vpn/policy`) | none | build the blocked pairs, the SNAT spec and the DNS catalogue from the rows | blocks exactly what the group graph does not allow |
| VPN stack (`vpn/runtime`) | `tunnelMgr`, `generation`, `stopping`, two mutexes | Start, Stop, FullSync, ApplyPolicy, GetStats | a start overtaken by a stop publishes nothing; no deadlock |
| Hub and poller (`service/hub.go`) | `liveDP`, the poller's channels | onStarted, onStopped, poll | one poller; none outlives its stack |
| WireGuard manager (`vpn/tunnel`) | keys, allowed IPs, local addresses | SyncAll, EnsureMapVIPs, GetStats | the device holds the enabled peers |
| TUN filter (`vpn/tun`) | rules, map bypass set, connection tracking | Write drops or accepts, SetAccessPolicy | group isolation; an old policy does not live on |
| Transparent SNAT (`vpn/snat`) | flow table, port pool | egress, ingress, expiry | replies return to the right flow; ports are not shared |
| Forward and map proxies (`vpn/ingress`) | listeners, rules, TCP and UDP sessions | Apply, Stop, accept, relay | old sessions do not outlive their rules |
| DNS server (`vpn/dns`) | catalogue, upstream resolvers | update, lookup, forward | a map is visible exactly to the groups it allows |
| Import (`repo/backup.go`) | live, staged and backup database files | prepare, swap, restore | a failure or crash leaves one complete database |
| Sessions and setup token (`api/http`, `service/auth.go`) | token versions, two copies of the setup token | login, password change, setup, reset | a stale session is refused; only the newest token configures a hub |
| Limiter, WebSocket hub (`api/`) | buckets, clients | attempt, cleanup, broadcast | not modelled |
| Web interface (`src/web`), configuration, static files | none of interest | | not modelled |

How they interact. An HTTP handler calls the control plane, which takes
`controlMu`, writes the store, loads a *bundle* (everything the runtime needs,
read from the store) and hands it to the stack (`reconcileRuntime`). The stack
brings its parts to the bundle one after the other, while packets flow. A failed
sync is followed by one restart, and a failed restart leaves the stack stopped.
The stack calls back into the service when it has started or is about to stop;
the callbacks publish the dataplane (`liveDP`), run the status poller, and
rebuild the filter once more. The poller reads statistics through the stack and
writes them to the store. At boot the stack is started without `controlMu`,
and while that start runs, the web server inside the tunnel already answers.

Below the control plane packets take their own path: WireGuard's receive
goroutines call `TUN.Write`, its send goroutine `TUN.Read`, and the netstack's
forwarders hand flows to the proxies, each on a goroutine of its own. They read
rules, tables and contexts under short locks and go on with what they read.

What is hard here: steps of a call in which each can fail, with the store already
committed; addresses that move between peers and maps; four locks, a goroutine
and two callbacks around start and stop; requests that take no lock
(`UpdateGroupLayout`, login, password change) or take it late; packets and dials
that a policy change overtakes; crashes between commit and application, and
between the renames of an import. `PROJECT.json` lists these hazards at their
lines, with the properties that cover them.

## Modules

| Module | Models | Composition |
|---|---|---|
| `AccessPolicy` | the policy as pure operators over rows | |
| `HubStore` | the store, one action per committed service call | |
| `ControlPlane` | calls, `reconcileRuntime`, and what Start, Stop and FullSync leave in every component | extends `HubStore` and `AccessPolicy`; implements `HubPromise` |
| `HubPromise` | the abstract specification: the runtime is the store, or stopped | instantiated by `ControlPlane` |
| `StackLifecycle` | locks, callbacks, generations and the poller around the stack | stands alone: the store and the components are version numbers |
| `TunPath` | filter, connection tracking and transparent SNAT, packet by packet | extends `AccessPolicy` |
| `MapProxy` | sessions of the service map proxy | stands alone |
| `ForwardProxy` | listeners and sessions of the port forward proxy | stands alone |
| `AdminAccess` | setup, import, export, login, password change, reset; the setup token, sessions and database files | stands alone |
| `HubStoreProofs`, `ControlPlaneProofs`, `HubPromiseProofs`, `StackLifecycleProofs`, `TunPathProofs`, `MapProxyProofs`, `ForwardProxyProofs`, `AdminAccessProofs` | inductive invariants and theorems | extend the module they are about; `HubPromiseProofs` extends the two proof modules before it |
| `MC...` | values and symmetry for TLC | extend the module they are about |

### AccessPolicy

`Blocked` is the set of address pairs `BuildAccessPolicySpec` lists; the map part
denies a VIP to every peer whose group is not in the allow list. `PeerGroups` is
the address-to-group table that the SNAT table, the DNS server and the map proxy
each keep. `LookupIP` is the authoritative DNS lookup for one client.

### HubStore

Tables are sets of rows; names are model values (after normalisation), addresses
are offsets in the subnet, the first one the hub's. A hub never issues an id twice
(`seq`), and a peer's id also stands for its key pair. Calls that the code
refuses (a name taken, a group in use, a subnet that is full) have no action.
Calls made of several statements have their partial outcomes: `RenamePeer`
(row, then DNS record), `DeletePeer` (DNS records, then row); `StoreFaults`
says whether statements may fail.

`UpdateGroupLayout` is two steps, `LayoutRead` and `LayoutSave`, because it takes
no lock; `SaveGroup` is gorm's `Save`, which inserts a row that is gone, then
with `allow_intra_group` TRUE whatever it was (a FALSE takes the column's default).

`ImportDatabase` gives an unconfigured hub the rows of an upload, and the ids that
the upload had issued. `Uploads` are the databases it may be given, and
`UploadAssumption` says what they are: configured databases that this version or an
earlier one has written, migrated. Their tables are sound as the theorems below say
this version's are, except for the forwards: the index is per port and protocol, and
an earlier version stored a tcp and a udp forward on one port
(`repo/testdata/pre_refactor.sql`, imported by `schema_characterization_test.go`).
An upload may also hold DNS records that were set by hand and are no peer's, as that
file does; `DnsRecordsOwned` speaks of the others. `NoNewPortClash` says that a configured hub
makes no such pair itself.

`SlugFree` keeps a detail of the code: the slug of a map is compared with peer
names before it is normalised, so that a spelling that differs (`verbatim` is
FALSE) escapes the comparison; and peers are not compared with slugs at all.

### ControlPlane and HubPromise

`rt` is what the running stack holds: keys and routes of the device, addresses of
the netstack, bypass set, policy, DNS catalogue, resolvers, MTU, listeners,
reserved ports, map rules and the map proxy's peer table. `ctl` is the
goroutine that holds `controlMu`: `pc` is the next step, `mode` says whether a
sync or a start is under way, `op` which call it serves. A call commits in one
step (`PeerCalls`, `GroupCalls`, `MapCalls`, `ForwardCalls`, `SetupCall`,
`SettingsCall`); the steps of `FullSync` and `Start` follow the order of
`vpn/runtime/stack.go`, each with its failure. `Reset` is one step because
nothing it touches is observable in between except the stop, which
`StackLifecycle` refines. `Crash` is possible anywhere, and boots from the store.

`behind` is TRUE from a write that does not reconcile (a layout save, a failed
rename) to the next bundle: in between the runtime is legitimately older than the
store, and `Settled` and `HubPromise` (`lag`) exclude it. The model has the boot start inside the
control thread; that it really runs outside `controlMu` is what `StackLifecycle`
is for. A boot that fails ends the process, which is started again.

`SetupCall` is a setup or an import; both go on to a start. `ApplyForwards` refuses
rules that `validateForwardRules` refuses, with the old listeners left in place.
`ClashNeverServed` follows what an imported clash of ports leads to.

`HubPromise` says all of this from outside: a call begins, applies, and finishes
with everything the store asks for enforced, or nothing; an answer that reports
a runtime failure comes with a stopped hub; nothing else changes what is
enforced. The refinement mapping (`Promise`) takes `want` from the store
(`Target`), `served` from the runtime (`Enforced`, while no call is under way) and
`lag` from `behind`. What the device still holds of deleted peers is not part of
`Enforced`; the run `cp_deleted` is about that.

### StackLifecycle

Threads are HTTP handlers and the boot goroutine. A step ends where another
thread can interfere: at a lock, a channel or the release of either. `statusMu`
and `networkMu` are held for one step only and need no variable. `dpReaders` is
the read side of `dpMu`, which a poller keeps while it waits for `Stack.mu`.
Operations are `mutate` (FullSync), `retune` (settings without a new MTU),
`restart` (settings with one), `reset` and `setup`. A bundle that cannot be loaded
(`Enter`) leads to a stop that nothing follows; `bundle` is 0 then. When a start
returns, `Returns` notes the version the store has by then in the thread's `bundle`;
for boot, which ends there, that is history for `BootDriftEnds`.

### TunPath

A receive goroutine takes a packet through `Write` (reads the table pointer),
`ProcessIngressFromWG` (under the table's lock), `Bypass` (map addresses),
`ReadRules` (reads the rules pointer) and `Track` (under the connection table's
lock); the reader takes one through `Read` and `ProcessEgressToWG`. The control
plane's `ReserveHubPorts`, `SetMapVIPs` and `SetAccessPolicy` come in between. A
policy is an *epoch*: what a goroutine holds is the epoch of the pointer it
read, so that a stale table or rule set is still there to be used. `Deliver` is
the netstack (external): it terminates what is for itself and forwards the rest.
Time stamps are ages. `sent`, and `from`, `ports` and `reply`, are history.

### MapProxy

A slot is one flow. `Request` takes the context, `LookupRule` the rule,
`CheckPeer` the group, `Reserve` the pending entry, each under a lock of its own;
`Dial` happens with no lock, and `EnterSession` checks the reservation again.
Rules belong to a generation, and `peerAllowed` takes the generation of the rule
and that of the peer table, which may differ: `Stop` clears the rules and keeps the
peer table (`GroupsInForce`), so that a TCP request which has its rule is still
admitted, on a context that is cancelled. TCP relays are in no table and
depend on their context alone.

### ForwardProxy

`Apply` cancels, `WaitServers` is `wg.Wait`, then `Bind` or `BindFails` for each
port, then `StartServing`. The UDP loop is `CheckContext`, `ReadTimeout`,
`Datagram`, `WriteBackend`; a dial is `Dial`, `EnterSession`, `WriteFirst`. Rule
sets that `validateForwardRules` refuses change nothing here and have no action
(`ControlPlane` has them). `ServeError` is an accept or a read that fails although
nothing was cancelled: the port is then served no more until the next `Apply`.

### AdminAccess

A database file is its administrator, the sequence number of the table and, as a
ghost, a `line` that names the file's history. A request passes its HTTP gate
in one step (`RequestSetup`, `RequestImport`, `Authorized`), with what it read
there, and is served in others. An import is one step per file operation of
`swapDatabaseLocked` and `restoreDatabaseLocked`, each of which may fail; `faults`
counts them. The upload is this hub's last export; the code takes any configured
database, and one of another hub, whose ids start over, is left out: sessions and
password changes of another file are what these properties exclude anyway (below). `Restart` is possible anywhere. Passwords of requests are chosen
where they are used, so a wrong one is the alternative that answers at once.

## Runs

| Run | Bounds | Shows |
|---|---|---|
| `store` | 2 groups, 1 peer, 1 map, 2 forwards on 2 ports, 1 layout request, 1 upload with a clash of ports, failing statements | `TypeOK`, `RefsValid`, `LinksNormal`; `NoNewPortClash` as a property of steps |
| `cp_groups` | 2 peers, 2 groups, links | `GroupIsolation` |
| `cp_maps` | 2 peers, 1 map, 2 names, 2 host addresses, 2 group ids (one before and one after a reset), 1 upload with a peer and a map at addresses the hub had given out the other way round, failing statements | `BypassNeverPeer`, `DnsMatchesMapProxy`, `AddressesDisjoint`, `DnsRecordsOwned`; `KeepsPromise` (refinement) |
| `cp_settings` | 2 MTUs, 2 resolver lists, 2 forwards on 1 port, 1 layout request, 1 upload with a clash of ports | `CPTypeOK`, `FailureMeansStopped`, `LiveMatchesStack`, `ClashNeverServed`, `KeepsPromise`; `CallsReturn` under fairness |
| `cp_deleted` | 1 peer | *violation* of `DeletedPeerLeaves` |
| `life` | boot and 1 handler, fresh or configured hub, 3 store writes | `TypeOK`, `LiveSound`, `PollerSound`, `BootDriftEnds`; `NoneHangs` under fairness |
| `life_provision` | boot and 1 handler, 1 store write | *violation* of `Provisioned` |
| `packet` | 2 peers in 2 groups, a link either way, 2 ports in the pool, a map, 2 policy changes, 1 packet inside the hub at a time | `TypeOK`, `PortsOwned`, `RepliesReturn`, `ListenersFree`, `StaleBounded` |
| `packet_oneway` | the same, 1 policy, 2 packets | *violation* of `NoInitiateBack` |
| `map_proxy` | 1 client of 1 map, 2 requests, 3 configurations, 3 generations | `TypeOK`, `AdmissionSound`; `RevokedEnds`, `ReservationsEnd` under fairness |
| `forward` | 1 TCP and 1 UDP rule, 1 client, 2 slots, 3 calls of Apply or Stop | `TypeOK`, `ListenersSound`, `OneDialPerClient`; `OldRulesEnd` under fairness |
| `admin` | 2 requests, 2 passwords, 2 setups, 1 change of a password, 3 tokens, 2 database files | `TypeOK`, `ImportAtomic`, `SessionsCurrent`; `NewestToken`, `OnlyResetClears`, `ChangeHitsVerified` as properties of steps |

`LiveSound`, `PollerSound`, `NoneHangs`, `AdmissionSound`, `ListenersSound`
and `OldRulesEnd` are conjunctions of named parts, each with its comment in the module.

Definitions named `Bug...` are mutants: each is a plausible slip in the definition
after it, and `PROJECT.json` names the property that refutes it.

The bounds. Every id is issued at most `Max...` times in a behaviour, deletions
and resets included; an import sets the counts to its file's. Two host addresses with a map and a peer are enough for one
to receive what the other gave back; two peers in two groups are enough for every
pair that the policy distinguishes, since it decides pair by pair. In
`StackLifecycle` handlers are serialised by `controlMu`, so that a second one would
only wait; boot is the thread that runs beside the one in the lock. In `packet`
one packet at a time inside the hub still lets a policy change fall between any
two of its steps, two flows compete for two ports of which one may become a
listener's, and one tick more than the idle time is reached; the stale
entries of several goroutines are counted for each on its own. In `map_proxy` and
`forward` two slots are an old session and the new one that takes its client;
three generations let a request be overtaken twice. In `admin` three tokens are
those of the first boot, of a reset, and of the restart after an import was cut
off.

Names, callers and passwords are interchangeable, and runs without liveness use
symmetry over them. Deadlock is checked where the system must always have a
next step (`HubStore`, `ControlPlane`, `StackLifecycle`); the data-plane modules
and `AdminAccess` stop at their bounds.

Fairness. `FairCPSpec` assumes that the goroutine serving a call keeps running.
`FairSpec` of `StackLifecycle` assumes strong fairness of each thread and of
pollers that have been told to stop: Go's mutex hands itself to a waiter that has
waited for a millisecond, and `select` chooses at random among ready cases, so
neither is passed over for ever. In `MapProxy` and `ForwardProxy` goroutines that
can run do run; dials have timeouts, the reads of the loops and of UDP relays have
deadlines; a relay whose context is alive, and a TCP client that is silent, may
stay as they are for ever. Nothing is assumed about clients (no call need be made,
no packet sent) or about ticks.

## What the code does not keep

With a run:

* `cp_deleted`: `SyncAll` visits the stored peers only. A peer that is deleted
  stays on the device, with no rule about it in the filter, until the stack
  restarts. `DeletePeer` says it removes the peer from the live network.
* `life_provision`: a request over the tunnel that is served while boot's start is
  not yet published stores its change and returns success, and the change is not
  applied until the next one. In the same window the filter that boot installs
  may be older than the one a request has just installed. `BootDriftEnds` is the
  other half: the next write mends both, whatever fails on the way.
* `packet_oneway`: connection tracking keeps pairs of addresses. Behind a one-way
  link, once A has sent anything to B, B may open flows of its own to A until
  the pair has been idle for `SessionIdle`.

Met while modelling, kept in the models, and without a run:

* `Start` brings up peers and forwarding before the policy; until then the
  filter's rule set is empty, which means allow. `GroupIsolation` speaks of
  the time between calls.
* A layout request that has read a group before a reset puts the row back after
  it, and between other calls undoes a concurrent change of `allow_intra_group`.
* A database with a tcp and a udp forward on one port can be imported, and its
  forwards are then refused whole (`ClashNeverServed`): the import is
  stored and reported as stopped, and the hub is configured and down. Deleting one of
  the two answers with success and starts nothing, since there is no dataplane to
  synchronise; the hub comes up when the process is started again. If the process is
  started before that, the boot fails on the same forwards, and each one after it.
* An imported database of an earlier version may hold DNS records that were set by hand
  (`peer` 0 in `DnsRow`). No call of this version makes or deletes one: it keeps its
  hostname and its address taken (`repo/ip_alloc.go:38`) until a reset, and is not in
  the catalogue the DNS server is given, which is built from peers and maps.
* The netstack keeps the address of a deleted map (`EnsureMapVIPs` only adds), and
  a map may take a name that a peer has, which it then hides in DNS.
* `ProcessIngressFromWG` looks at the hub port alone: a packet of any peer to a
  session's port reaches the session's client. While a synchronisation is under
  way a session may hold a port that has just become a listener's
  (`ListenersFree` speaks of the time between).
* A pool without free ports sends a flow untranslated.
* A TCP relay of which one direction has ended waits for the other and no longer
  for its context (`proxyTCP`); its backend is closed by then.
* When the first datagram of a UDP forward cannot be written, the client's entry is
  deleted, whichever session it names by then (`WriteFirst`).
* After an import, ids and versions are those of the imported file: a session, or
  a password change under way, may fit another administrator than the one it was
  made for. `SessionsCurrent` and `ChangeHitsVerified` speak of one database file.
* A crash between the two renames of an import leaves no live file; the next
  start creates an empty, unconfigured one beside the backup. The hub was
  unconfigured before, so nothing is lost but the import. A failure to remove
  the backup is reported as a failed import although the import stands.

## Proofs

All theorems hold for every value of the constants that satisfies the named
assumptions of the modules: `StoreAssumption`, `OffAssumption`,
`LifecycleAssumption`, `TunAssumption`, `ProxyAssumption`, `ForwardAssumption` and
`AdminAssumption`, which say that the parameters have their types (a bound is a
number, "nobody" is not a thread), no more, and `UploadAssumption`, which says that an
imported database is as sound as one this code writes, save for the ports of forwards.
TLC evaluates them on every run and
checked each inductive invariant on the run of its module before it was proved.
Each proof has one lemma or step per action, and under it one step per conjunct
of the invariant that the action can disturb.

`HubStoreProofs`. `TypeOK` is inductive. Each of `AddressesDisjoint`, `RefsValid`,
`DnsRecordsOwned` and `LinksNormal` is inductive relative to
it, by one step per action that touches the tables it reads. The interesting
cases: an allocated address is none of the used ones, and all addresses in use are
read (`collectUsedSubnetIPs`); `LayoutSave` may insert a group but removes none, so that
it cannot make a reference dangle; the record that `ensurePeerDNSRecord` keeps
when its delete fails still names the peer and its address. An import replaces the
rows by the upload's, which `UploadAssumption` makes sound. `NoPortClashArises` is a
property of steps: a forward that is created or moved takes a port that none has.

`ControlPlaneProofs`. `LiveMatchesStack` speaks of idle states only; the inductive
invariant is `LifecycleInv`: the shape of `ctl` and `rt`, for every `pc` whether the
stack is up and published there (`Phase`), and that an unconfigured hub has no
stack. `FailureMeansStopped` is inductive relative to it. Each step of the control
plane that writes the store conjoins an action of `HubStore`, so the invariants of
`HubStoreProofs` are carried over to it by lemmas of `HubPromiseProofs`.

`HubPromiseProofs`. What the data plane holds. Between calls that is an invariant, but
it is established component by component, so `ServedInv` says for every `pc` which
components already hold the bundle (`Progress`, in the order of FullSync and Start),
what is held between calls also when a request that applies nothing has written
the store (`Between`), that the bundle's group rows are the stored ones unless a layout
save came in between (`BundleInv`), that a stack past its forwards has rules that are
valid (in `PortsHeld` and `StackOK`), at which points MTU and resolvers are those of the
settings (`SettingsInv`), and that a key is never issued twice and the device remembers
for a stored peer only the address it has (`KeysInv`). The last is why SyncAll, which
never removes a deleted peer, still leaves the stored peers' routes as the store
says. `BypassNeverPeer` is inductive because a new peer's address is none of the maps',
which is what the bypass set holds when a call commits. `GroupIsolation` follows from
the routes (a relayed peer is enabled), the bypass set and the policy, which lists
every pair of enabled peers that no link joins; `DnsMatchesMapProxy` from the two copies
being of one bundle and from the VIPs being distinct. `ControlPlaneKeepsPromise` maps
each step to one of `HubPromise`: a commit to `Begin`, a step of a call to `Apply`, its last
one to `Finish` (by `ServedInv` and `FailureMeansStopped` of the state it leads to), a write
that nobody applies to `Return`; `RenamePolicy` shows that the rename of a group, which is
not noted, changes nothing the policy reads. `ClashesNeverServed` follows from the
validation that every start and synchronisation passes.

`StackLifecycleProofs`. None of the module's properties is inductive: a published
stack is safe because of what other threads cannot be doing. `LifeInv` says, for
every point of execution, which lock is held there (`CallerInv`, `LockInv`), what of
the stack the thread can rely on (`StackInv`), who is about to publish or stop a
stack that runs unpublished (`Owed`), which poller is left (`PollInv`) and who is
about to bring the stack to the store once it is newer than what boot left
(`CurrentInv`). The argument: `controlMu` leaves
one caller active, beside boot's start; `lifecycleMu` keeps the callbacks of a start
and of a stop apart; a stop raises `stopping` before it takes `lifecycleMu`, so a start
that looks again after it sees the stop; a manager's number is never used
again, so a start that a stop and another start overtook is not taken for valid.
A poller that has not exited is the one `statusDone` names, and `unpublish` is reached
only when none is left.

`TunPathProofs`. `TunInv` holds the types (what is inside the hub belongs to a flow,
and flows are closed under translation because both ends of one are peers), that
every table, stale ones included, agrees with itself (`TablesOwned`), that listeners'
ports are reserved before a table is in force (`ListenerInv`), that a session is
never older than the last packet translated through it (`SentInv`, which is what
keeps expiry from giving its port away), and that a stale connection is the last
word of a goroutine that had read the old rules (`StaleInv`).

`MapProxyProofs`. `AdmissionInv`: a request takes its context before its rule and the
rule before the peer's group, so one that passed both with the rule in force passed
with the groups in force; the contexts cancelled are those before the current one,
but for the one that `Apply` still owes (`ControlInv`); the tables hold requests of the
current generation (`TablesInv`).

`ForwardProxyProofs`. `ForwardInv`: outside the binds a bound socket has a goroutine
that will close it, during them none serves (`ListenerInv`); a client is pending exactly
while one goroutine dials for it (`DialInv`).

`AdminAccessProofs`. `AdminInv`: for every step of an import which file holds the old
database and how much went wrong (`SwapInv`); only the caller with `controlMu` swaps
(`LockInv`); App's token is the newest or none, and while a reset has not published its
token nobody knows it (`TokenInv`); whatever row was read for a session or a change
of password agrees with the database of its line, by id and version (`SeenInv`). The
action properties `NewestToken`, `OnlyResetClears` and `ChangeHitsVerified` follow from
it step by step.

Only model-checked: the liveness properties `CallsReturn`, `NoneHangs`, `RevokedEnds`,
`ReservationsEnd` and `OldRulesEnd`, which are out of the prover's reach because they need
fairness and `ENABLED`. Every invariant, action property and refinement that a passing
run checks is stated by a theorem as well.

## Not modelled

* The login limiter: each of its operations, cleanup included, runs under one mutex
  from start to end, so that a sequential test reaches what a model would.
* The status WebSocket: snapshots for display. Its channels are closed under the
  lock that senders share, and only after a client's read loop has started.
* Header rewriting and checksums, DNS wire format and forwarding to resolvers, JSON
  and HTTP routing, token signatures and expiry, validation of single values,
  schema migrations, traffic counters, configuration, static files and the web
  interface: data or I/O without an order that could go wrong.
* Liveness of `HubStore`, `TunPath` and `AdminAccess`: nothing in them waits for
  anything but locks that are released on every path.
