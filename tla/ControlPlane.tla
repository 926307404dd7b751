---------------------------- MODULE ControlPlane ----------------------------
(***************************************************************************)
(* The control plane of the hub: the store, the service calls that mutate  *)
(* it under controlMu, and reconcileRuntime, which brings the VPN stack    *)
(* (vpn/runtime.Stack with the WireGuard device, the TUN filter, the DNS   *)
(* server and the two ingress proxies) to the state the store asks for.    *)
(*                                                                         *)
(* A call commits to the store in one step.  FullSync, Start and Stop then *)
(* run one step per component they touch, because packets flow between the *)
(* steps, and every step that can return an error may fail.  The process   *)
(* may die at any point and boots again from the store.                    *)
(***************************************************************************)
EXTENDS HubStore, AccessPolicy

CONSTANTS Off   \* no status poller is running

ASSUME OffAssumption == Off \notin Intervals

VARIABLES
    rt,      \* what the running stack holds, see Down
    live,    \* Hub.liveDP # nil
    poller,  \* interval of the running status poller, or Off
    ctl,     \* the control thread: [pc, op, mode, groups]
    result,  \* what the last finished call returned
    behind   \* the store was written since the last bundle was loaded, by a
             \* request that does not reconcile

rtVars == <<rt, live, poller>>
vars == <<storeVars, rtVars, ctl, result, behind>>

\* No stack: Stack.tunnelMgr is nil.
Down == [up       |-> FALSE,
         fwd      |-> FALSE,    \* the netstack forwards between peers
         keys     |-> {},       \* peers (by key) configured on the WireGuard device
         routes   |-> {},       \* its allowed IPs: [ip, peer]
         local    |-> {},       \* addresses of the hub netstack itself
         vips     |-> {},       \* TUN: map VIPs, which bypass the peer ACL
         policy   |-> AccessPolicySpec({}, {}, {}, {}),
         dns      |-> BuildDNSCatalog({}, {}),
         upstream |-> NoSettings,
         mtu      |-> NoSettings,
         listen   |-> {},       \* ForwardProxy listeners: [port, proto]
         reserved |-> {},       \* ports kept from the SNAT allocator
         mapRules |-> {},       \* MapProxy rules: [vip, allowed]
         mapPeers |-> {}]       \* MapProxy address -> group table

(* What a bundle loaded from the store says each component should hold.    *)
VIPs     == {m.vip : m \in maps}
Routes   == {[ip |-> p.ip, peer |-> p.id] : p \in Enabled(peers)}
Listen   == {[port |-> f.port, proto |-> f.proto] : f \in forwards}
MapRules == {[vip |-> m.vip, allowed |-> m.allowed] : m \in maps}
Policy(gs) == AccessPolicySpec(peers, links, gs, maps)
Catalog  == BuildDNSCatalog(peers, maps)

Idle == [pc |-> "idle", op |-> "none", mode |-> "none", groups |-> {}]

CPInit == /\ Init
          /\ rt = Down /\ live = FALSE /\ poller = Off
          /\ ctl = Idle /\ result = "none" /\ behind = FALSE

-----------------------------------------------------------------------------
(* Service calls: the lock is free, the store operation commits.           *)

\* The call goes on to reconcileRuntime or, for setup, to Start.
Commit(op, mode) ==
    /\ ctl.pc = "idle"
    /\ ctl' = [Idle EXCEPT !.pc = "load", !.op = op, !.mode = mode]
    /\ UNCHANGED <<rtVars, result, behind>>

\* The call returns without touching the runtime.
Return(r, stale) ==
    /\ ctl.pc = "idle"
    /\ result' = r
    /\ behind' = (behind \/ stale)
    /\ UNCHANGED <<rtVars, ctl>>

PeerCalls ==
    \/ \E n \in Names, g \in GroupIds : CreatePeer(n, g) /\ Commit("mutate", "sync")
    \/ \E p \in peers, n \in Names, g \in GroupIds :
            RenamePeer(p, n, g, TRUE) /\ Commit("mutate", "sync")
    \/ \E p \in peers, n \in Names, g \in GroupIds :
            RenamePeer(p, n, g, FALSE) /\ Return("error", TRUE)
    \/ \E p \in peers, g \in GroupIds : MovePeer(p, g) /\ Commit("mutate", "sync")
    \/ \E p \in peers : DeletePeer(p, TRUE) /\ Commit("mutate", "sync")
    \/ \E p \in peers : DeletePeer(p, FALSE) /\ Return("error", FALSE)
    \/ \E p \in peers : TogglePeer(p) /\ Commit("mutate", "sync")

GroupCalls ==
    \/ \E n \in GroupNames : CreateGroup(n) /\ Commit("mutate", "sync")
    \/ \E g \in groups, n \in GroupNames : RenameGroup(g, n) /\ Return("ok", FALSE)
    \/ \E g \in groups, intra \in BOOLEAN : UpdateGroup(g, intra) /\ Commit("mutate", "sync")
    \/ \E g \in groups : DeleteGroup(g) /\ Commit("mutate", "sync")
    \/ \E f, t \in GroupIds, b \in BOOLEAN : UpsertGroupLink(f, t, b) /\ Commit("mutate", "sync")
    \/ \E f, t \in GroupIds : DeleteGroupLink(f, t) /\ Commit("mutate", "sync")

MapCalls ==
    \/ \E s \in Names, a \in SUBSET GroupIds, v \in BOOLEAN :
            CreateServiceMap(s, a, v) /\ Commit("mutate", "sync")
    \/ \E m \in maps, s \in Names, a \in SUBSET GroupIds, v \in BOOLEAN :
            UpdateServiceMap(m, s, a, v) /\ Commit("mutate", "sync")
    \/ \E m \in maps : DeleteServiceMap(m) /\ Commit("mutate", "sync")

ForwardCalls ==
    \/ \E port \in Ports, proto \in Protocols :
            CreatePortForward(port, proto) /\ Commit("mutate", "sync")
    \/ \E f \in forwards, port \in Ports, proto \in Protocols :
            UpdatePortForward(f, port, proto) /\ Commit("mutate", "sync")
    \/ \E f \in forwards : DeletePortForward(f) /\ Commit("mutate", "sync")

\* Deleting a group, link, map or forward that is not there writes nothing and
\* still reconciles.
DeleteAbsent == UNCHANGED storeVars /\ Commit("mutate", "sync")

\* setup: the first administrator, then the stack.  importDatabase: the rows of an
\* upload, then the stack.
SetupCall ==
    \/ \E s \in Settings : Setup(s) /\ Commit("setup", "start")
    \/ \E u \in Uploads : ImportDatabase(u) /\ Commit("setup", "start")

\* updateMutableSettings restarts the stack when the MTU changes.
SettingsCall ==
    \E s \in Settings :
        /\ UpdateMutableSettings(s)
        /\ Commit("settings", IF s.mtu # settings.mtu THEN "start" ELSE "sync")

\* Mutant: OnStopped leaves the dataplane published.
BugStopKeepsLive ==
    /\ rt' = Down
    /\ live' = live
    /\ poller' = IF rt.up THEN Off ELSE poller

\* Stack.Stop with its OnStopped callback; nothing happens when it is not up.
StackStop ==
    /\ rt' = Down
    /\ live' = (live /\ ~rt.up)
    /\ poller' = IF rt.up THEN Off ELSE poller

\* reset stops the stack, then empties the store; the second step may fail.
Reset ==
    /\ ctl.pc = "idle"
    /\ Configured
    /\ StackStop
    /\ \/ ResetAll /\ result' = "ok"
       \/ UNCHANGED storeVars /\ result' = "error"
    /\ behind' = FALSE
    /\ UNCHANGED ctl

\* UpdateGroupLayout takes no lock and does not reconcile.
Layout ==
    /\ \/ \E c \in LayoutClients, g \in groups : LayoutRead(c, g) /\ behind' = behind
       \/ \E c \in LayoutClients : LayoutSave(c) /\ behind' = (behind \/ groups' # groups)
    /\ UNCHANGED <<rtVars, ctl, result>>

-----------------------------------------------------------------------------
(* reconcileRuntime, FullSync, Start and Stop, under controlMu.            *)

Goto(pc) == ctl' = [ctl EXCEPT !.pc = pc]

Finish(r) == ctl' = Idle /\ result' = r

\* What follows once the runtime holds the bundle.
Applied == IF ctl.op = "settings"
           THEN Goto("tail") /\ result' = result
           ELSE Finish(IF ctl.op = "boot" THEN "none" ELSE "ok")

\* Mutant: a failed restart is tried again.
BugRetryForever == ctl' = [ctl EXCEPT !.pc = "stop", !.mode = "start"]

\* Mutant: the call ends there, with the runtime half way.
BugHalfApplied == ctl' = Idle

\* A step of FullSync failed: restartAfterRuntimeFailure.  A step of Start failed:
\* Start has torn down what it built.
StepFails ==
    IF ctl.mode = "sync"
    THEN ctl' = [ctl EXCEPT !.pc = "stop", !.mode = "start"]
    ELSE Goto("failed")

\* LoadSyncBundle, which needs the settings row.  The group rows are copied; the
\* other tables cannot change while controlMu is held.
LoadBundle ==
    /\ ctl.pc = "load"
    /\ Configured
    /\ behind' = FALSE
    /\ IF ctl.mode = "sync" /\ ~live     \* syncRuntimeBundle: no dataplane
       THEN Applied
       ELSE /\ ctl' = [ctl EXCEPT !.groups = groups,
                                  !.pc = CASE ctl.mode = "sync" -> "dns"
                                           [] ctl.op \in {"setup", "boot"} -> "new"
                                           [] OTHER -> "stop"]
            /\ result' = result
    /\ UNCHANGED <<storeVars, rtVars>>

\* stopAfterRuntimeFailure: the bundle could not be built.
LoadFails ==
    /\ ctl.pc = "load"
    /\ ctl.op # "boot"
    /\ rt' = Down /\ live' = FALSE /\ poller' = Off
    /\ Finish("stopped")
    /\ UNCHANGED <<storeVars, behind>>

\* Stack.Stop followed by Hub.onStopped, which also ends a poller that outlived
\* an earlier stop; Start follows.
StopForRestart ==
    /\ ctl.pc = "stop"
    /\ rt' = Down /\ live' = FALSE /\ poller' = Off
    /\ Goto("new")
    /\ UNCHANGED <<storeVars, result, behind>>

\* Mutant: the network address instead of the first host address.
BugNetworkAddress ==
    /\ ctl.pc = "new"
    /\ \/ /\ rt' = [Down EXCEPT !.up = TRUE, !.local = {Hub - 1} \cup VIPs, !.mtu = settings.mtu]
          /\ Goto("wg")
       \/ rt' = rt /\ StepFails
    /\ UNCHANGED <<storeVars, live, poller, result, behind>>

\* NewManager, ConfigureServer and Up; the TUN starts with an empty rule set.
StartDevice ==
    /\ ctl.pc = "new"
    /\ \/ /\ rt' = [Down EXCEPT !.up = TRUE, !.local = {Hub} \cup VIPs, !.mtu = settings.mtu]
          /\ Goto("wg")
       \/ rt' = rt /\ StepFails
    /\ UNCHANGED <<storeVars, live, poller, result, behind>>

\* Mutant: FullSync leaves the DNS catalogue to the next start.
BugSyncWithoutDNS ==
    /\ ctl.pc = "dns"
    /\ Goto("wg")
    /\ UNCHANGED <<storeVars, rt, live, poller, result, behind>>

\* FullSync refreshes the DNS catalogue first.
SyncDNS ==
    /\ ctl.pc = "dns"
    /\ rt' = [rt EXCEPT !.dns = Catalog]
    /\ Goto("wg")
    /\ UNCHANGED <<storeVars, live, poller, result, behind>>

\* Manager.SyncPeer on the listed peers: a disabled one is removed, an enabled one
\* is set, and its allowed IP moves to it from whichever peer had it.
SyncedDevice(listed) ==
    LET gone == {p.id : p \in {q \in listed : ~q.enabled}}
        set  == Enabled(listed)
    IN  [rt EXCEPT
            !.keys = (@ \ gone) \cup {p.id : p \in set},
            !.routes = {r \in @ : r.peer \notin gone /\ r.ip \notin {p.ip : p \in set}}
                       \cup {[ip |-> p.ip, peer |-> p.id] : p \in set}]

\* Manager.SyncAll visits the peers, newest first, up to the first error.
SyncAll ==
    /\ ctl.pc = "wg"
    /\ \/ /\ rt' = SyncedDevice(peers)
          /\ Goto(IF ctl.mode = "sync" THEN "ports" ELSE "serve")
       \/ /\ \E p \in peers : rt' = SyncedDevice({q \in peers : q.id > p.id})
          /\ StepFails
    /\ UNCHANGED <<storeVars, live, poller, result, behind>>

\* EnableForwarding, the DNS server and the tunnel web server.
StartServices ==
    /\ ctl.pc = "serve"
    /\ \/ /\ rt' = [rt EXCEPT !.fwd = TRUE, !.dns = Catalog, !.upstream = settings.upstream]
          /\ Goto("ports")
       \/ /\ rt' \in {rt, [rt EXCEPT !.fwd = TRUE]}
          /\ StepFails
    /\ UNCHANGED <<storeVars, live, poller, result, behind>>

\* Mutant: whatever can be bound is served.
BugApplyUnvalidated ==
    /\ ctl.pc = "ports"
    /\ \/ /\ rt' = [rt EXCEPT !.reserved = {f.port : f \in forwards}, !.listen = Listen]
          /\ Goto("vips")
       \/ /\ forwards # {}
          /\ rt' = [rt EXCEPT !.reserved = {f.port : f \in forwards}, !.listen = {}]
          /\ StepFails
    /\ UNCHANGED <<storeVars, live, poller, result, behind>>

\* Two rules on one port are refused, whatever their protocols.
validateForwardRules == \A f, h \in forwards : f.port = h.port => f = h

\* ReserveHubPorts, then ForwardProxy.Apply: it refuses rules that are not valid and
\* leaves the old listeners, or stops these, binds the new ones and keeps none of them
\* when a bind fails.
ApplyForwards ==
    /\ ctl.pc = "ports"
    /\ \/ /\ validateForwardRules
          /\ rt' = [rt EXCEPT !.reserved = {f.port : f \in forwards}, !.listen = Listen]
          /\ Goto("vips")
       \/ /\ forwards # {}
          /\ rt' = [rt EXCEPT !.reserved = {f.port : f \in forwards},
                              !.listen = IF validateForwardRules THEN {} ELSE @]
          /\ StepFails
    /\ UNCHANGED <<storeVars, live, poller, result, behind>>

\* Mutant: the bypass set only grows, like the netstack's addresses.
BugVIPsOnlyAdded ==
    /\ ctl.pc = "vips"
    /\ \/ /\ rt' = [rt EXCEPT !.local = @ \cup VIPs, !.vips = @ \cup VIPs]
          /\ Goto("maps")
       \/ /\ VIPs # {}
          /\ rt' = rt
          /\ StepFails
    /\ UNCHANGED <<storeVars, live, poller, result, behind>>

\* EnsureMapVIPs only ever adds addresses; SetMapVIPs replaces the bypass set.
ApplyMapVIPs ==
    /\ ctl.pc = "vips"
    /\ \/ /\ rt' = [rt EXCEPT !.local = @ \cup VIPs, !.vips = VIPs]
          /\ Goto("maps")
       \/ /\ VIPs # {}
          /\ rt' = rt
          /\ StepFails
    /\ UNCHANGED <<storeVars, live, poller, result, behind>>

\* Mutant: new rules, old address table.
BugMapsKeepPeers ==
    /\ ctl.pc = "maps"
    /\ \/ rt' = [rt EXCEPT !.mapRules = MapRules] /\ Goto("policy")
       \/ rt' = rt /\ StepFails
    /\ UNCHANGED <<storeVars, live, poller, result, behind>>

\* MapProxy.Apply swaps the rules and the address table together.
ApplyMaps ==
    /\ ctl.pc = "maps"
    /\ \/ /\ rt' = [rt EXCEPT !.mapRules = MapRules, !.mapPeers = PeerGroups(peers)]
          /\ Goto("policy")
       \/ rt' = rt /\ StepFails
    /\ UNCHANGED <<storeVars, live, poller, result, behind>>

\* SetAccessPolicy comes last, from the bundle.
ApplyPolicy ==
    /\ ctl.pc = "policy"
    /\ rt' = [rt EXCEPT !.policy = Policy(ctl.groups)]
    /\ IF ctl.mode = "sync" THEN Applied ELSE Goto("started") /\ result' = result
    /\ UNCHANGED <<storeVars, live, poller, behind>>

\* OnStarted: the dataplane is published, the poller starts unless one runs (or the
\* interval cannot be read), and the policy is rebuilt unless the store cannot be read.
OnStarted ==
    /\ ctl.pc = "started"
    /\ live' = TRUE
    /\ \/ poller' = IF poller = Off THEN settings.interval ELSE poller
       \/ poller' = poller
    /\ \/ rt' = [rt EXCEPT !.policy = Policy(groups)]
       \/ rt' = rt
    /\ Applied
    /\ UNCHANGED <<storeVars, behind>>

\* Mutant: a failed start is not rolled back.
BugNoRollback ==
    /\ ctl.pc = "failed"
    /\ IF ctl.op = "boot"
       THEN ctl' = [Idle EXCEPT !.pc = "load", !.op = "boot", !.mode = "start"] /\ result' = result
       ELSE Finish(IF ctl.op = "setup" THEN "stopped" ELSE "mutation")
    /\ live' = FALSE /\ poller' = Off
    /\ UNCHANGED <<storeVars, rt, behind>>

\* Start returned an error, having closed the device; Stop finds nothing to stop.
StartFailed ==
    /\ ctl.pc = "failed"
    /\ rt' = Down
    /\ IF ctl.op = "boot"        \* Run returns and the supervisor starts it again
       THEN ctl' = [Idle EXCEPT !.pc = "load", !.op = "boot", !.mode = "start"] /\ result' = result
       ELSE Finish(IF ctl.op = "setup" THEN "stopped" ELSE "mutation")
    /\ live' = FALSE /\ poller' = Off
    /\ UNCHANGED <<storeVars, behind>>

\* The rest of updateMutableSettings: the resolvers, then a fresh poller, whether
\* or not the stack is running.
SettingsTail ==
    /\ ctl.pc = "tail"
    /\ rt' = [rt EXCEPT !.upstream = IF rt.up THEN settings.upstream ELSE @]
    /\ poller' = settings.interval
    /\ Finish("ok")
    /\ UNCHANGED <<storeVars, live, behind>>

\* The process dies; what it had committed stays.  Run boots from the store.
Crash ==
    /\ rt' = Down /\ live' = FALSE /\ poller' = Off
    /\ LayoutsLost
    /\ ctl' = IF Configured THEN [Idle EXCEPT !.pc = "load", !.op = "boot", !.mode = "start"]
                            ELSE Idle
    /\ result' = "none" /\ behind' = FALSE

Calls == \/ PeerCalls \/ GroupCalls \/ MapCalls \/ ForwardCalls \/ DeleteAbsent
         \/ SetupCall \/ SettingsCall \/ Reset

Reconcile ==
    \/ LoadBundle \/ LoadFails \/ StopForRestart
    \/ StartDevice \/ SyncDNS \/ SyncAll \/ StartServices
    \/ ApplyForwards \/ ApplyMapVIPs \/ ApplyMaps \/ ApplyPolicy
    \/ OnStarted \/ StartFailed \/ SettingsTail

CPNext == Calls \/ Layout \/ Reconcile \/ Crash

CPSpec == CPInit /\ [][CPNext]_vars

\* The goroutine that serves a call keeps running.
FairCPSpec == CPSpec /\ WF_vars(Reconcile)

-----------------------------------------------------------------------------
(* Properties.                                                             *)

CPTypeOK ==
    /\ TypeOK
    /\ DOMAIN rt = DOMAIN Down
    /\ rt.up \in BOOLEAN /\ rt.fwd \in BOOLEAN
    /\ rt.keys \subseteq 1 .. MaxPeers
    /\ rt.routes \subseteq [ip : Hosts, peer : 1 .. MaxPeers]
    /\ rt.vips \subseteq Hosts /\ rt.local \subseteq Hosts \cup {Hub}
    /\ rt.listen \subseteq [port : Ports, proto : Protocols]
    /\ rt.reserved \subseteq Ports
    /\ live \in BOOLEAN /\ behind \in BOOLEAN
    /\ poller \in Intervals \cup {Off}
    /\ ctl \in [pc : {"idle", "load", "stop", "new", "dns", "wg", "serve", "ports", "vips",
                      "maps", "policy", "started", "failed", "tail"},
                op : {"none", "mutate", "settings", "setup", "boot"},
                mode : {"none", "sync", "start"},
                groups : SUBSET GroupRow]
    /\ result \in {"none", "ok", "error", "stopped", "mutation"}

\* The states in which the runtime is meant to reflect the store.
Settled == ctl.pc = "idle" /\ rt.up /\ ~behind

\* A call that reports a runtime failure has left the runtime stopped: no device,
\* no published dataplane, no poller, whichever step failed and however often it
\* was retried (service/mutation.go:17-19, 46-48).
FailureMeansStopped ==
    ctl.pc = "idle" /\ result \in {"mutation", "stopped"}
        => ~rt.up /\ ~live /\ poller = Off

\* Between calls the service holds a dataplane exactly while the stack runs:
\* otherwise calls would skip a running stack, or sync a stopped one
\* (service/hub.go:59-74, 152-160).
LiveMatchesStack == ctl.pc = "idle" => live = rt.up

\* The hub forwards a first packet from peer p to peer q: both are on the device,
\* and the TUN filter lets the packet in (vpn/tun/tun.go shouldDrop).
Relays(p, q) ==
    /\ rt.up /\ rt.fwd
    /\ {[ip |-> p.ip, peer |-> p.id], [ip |-> q.ip, peer |-> q.id]} \subseteq rt.routes
    /\ q.ip \notin rt.local
    /\ \/ {p.ip, q.ip} \cap rt.vips # {}
       \/ <<p.ip, q.ip>> \notin rt.policy.blocked

\* Between calls the hub opens no path between two stored peers that the group
\* graph does not allow, over any history of moves, link changes, address reuse,
\* toggles and restarts.
GroupIsolation ==
    Settled => \A p, q \in peers :
        p # q /\ Relays(p, q) => LinkAllowsInit(p.group, q.group, links, groups)

\* A peer's address never bypasses the peer ACL, not even in the middle of a call:
\* an address that a deleted map gives back is out of the TUN's bypass set before
\* a peer can be given it (vpn/tun/tun.go:116, repo/ip_alloc.go).
BypassNeverPeer == \A p \in peers : p.ip \notin rt.vips

\* Between calls the DNS server answers a map name with its VIP exactly to the
\* clients that the map proxy would then let in, although the two hold separate
\* copies of the allow lists and of the peers' groups
\* (vpn/dns/lookup.go:38-46, vpn/ingress/servicemap.go:99-110).
DnsMatchesMapProxy ==
    ctl.pc = "idle" /\ rt.up => \A m \in rt.dns.maps, p \in peers :
        (m.vip \in LookupIP(rt.dns, m.slug, p.ip)) <=>
            \E rule \in rt.mapRules, e \in rt.mapPeers :
                rule.vip = m.vip /\ e.ip = p.ip /\ GroupInAllowedSet(rule.allowed, e.group)

\* Every call returns, whichever of its steps fail: a failed sync is retried by one
\* restart, and a failed restart is not retried (service/mutation.go:82-104).
CallsReturn == (ctl.op \in {"mutate", "settings", "setup"}) ~> (ctl.pc = "idle" \/ ctl.op = "boot")

\* Whatever was imported, no two listeners are ever on one port, not even between two
\* steps of a call, and a hub whose stored forwards share one does not run: its starts
\* fail and stay failed until the forwards are mended (vpn/ingress/forward.go:74-101,
\* service/setup.go:142-167, repo/models.go:71).
ClashNeverServed ==
    /\ \A a, b \in rt.listen : a.port = b.port => a = b
    /\ ctl.pc = "idle" /\ rt.up => validateForwardRules

\* What the data plane should enforce, and what it enforces of the stored peers.
Target ==
    [policy |-> Policy(groups), dns |-> Catalog, vips |-> VIPs,
     mapRules |-> MapRules, mapPeers |-> PeerGroups(peers),
     listen |-> Listen, reserved |-> {f.port : f \in forwards},
     settings |-> IF Configured THEN <<settings.mtu, settings.upstream>> ELSE <<>>,
     keys |-> IdsOf(Enabled(peers)), routes |-> Routes]

Enforced ==
    [policy |-> rt.policy, dns |-> rt.dns, vips |-> rt.vips,
     mapRules |-> rt.mapRules, mapPeers |-> rt.mapPeers,
     listen |-> rt.listen, reserved |-> rt.reserved,
     settings |-> <<rt.mtu, rt.upstream>>,
     keys |-> rt.keys \cap IdsOf(peers),
     routes |-> {r \in rt.routes : r.peer \in IdsOf(peers)}]

Promise == INSTANCE HubPromise WITH
    Failed <- {"stopped", "mutation"},
    want   <- Target,
    served <- IF ctl.pc = "idle" /\ rt.up THEN {Enforced} ELSE {},
    busy   <- ctl.pc # "idle",
    lag    <- behind,
    answer <- result

\* The control plane implements HubPromise: its ten steps per call, failures, retries
\* and crashes look from outside like calls that apply the store entirely or stop the
\* hub (service/mutation.go reconcileRuntime, vpn/runtime/stack.go).
KeepsPromise == Promise!Spec

-----------------------------------------------------------------------------
(* Statements of the repository that the code does not keep.               *)

\* "DeletePeer removes a peer from the database and live network."
\* (service/peers.go:136): no key outlives its peer on the WireGuard device.
DeletedPeerLeaves == Settled => rt.keys \subseteq IdsOf(peers)
=============================================================================
