-------------------------- MODULE HubPromiseProofs --------------------------
(***************************************************************************)
(* Proofs about what the data plane holds: for every point of a call, the  *)
(* components that have already been brought to the store.  The isolation  *)
(* of groups, the bypass set, the agreement of DNS and map proxy, and that *)
(* ControlPlane implements HubPromise, follow from it.                     *)
(***************************************************************************)
EXTENDS ControlPlaneProofs, HubStoreProofs

(* What a component holds once a call has brought it to the store. *)
DeviceHeld == /\ rt.keys \cap IdsOf(peers) = IdsOf(Enabled(peers))
              /\ {r \in rt.routes : r.peer \in IdsOf(peers)} = Routes
PortsHeld  == /\ rt.reserved = {f.port : f \in forwards} /\ rt.listen = Listen
              /\ validateForwardRules
MapsHeld   == rt.mapRules = MapRules /\ rt.mapPeers = PeerGroups(peers)
PolicyHeld == ~behind => rt.policy = Policy(groups)

\* The control thread is at one of these points, or past them all with the stack up.
Past(points) == ctl.pc \in points \/ (ctl.pc = "tail" /\ rt.up)

\* The order of FullSync and Start: which components hold the bundle at which point.
Progress ==
    /\ Past({"ports", "vips", "maps", "policy", "started"}) \/ (ctl.pc = "wg" /\ ctl.mode = "sync")
            => rt.dns = Catalog
    /\ Past({"serve", "ports", "vips", "maps", "policy", "started"}) => DeviceHeld
    /\ Past({"vips", "maps", "policy", "started"}) => PortsHeld
    /\ Past({"maps", "policy", "started"}) => rt.vips = VIPs
    /\ Past({"policy", "started"}) => MapsHeld
    /\ Past({"started"}) => PolicyHeld

\* Between calls; writes that nobody applies touch neither maps nor forwards.
Between == ctl.pc = "idle" /\ rt.up =>
    /\ PortsHeld /\ rt.vips = VIPs /\ rt.mapRules = MapRules
    /\ rt.dns.maps = Catalog.maps /\ rt.dns.groups = rt.mapPeers
    /\ ~behind => rt.dns = Catalog /\ DeviceHeld /\ MapsHeld /\ PolicyHeld

\* The bundle's copy of the group rows.
BundleInv ==
    ctl.pc \in {"stop", "new", "dns", "wg", "serve", "ports", "vips", "maps", "policy", "started"}
        /\ ~behind => ctl.groups = groups

\* MTU and resolvers are set when the device and the services start; a call that
\* changes the MTU restarts the stack, and one that changes the resolvers has a tail.
SettingsInv ==
    /\ rt.up /\ (ctl.pc \notin {"load", "stop"} \/ (ctl.pc = "load" /\ ctl.mode = "sync"))
            => rt.mtu = settings.mtu
    /\ rt.up /\ ctl.pc = "idle" => rt.upstream = settings.upstream
    /\ rt.up /\ ctl.pc # "idle" /\ ctl.mode = "sync" /\ ctl.op # "settings"
            => rt.upstream = settings.upstream
    /\ ctl.pc \in {"ports", "vips", "maps", "policy", "started"} /\ ctl.mode = "start"
            => rt.upstream = settings.upstream

\* Keys are never issued twice, and what the device remembers of a stored peer, or of
\* a deleted one, is the address it had.
KeysInv ==
    /\ \A p \in peers : p.id <= seq.peer
    /\ \A p, q \in peers : p.id = q.id => p = q
    /\ \A r \in rt.routes : r.peer <= seq.peer /\ \A p \in peers : p.id = r.peer => p.ip = r.ip

\* The points of a call.
Points == {"idle", "load", "stop", "new", "dns", "wg", "serve", "ports", "vips",
           "maps", "policy", "started", "failed", "tail"}
Threads == [pc : Points, op : {"none", "mutate", "settings", "setup", "boot"},
            mode : {"none", "sync", "start"}, groups : SUBSET GroupRow]

\* The runtime's fields; a stack that is not up holds nothing.
StackOK ==
    /\ DOMAIN rt = DOMAIN Down /\ rt.up \in BOOLEAN /\ rt.fwd \in BOOLEAN
    /\ ~rt.up => rt = Down
    /\ rt.keys \subseteq 1 .. MaxPeers /\ rt.routes \subseteq [ip : Hosts, peer : 1 .. MaxPeers]
    /\ rt.vips \subseteq Hosts /\ rt.local \subseteq Hosts \cup {Hub}
    /\ rt.listen \subseteq [port : Ports, proto : Protocols] /\ rt.reserved \subseteq Ports
    /\ \A a, b \in rt.listen : a.port = b.port => a = b

\* The control thread, and what it leaves for the next call.
ThreadOK ==
    /\ ctl \in Threads /\ behind \in BOOLEAN
    /\ poller \in Intervals \cup {Off}
    /\ result \in {"none", "ok", "error", "stopped", "mutation"}
    /\ ctl.pc # "idle" => ctl.mode # "none"
    /\ ctl.pc = "tail" => ctl.op = "settings"

\* What the data plane holds, given the store and the phase of the call.
DataInv ==
    /\ StackOK /\ ThreadOK /\ KeysInv /\ BypassNeverPeer
    /\ BundleInv /\ SettingsInv /\ Progress /\ Between

\* The inductive invariant.
ServedInv == TypeOK /\ AddressesDisjoint /\ LifecycleInv /\ DataInv

-----------------------------------------------------------------------------
(* What the store's operations do to the peers.                            *)

\* Unless a database is imported, a stored peer was there before with its id and address,
\* or is a new one with a fresh id and an address that no map has; ids stay unique.
LEMMA PeersNext ==
    ASSUME TypeOK, [Next]_storeVars, ~\E u \in Uploads : ImportDatabase(u),
           \A p \in peers : p.id <= seq.peer,
           \A p, q \in peers : p.id = q.id => p = q
    PROVE  /\ seq.peer <= seq'.peer
           /\ \A p \in peers' :
                \/ \E q \in peers : q.id = p.id /\ q.ip = p.ip
                \/ p.id = seq.peer + 1 /\ seq'.peer = seq.peer + 1 /\ p.ip \notin VIPs
           /\ \A p, q \in peers' : p.id = q.id => p = q
<1>0. seq.peer \in Nat /\ DOMAIN seq = {"group", "peer", "map", "fwd"} /\ \A p \in peers : p.id \in Nat
    BY StoreAssumption DEF TypeOK, PeerRow
<1>1. ASSUME NEW n \in Names, NEW g \in GroupIds, CreatePeer(n, g)
      PROVE  /\ seq.peer <= seq'.peer
             /\ \A p \in peers' :
                  \/ \E q \in peers : q.id = p.id /\ q.ip = p.ip
                  \/ p.id = seq.peer + 1 /\ seq'.peer = seq.peer + 1 /\ p.ip \notin VIPs
             /\ \A p, q \in peers' : p.id = q.id => p = q
    <2> DEFINE new(a) == [id |-> seq.peer + 1, name |-> n, ip |-> a, group |-> g, enabled |-> TRUE]
    <2>1. PICK a \in Hosts : peers' = peers \cup {new(a)} /\ a \notin collectUsedSubnetIPs
        BY <1>1 DEF CreatePeer, nextFreeHostInSubnet
    <2>2. a \notin VIPs
        BY <2>1 DEF collectUsedSubnetIPs, VIPs
    <2>3. new(a).id = seq.peer + 1 /\ new(a).ip = a
        OBVIOUS
    <2>4. seq'.peer = seq.peer + 1
        BY <1>0, <1>1 DEF CreatePeer
    <2> HIDE DEF new
    <2> QED
        BY <1>0, <2>1, <2>2, <2>3, <2>4
<1>2. ASSUME NEW p \in peers, NEW q, q.id = p.id, q.ip = p.ip,
             peers' = (peers \ {p}) \cup {q}, seq' = seq
      PROVE  /\ seq.peer <= seq'.peer
             /\ \A r \in peers' : \E s \in peers : s.id = r.id /\ s.ip = r.ip
             /\ \A r, s \in peers' : r.id = s.id => r = s
    BY <1>0, <1>2
<1>3. ASSUME NEW p \in peers, NEW n \in Names, NEW g \in GroupIds, NEW ok \in BOOLEAN,
             RenamePeer(p, n, g, ok)
      PROVE  \E q : q.id = p.id /\ q.ip = p.ip /\ peers' = (peers \ {p}) \cup {q} /\ seq' = seq
    <2> WITNESS [p EXCEPT !.name = n, !.group = g]
    <2> QED
        BY <1>3 DEF RenamePeer, TypeOK, PeerRow
<1>4. ASSUME NEW p \in peers, NEW g \in GroupIds, MovePeer(p, g)
      PROVE  \E q : q.id = p.id /\ q.ip = p.ip /\ peers' = (peers \ {p}) \cup {q} /\ seq' = seq
    <2> WITNESS [p EXCEPT !.group = g]
    <2> QED
        BY <1>4 DEF MovePeer, TypeOK, PeerRow
<1>5. ASSUME NEW p \in peers, TogglePeer(p)
      PROVE  \E q : q.id = p.id /\ q.ip = p.ip /\ peers' = (peers \ {p}) \cup {q} /\ seq' = seq
    <2> WITNESS [p EXCEPT !.enabled = ~@]
    <2> QED
        BY <1>5 DEF TogglePeer, TypeOK, PeerRow
<1>6. CASE peers' \subseteq peers /\ seq.peer <= seq'.peer
    BY <1>6
<1>7. ASSUME NEW p \in peers, NEW ok \in BOOLEAN, DeletePeer(p, ok) PROVE peers' \subseteq peers /\ seq' = seq
    BY <1>7 DEF DeletePeer
<1>8. CASE ResetAll \/ LayoutsLost \/ UNCHANGED storeVars
    BY <1>0, <1>6, <1>8 DEF ResetAll, LayoutsLost, storeVars, tables
<1>9. CASE \/ \E s \in Settings : Setup(s) \/ UpdateMutableSettings(s)
           \/ \E n \in GroupNames : CreateGroup(n)
           \/ \E g \in groups, n \in GroupNames : RenameGroup(g, n)
           \/ \E g \in groups, intra \in BOOLEAN : UpdateGroup(g, intra)
           \/ \E g \in groups : DeleteGroup(g)
           \/ \E f, t \in GroupIds, b \in BOOLEAN : UpsertGroupLink(f, t, b)
           \/ \E f, t \in GroupIds : DeleteGroupLink(f, t)
           \/ \E c \in LayoutClients, g \in groups : LayoutRead(c, g)
           \/ \E c \in LayoutClients : LayoutSave(c)
    <2>1. peers' = peers /\ seq'.peer = seq.peer
        BY <1>0, <1>9 DEF Setup, UpdateMutableSettings, CreateGroup, RenameGroup, UpdateGroup,
            DeleteGroup, UpsertGroupLink, DeleteGroupLink, LayoutRead, LayoutSave, tables
    <2> QED
        BY <1>0, <1>6, <2>1
<1>10. CASE \/ \E s \in Names, a \in SUBSET GroupIds, v \in BOOLEAN : CreateServiceMap(s, a, v)
            \/ \E m \in maps, s \in Names, a \in SUBSET GroupIds, v \in BOOLEAN :
                    UpdateServiceMap(m, s, a, v)
            \/ \E m \in maps : DeleteServiceMap(m)
            \/ \E port \in Ports, proto \in Protocols : CreatePortForward(port, proto)
            \/ \E f \in forwards, port \in Ports, proto \in Protocols :
                    UpdatePortForward(f, port, proto)
            \/ \E f \in forwards : DeletePortForward(f)
    <2>1. peers' = peers /\ seq'.peer = seq.peer
        BY <1>0, <1>10 DEF CreateServiceMap, UpdateServiceMap, DeleteServiceMap, CreatePortForward,
            UpdatePortForward, DeletePortForward
    <2> QED
        BY <1>0, <1>6, <2>1
<1>11. CASE \E p \in peers, ok \in BOOLEAN : DeletePeer(p, ok)
    BY <1>0, <1>6, <1>7, <1>11
<1>12. CASE \/ \E p \in peers, n \in Names, g \in GroupIds, ok \in BOOLEAN : RenamePeer(p, n, g, ok)
            \/ \E p \in peers, g \in GroupIds : MovePeer(p, g)
            \/ \E p \in peers : TogglePeer(p)
    <2>1. PICK p \in peers : \E q : q.id = p.id /\ q.ip = p.ip /\ peers' = (peers \ {p}) \cup {q}
                                    /\ seq' = seq
        BY <1>3, <1>4, <1>5, <1>12
    <2> QED
        BY <1>2, <2>1
<1> QED
    BY <1>1, <1>8, <1>9, <1>10, <1>11, <1>12 DEF Next

\* No store operation gives a key or an address that the device remembers to another
\* peer, as long as the runtime stays as it is or goes down; an import finds no device.
LEMMA KeysNext ==
    ASSUME TypeOK, StackOK, KeysInv, NoStackUnconfigured, [Next]_storeVars, rt' = rt \/ rt' = Down
    PROVE  KeysInv'
<1>0. seq.peer \in Nat /\ seq'.peer \in Nat /\ Down.routes = {}
    BY NextType, StoreAssumption DEF TypeOK, Down
<1>1. CASE \E u \in Uploads : ImportDatabase(u)
    <2>1. PICK u \in Uploads : ImportDatabase(u)
        BY <1>1
    <2>2. rt'.routes = {}
        BY <1>0, <2>1 DEF ImportDatabase, NoStackUnconfigured, StackOK
    <2>3. /\ peers' = u.peers /\ seq' = u.seq /\ Unique(u.peers, "id")
          /\ \A p \in u.peers : p.id <= u.seq.peer
        BY <2>1, UploadAssumption DEF ImportDatabase
    <2> QED
        BY <2>2, <2>3 DEF KeysInv, Unique
<1>2. CASE ~\E u \in Uploads : ImportDatabase(u)
    <2>1. /\ seq.peer <= seq'.peer
          /\ \A p \in peers' :
                \/ \E q \in peers : q.id = p.id /\ q.ip = p.ip
                \/ p.id = seq.peer + 1 /\ seq'.peer = seq.peer + 1 /\ p.ip \notin VIPs
          /\ \A p, q \in peers' : p.id = q.id => p = q
        BY <1>2, PeersNext DEF KeysInv
    <2>2. (\A r \in rt.routes : r.peer \in Nat) /\ (\A p \in peers : p.id \in Nat)
        BY StoreAssumption DEF StackOK, TypeOK, PeerRow
    <2>3. rt'.routes = rt.routes \/ rt'.routes = {}
        BY <1>0
    <2>4. \A p \in peers' : p.id <= seq'.peer
        BY <1>0, <2>1, <2>2 DEF KeysInv
    <2>5. \A r \in rt'.routes : r.peer <= seq'.peer /\ \A p \in peers' : p.id = r.peer => p.ip = r.ip
        BY <1>0, <2>1, <2>2, <2>3 DEF KeysInv
    <2> QED
        BY <2>1, <2>4, <2>5 DEF KeysInv
<1> QED
    BY <1>1, <1>2

-----------------------------------------------------------------------------
(* Calls: the store changes, the runtime does not.                         *)

\* What a call that goes on to reconcile leaves behind.
LEMMA CommitStep ==
    ASSUME ServedInv, [Next]_storeVars,
           NEW op \in {"mutate", "settings", "setup"}, NEW mode \in {"sync", "start"},
           Commit(op, mode),
           rt.up /\ mode = "sync" => settings'.mtu = settings.mtu,
           rt.up /\ mode = "sync" /\ op # "settings" => settings'.upstream = settings.upstream
    PROVE  DataInv'
<1>1. /\ TypeOK /\ StackOK /\ ThreadOK /\ KeysInv /\ BypassNeverPeer /\ SettingsInv /\ Between
      /\ NoStackUnconfigured
    BY DEF ServedInv, DataInv, LifecycleInv
<1>2. /\ ctl.pc = "idle" /\ UNCHANGED <<rt, live, poller, result, behind>>
      /\ ctl' = [pc |-> "load", op |-> op, mode |-> mode, groups |-> {}]
    BY DEF Commit, Idle, rtVars
<1>3. StackOK'
    BY <1>1, <1>2 DEF StackOK
<1>4. ThreadOK'
    <2>1. ctl' \in Threads
        BY <1>2, ZenonT(30) DEF Threads, Points
    <2> QED
        BY <1>1, <1>2, <2>1, ZenonT(30) DEF ThreadOK
<1>5. KeysInv'
    BY <1>1, <1>2, KeysNext
<1>6. BypassNeverPeer'
    <2>1. rt.vips = {} \/ rt.vips = VIPs
        BY <1>1, <1>2 DEF StackOK, Between, Down
    <2>2. CASE \E u \in Uploads : ImportDatabase(u)
        BY <1>1, <1>2, <2>2 DEF ImportDatabase, NoStackUnconfigured, StackOK, Down, BypassNeverPeer
    <2>3. CASE ~\E u \in Uploads : ImportDatabase(u)
        BY <1>1, <1>2, <2>1, <2>3, PeersNext DEF KeysInv, BypassNeverPeer
    <2> QED
        BY <2>2, <2>3
<1>7. BundleInv' /\ Progress' /\ Between'
    BY <1>2 DEF BundleInv, Progress, Past, Between
<1>8. SettingsInv'
    BY <1>1, <1>2 DEF SettingsInv
<1> QED
    BY <1>3, <1>4, <1>5, <1>6, <1>7, <1>8 DEF DataInv

\* The calls that reconcile, whichever table they write.
LEMMA CommittedCalls ==
    ASSUME ServedInv, [Next]_storeVars, settings' = settings, Commit("mutate", "sync")
    PROVE  DataInv'
BY CommitStep

\* Setup and import find no stack; a new MTU makes the settings call restart the stack.
LEMMA SettingsCalls ==
    ASSUME ServedInv, [Next]_storeVars, SetupCall \/ SettingsCall
    PROVE  DataInv'
<1>1. ASSUME NEW s \in Settings, Setup(s), Commit("setup", "start") PROVE DataInv'
    BY <1>1, CommitStep
<1>2. ASSUME NEW s \in Settings, UpdateMutableSettings(s),
             Commit("settings", IF s.mtu # settings.mtu THEN "start" ELSE "sync")
      PROVE  DataInv'
    <2>1. CASE s.mtu # settings.mtu
        BY <1>2, <2>1, CommitStep
    <2>2. CASE s.mtu = settings.mtu
        BY <1>2, <2>2, CommitStep DEF UpdateMutableSettings
    <2> QED
        BY <2>1, <2>2
<1>3. ASSUME NEW u \in Uploads, ImportDatabase(u), Commit("setup", "start") PROVE DataInv'
    BY <1>3, CommitStep
<1> QED
    BY <1>1, <1>2, <1>3 DEF SetupCall, SettingsCall

\* A renamed group keeps its id and its intra flag, and the policy reads no more of it.
LEMMA RenamePolicy ==
    ASSUME TypeOK, NEW g \in groups, NEW n \in GroupNames, RenameGroup(g, n)
    PROVE  Policy(groups)' = Policy(groups)
<1> DEFINE h == [g EXCEPT !.name = n]
<1>1. h.id = g.id /\ h.intra = g.intra
    BY DEF TypeOK, GroupRow
<1>2. groups' = (groups \ {g}) \cup {h} /\ UNCHANGED <<peers, links, maps>>
    BY DEF RenameGroup
<1> HIDE DEF h
<1>3. ASSUME NEW i PROVE AllowsIntraGroup(i, groups') = AllowsIntraGroup(i, groups)
    <2>1. AllowsIntraGroup(i, groups') <=> AllowsIntraGroup(i, groups)
        BY <1>1, <1>2 DEF AllowsIntraGroup
    <2> QED
        BY <2>1, Zenon DEF AllowsIntraGroup
<1>4. ASSUME NEW p, NEW q PROVE PeerBlocked(p, q, links, groups') = PeerBlocked(p, q, links, groups)
    BY <1>3, Zenon DEF PeerBlocked, allowDirectPeerIP, needsTransparentRelay, LinkAllowsInit
<1>5. Blocked(peers, links, groups', maps) = Blocked(peers, links, groups, maps)
    BY <1>4, Zenon DEF Blocked
<1> QED
    BY <1>2, <1>5 DEF Policy, AccessPolicySpec

\* What a request that applies nothing leaves behind: it changes neither maps nor
\* forwards, and what else it changes of what the runtime holds is noted.
LEMMA UnappliedStep ==
    ASSUME ServedInv, [Next]_storeVars, UNCHANGED <<rt, live, poller, ctl, settings, maps, forwards>>,
           result' \in {"none", "ok", "error", "stopped", "mutation"}, behind' \in BOOLEAN,
           behind => behind',
           ctl.pc = "idle" \/ UNCHANGED <<peers, links>>,
           behind' \/ (UNCHANGED <<peers, links>> /\ Policy(groups)' = Policy(groups)),
           behind' \/ ctl.pc = "idle" \/ groups' = groups
    PROVE  DataInv'
<1>1. TypeOK /\ StackOK /\ ThreadOK /\ KeysInv /\ BypassNeverPeer /\ BundleInv /\ SettingsInv
      /\ Progress /\ Between
    BY DEF ServedInv, DataInv
<1>2. StackOK'
    BY <1>1 DEF StackOK
<1>3. ThreadOK'
    BY <1>1, ZenonT(30) DEF ThreadOK
<1>4. KeysInv'
    BY <1>1, KeysNext DEF ServedInv, LifecycleInv
<1>5. BypassNeverPeer'
    <2>0. ~\E u \in Uploads : ImportDatabase(u)
        BY StoreAssumption, UploadAssumption DEF ImportDatabase, Configured, Database, Settings
    <2>1. ctl.pc = "idle" => rt.vips = {} \/ rt.vips = VIPs
        BY <1>1 DEF StackOK, Between, Down
    <2> QED
        BY <1>1, <2>0, <2>1, PeersNext DEF KeysInv, BypassNeverPeer
<1>6. BundleInv'
    BY <1>1 DEF BundleInv
<1>7. SettingsInv'
    BY <1>1 DEF SettingsInv
<1>8. VIPs' = VIPs /\ Listen' = Listen /\ MapRules' = MapRules /\ PortsHeld' = PortsHeld
    BY DEF VIPs, Listen, MapRules, PortsHeld, validateForwardRules
<1>9. UNCHANGED <<peers, links>> => Catalog' = Catalog /\ DeviceHeld' = DeviceHeld /\ MapsHeld' = MapsHeld
    BY <1>8 DEF Catalog, DeviceHeld, MapsHeld, Routes
<1>10. PolicyHeld => PolicyHeld'
    BY DEF PolicyHeld
<1>11. Progress'
    <2>1. CASE ctl.pc = "idle"
        BY <2>1 DEF Progress, Past
    <2>2. CASE ctl.pc # "idle"
        BY <1>1, <1>8, <1>9, <1>10, <2>2 DEF Progress, Past
    <2> QED
        BY <2>1, <2>2
<1>12. Between'
    <2>1. Catalog'.maps = Catalog.maps
        BY DEF Catalog, BuildDNSCatalog
    <2> QED
        BY <1>1, <1>8, <1>9, <1>10, <2>1 DEF Between
<1> QED
    BY <1>2, <1>3, <1>4, <1>5, <1>6, <1>7, <1>11, <1>12 DEF DataInv

\* A failed rename of a peer is noted; a failed deletion has removed only the DNS record.
LEMMA ReturnedCalls ==
    ASSUME ServedInv, [Next]_storeVars,
           \/ \E p \in peers, n \in Names, g \in GroupIds :
                    RenamePeer(p, n, g, FALSE) /\ Return("error", TRUE)
           \/ \E p \in peers : DeletePeer(p, FALSE) /\ Return("error", FALSE)
           \/ \E g \in groups, n \in GroupNames : RenameGroup(g, n) /\ Return("ok", FALSE)
    PROVE  DataInv'
<1>0. TypeOK /\ behind \in BOOLEAN
    BY Zenon DEF ServedInv, DataInv, ThreadOK
<1>1. ASSUME NEW p \in peers, NEW n \in Names, NEW g \in GroupIds, RenamePeer(p, n, g, FALSE),
             Return("error", TRUE)
      PROVE  DataInv'
    <2>1. /\ UNCHANGED <<rt, live, poller, ctl, settings, maps, forwards>> /\ result' = "error"
          /\ behind' = TRUE /\ ctl.pc = "idle"
        BY <1>1 DEF RenamePeer, Return, rtVars
    <2> QED
        BY <2>1, UnappliedStep
<1>2. ASSUME NEW p \in peers, DeletePeer(p, FALSE), Return("error", FALSE) PROVE DataInv'
    <2>1. /\ UNCHANGED <<rt, live, poller, ctl, settings, maps, forwards>> /\ result' = "error"
          /\ ctl.pc = "idle" /\ UNCHANGED <<peers, links, groups>>
        BY <1>2 DEF DeletePeer, Return, rtVars
    <2>2. behind' = behind
        BY <1>0, <1>2, Zenon DEF Return
    <2>3. Policy(groups)' = Policy(groups)
        BY <2>1 DEF Policy
    <2> QED
        BY <1>0, <2>1, <2>2, <2>3, UnappliedStep
<1>3. ASSUME NEW g \in groups, NEW n \in GroupNames, RenameGroup(g, n), Return("ok", FALSE)
      PROVE  DataInv'
    <2>1. /\ UNCHANGED <<rt, live, poller, ctl, settings, maps, forwards>> /\ result' = "ok"
          /\ ctl.pc = "idle" /\ UNCHANGED <<peers, links>>
        BY <1>3 DEF RenameGroup, Return, rtVars
    <2>2. behind' = behind
        BY <1>0, <1>3, Zenon DEF Return
    <2>3. Policy(groups)' = Policy(groups)
        BY <1>0, <1>3, RenamePolicy
    <2> QED
        BY <1>0, <2>1, <2>2, <2>3, UnappliedStep
<1> QED
    BY <1>1, <1>2, <1>3

\* A layout save that changes a group row is noted, in the middle of a call too.
LEMMA LayoutStep ==
    ASSUME ServedInv, [Next]_storeVars, Layout
    PROVE  DataInv'
<1>0. behind \in BOOLEAN /\ result \in {"none", "ok", "error", "stopped", "mutation"}
    BY Zenon DEF ServedInv, DataInv, ThreadOK
<1>1. /\ UNCHANGED <<rt, live, poller, ctl, settings, maps, forwards>> /\ result' = result
      /\ UNCHANGED <<peers, links>>
    BY DEF Layout, LayoutRead, LayoutSave, rtVars, tables
<1>2. behind' \in BOOLEAN /\ (behind => behind') /\ (behind' \/ groups' = groups)
    <2>1. CASE \E c \in LayoutClients, g \in groups : LayoutRead(c, g) /\ behind' = behind
        BY <1>0, <2>1 DEF LayoutRead, tables
    <2>2. CASE \E c \in LayoutClients : LayoutSave(c) /\ behind' = (behind \/ groups' # groups)
        BY <1>0, <2>2, Zenon
    <2> QED
        BY <2>1, <2>2 DEF Layout
<1>3. groups' = groups => Policy(groups)' = Policy(groups)
    BY <1>1 DEF Policy
<1> QED
    BY <1>0, <1>1, <1>2, <1>3, UnappliedStep

\* What a step that stops the stack leaves behind: nothing is held.
LEMMA StoppedStep ==
    ASSUME ServedInv, [Next]_storeVars, rt' = Down, ThreadOK', ctl'.pc \in {"idle", "load", "new"},
           ctl'.pc = "new" => BundleInv'
    PROVE  DataInv'
<1>1. TypeOK /\ StackOK /\ KeysInv /\ NoStackUnconfigured
    BY DEF ServedInv, DataInv, LifecycleInv
<1>2. StackOK'
    BY DEF StackOK, Down
<1>3. KeysInv'
    BY <1>1, KeysNext
<1>4. BypassNeverPeer'
    BY DEF BypassNeverPeer, Down
<1>5. BundleInv' /\ SettingsInv' /\ Progress' /\ Between'
    BY DownFacts DEF BundleInv, SettingsInv, Progress, Past, Between
<1> QED
    BY <1>2, <1>3, <1>4, <1>5 DEF DataInv

\* Reset and the end of the process.
LEMMA ResetAndCrash ==
    ASSUME ServedInv, [Next]_storeVars, Reset \/ Crash
    PROVE  DataInv'
<1>0. ThreadOK /\ ctl \in Threads
    BY DEF ServedInv, DataInv, ThreadOK
<1>1. CASE Reset
    <2>1. ThreadOK'
        <3>1. ctl' = ctl /\ poller' \in {poller, Off} /\ result' \in {"ok", "error"} /\ behind' = FALSE
            BY <1>1 DEF Reset, StackStop
        <3> QED
            BY <1>0, <3>1 DEF ThreadOK
    <2>2. rt' = Down /\ ctl'.pc \in {"idle", "load"}
        BY <1>1 DEF Reset, StackStop
    <2> QED
        BY <2>1, <2>2, StoppedStep
<1>2. CASE Crash
    <2>1. /\ rt' = Down /\ poller' = Off /\ result' = "none" /\ behind' = FALSE
          /\ \/ ctl' = [pc |-> "idle", op |-> "none", mode |-> "none", groups |-> {}]
             \/ ctl' = [pc |-> "load", op |-> "boot", mode |-> "start", groups |-> {}]
        BY <1>2 DEF Crash, Idle
    <2>2. ctl' \in Threads
        <3>1. CASE ctl' = [pc |-> "idle", op |-> "none", mode |-> "none", groups |-> {}]
            BY <3>1, ZenonT(30) DEF Threads, Points
        <3>2. CASE ctl' = [pc |-> "load", op |-> "boot", mode |-> "start", groups |-> {}]
            BY <3>2, ZenonT(30) DEF Threads, Points
        <3> QED
            BY <2>1, <3>1, <3>2
    <2>3. /\ ctl'.pc \in {"idle", "load"} /\ (ctl'.pc # "idle" => ctl'.mode # "none")
        BY <2>1
    <2>4. ThreadOK'
        BY <2>1, <2>2, <2>3, ZenonT(30) DEF ThreadOK
    <2> QED
        BY <2>1, <2>3, <2>4, StoppedStep
<1> QED
    BY <1>1, <1>2

-----------------------------------------------------------------------------
(* Steps of a call: the runtime changes, the store does not.               *)

\* What the store asks for stays the same.
LEMMA StoreSame ==
    ASSUME UNCHANGED storeVars
    PROVE  /\ UNCHANGED <<settings, groups, links, peers, dns, maps, forwards, seq>>
           /\ Catalog' = Catalog /\ VIPs' = VIPs /\ Listen' = Listen /\ MapRules' = MapRules
           /\ Routes' = Routes /\ Policy(groups)' = Policy(groups)
           /\ {f.port : f \in forwards}' = {f.port : f \in forwards}
           /\ PeerGroups(peers)' = PeerGroups(peers)
BY DEF storeVars, tables, Catalog, VIPs, Listen, MapRules, Routes, Policy

\* A component that a step leaves alone still holds what it held.
LEMMA HeldSame ==
    ASSUME UNCHANGED storeVars
    PROVE  /\ DeviceHeld /\ rt'.keys = rt.keys /\ rt'.routes = rt.routes => DeviceHeld'
           /\ PortsHeld /\ rt'.reserved = rt.reserved /\ rt'.listen = rt.listen => PortsHeld'
           /\ MapsHeld /\ rt'.mapRules = rt.mapRules /\ rt'.mapPeers = rt.mapPeers => MapsHeld'
           /\ PolicyHeld /\ rt'.policy = rt.policy /\ behind' = behind => PolicyHeld'
BY StoreSame DEF DeviceHeld, PortsHeld, MapsHeld, PolicyHeld, validateForwardRules

\* The device forgets routes, or keeps them.
LEMMA KeysSame ==
    ASSUME KeysInv, UNCHANGED storeVars, rt'.routes \subseteq rt.routes
    PROVE  KeysInv'
BY StoreSame DEF KeysInv

\* The thread goes on.
LEMMA GotoStep ==
    ASSUME ThreadOK, NEW point \in Points, Goto(point)
    PROVE  /\ ctl' \in Threads /\ ctl'.pc = point
           /\ ctl'.op = ctl.op /\ ctl'.mode = ctl.mode /\ ctl'.groups = ctl.groups
<1>1. ctl \in Threads
    BY DEF ThreadOK
<1>2. ctl' \in Threads
    BY <1>1, ZenonT(30) DEF Goto, Threads
<1> QED
    BY <1>1, <1>2 DEF Goto, Threads

\* The thread restarts the stack, or gives up a start.
LEMMA FailsStep ==
    ASSUME ThreadOK, StepFails
    PROVE  /\ ctl' \in Threads /\ ctl'.op = ctl.op /\ ctl'.groups = ctl.groups
           /\ \/ ctl.mode = "sync" /\ ctl'.pc = "stop" /\ ctl'.mode = "start"
              \/ ctl.mode # "sync" /\ ctl'.pc = "failed" /\ ctl'.mode = ctl.mode
<1>1. ctl \in Threads
    BY DEF ThreadOK
<1>2. CASE ctl.mode = "sync"
    <2>1. ctl' = [ctl EXCEPT !.pc = "stop", !.mode = "start"]
        BY <1>2 DEF StepFails
    <2>2. ctl' \in Threads
        <3>1. "stop" \in Points /\ "start" \in {"none", "sync", "start"}
            BY DEF Points
        <3> QED
            BY <1>1, <2>1, <3>1 DEF Threads
    <2> QED
        BY <1>1, <1>2, <2>1, <2>2 DEF Threads
<1>3. CASE ctl.mode # "sync"
    BY <1>3, GotoStep DEF StepFails, Points
<1> QED
    BY <1>2, <1>3

\* The call ends.
LEMMA FinishStep ==
    ASSUME NEW r, Finish(r)
    PROVE  ctl' \in Threads /\ ctl'.pc = "idle" /\ result' = r
<1>1. ctl' = [pc |-> "idle", op |-> "none", mode |-> "none", groups |-> {}]
    BY DEF Finish, Idle
<1>2. ctl' \in Threads
    BY <1>1, ZenonT(30) DEF Threads, Points
<1> QED
    BY <1>1, <1>2 DEF Finish

\* What a failed step leaves behind, whatever it did to the components: the stack
\* keeps its MTU until the restart.
LEMMA FailedStep ==
    ASSUME ServedInv, UNCHANGED storeVars, UNCHANGED <<poller, result, behind>>, StepFails,
           ctl.pc \in {"new", "wg", "serve", "ports", "vips", "maps"},
           rt'.up = rt.up, rt'.mtu = rt.mtu,
           StackOK', KeysInv', BypassNeverPeer'
    PROVE  DataInv'
<1>1. ThreadOK /\ BundleInv /\ SettingsInv
    BY DEF ServedInv, DataInv
<1>2. /\ ctl' \in Threads /\ ctl'.op = ctl.op /\ ctl'.groups = ctl.groups
      /\ \/ ctl.mode = "sync" /\ ctl'.pc = "stop" /\ ctl'.mode = "start"
         \/ ctl.mode # "sync" /\ ctl'.pc = "failed" /\ ctl'.mode = ctl.mode
    BY <1>1, FailsStep
<1>3. ThreadOK'
    <2>1. ctl'.mode # "none" /\ ctl'.pc # "tail"
        BY <1>1, <1>2 DEF ThreadOK
    <2> QED
        BY <1>1, <1>2, <2>1, ZenonT(30) DEF ThreadOK
<1>4. BundleInv'
    BY <1>1, <1>2, StoreSame DEF BundleInv
<1>5. SettingsInv'
    BY <1>1, <1>2, StoreSame DEF SettingsInv
<1>6. Progress' /\ Between'
    BY <1>2 DEF Progress, Past, Between
<1> QED
    BY <1>3, <1>4, <1>5, <1>6 DEF DataInv

\* What the last step of an application leaves behind, before the tail of a settings
\* call or at the end of the call.
LEMMA AppliedStep ==
    ASSUME ServedInv, UNCHANGED storeVars, behind' \in BOOLEAN, Applied,
           ctl.pc # "idle", poller' \in Intervals \cup {Off},
           StackOK', KeysInv', BypassNeverPeer',
           rt'.up => /\ rt'.dns = Catalog /\ DeviceHeld' /\ PortsHeld' /\ rt'.vips = VIPs
                     /\ MapsHeld' /\ PolicyHeld' /\ rt'.mtu = settings.mtu
                     /\ ctl.op # "settings" => rt'.upstream = settings.upstream
    PROVE  DataInv'
<1>0. ThreadOK
    BY DEF ServedInv, DataInv
<1>1. CASE ctl.op = "settings"
    <2>1. Goto("tail") /\ result' = result
        BY <1>1 DEF Applied
    <2>2. ctl' \in Threads /\ ctl'.pc = "tail" /\ ctl'.op = "settings" /\ ctl'.mode = ctl.mode
        BY <1>0, <1>1, <2>1, GotoStep DEF Points
    <2>3. ThreadOK'
        BY <1>0, <2>1, <2>2 DEF ThreadOK
    <2>4. BundleInv' /\ Between'
        BY <2>2 DEF BundleInv, Between
    <2>5. SettingsInv'
        BY <2>2, StoreSame DEF SettingsInv
    <2>6. Progress'
        BY <2>2, StoreSame DEF Progress, Past
    <2> QED
        BY <2>3, <2>4, <2>5, <2>6 DEF DataInv
<1>2. CASE ctl.op # "settings"
    <2>1. PICK r \in {"none", "ok"} : Finish(r)
        BY <1>2 DEF Applied
    <2>2. ctl' \in Threads /\ ctl'.pc = "idle" /\ result' = r
        BY <2>1, FinishStep
    <2>3. ThreadOK'
        BY <2>1, <2>2 DEF ThreadOK
    <2>4. BundleInv' /\ Progress'
        BY <2>2 DEF BundleInv, Progress, Past
    <2>5. SettingsInv'
        BY <1>2, <2>2, StoreSame DEF SettingsInv
    <2>6. Between'
        <3>1. Catalog.groups = PeerGroups(peers)
            BY DEF Catalog, BuildDNSCatalog
        <3> QED
            BY <2>2, <3>1, StoreSame DEF Between, MapsHeld
    <2> QED
        BY <2>3, <2>4, <2>5, <2>6 DEF DataInv
<1> QED
    BY <1>1, <1>2

\* The bundle is loaded, or there is no stack to apply it to.
LEMMA LoadBundleStep ==
    ASSUME ServedInv, LoadBundle
    PROVE  DataInv'
<1>1. /\ ctl.pc = "load" /\ behind' = FALSE /\ UNCHANGED storeVars /\ rt' = rt /\ poller' = poller
      /\ live = rt.up
      /\ ctl.op \in {"setup", "boot"} => ~rt.up /\ ctl.mode # "sync"
    BY DEF LoadBundle, rtVars, ServedInv, LifecycleInv, Phase
<1>2. StackOK /\ ThreadOK /\ KeysInv /\ BypassNeverPeer /\ SettingsInv
    BY DEF ServedInv, DataInv
<1>3. StackOK' /\ KeysInv' /\ BypassNeverPeer'
    BY <1>1, <1>2, StoreSame, KeysSame DEF StackOK, BypassNeverPeer
<1>4. CASE ctl.mode = "sync" /\ ~live
    BY <1>1, <1>2, <1>3, <1>4, AppliedStep DEF LoadBundle, ThreadOK
<1>5. CASE ~(ctl.mode = "sync" /\ ~live)
    <2> DEFINE point == CASE ctl.mode = "sync" -> "dns"
                          [] ctl.op \in {"setup", "boot"} -> "new"
                          [] OTHER -> "stop"
    <2>1. ctl' = [ctl EXCEPT !.groups = groups, !.pc = point] /\ result' = result
        BY <1>5 DEF LoadBundle
    <2>2. \/ point = "dns" /\ ctl.mode = "sync"
          \/ point = "new" /\ ctl.mode # "sync" /\ ctl.op \in {"setup", "boot"}
          \/ point = "stop" /\ ctl.mode # "sync"
        BY <1>1
    <2> HIDE DEF point
    <2>3. ctl \in Threads /\ groups \in SUBSET GroupRow /\ point \in Points
        BY <1>2, <2>2 DEF ThreadOK, Points, ServedInv, TypeOK
    <2>4. ctl' \in Threads
        BY <2>1, <2>3, ZenonT(30) DEF Threads
    <2>5. ctl'.pc = point /\ ctl'.op = ctl.op /\ ctl'.mode = ctl.mode /\ ctl'.groups = groups
        BY <2>1, <2>3 DEF Threads
    <2>6. ThreadOK'
        BY <1>1, <1>2, <2>1, <2>2, <2>4, <2>5 DEF ThreadOK
    <2>7. BundleInv' /\ Progress' /\ Between'
        BY <1>1, <2>2, <2>5, StoreSame DEF BundleInv, Progress, Past, Between
    <2>8. SettingsInv'
        BY <1>1, <1>2, <2>2, <2>5, StoreSame DEF SettingsInv
    <2> QED
        BY <1>3, <2>6, <2>7, <2>8 DEF DataInv
<1> QED
    BY <1>4, <1>5

\* The steps that stop the stack.
LEMMA StoppingSteps ==
    ASSUME ServedInv, LoadFails \/ StopForRestart \/ StartFailed
    PROVE  DataInv'
<1>1. ThreadOK /\ BundleInv
    BY DEF ServedInv, DataInv
<1>2. rt' = Down /\ UNCHANGED storeVars /\ poller' = Off /\ behind' = behind
    BY DEF LoadFails, StopForRestart, StartFailed
<1>3. CASE LoadFails
    <2>1. ctl' \in Threads /\ ctl'.pc = "idle" /\ result' = "stopped"
        BY <1>3, FinishStep DEF LoadFails
    <2>2. ThreadOK'
        BY <1>1, <1>2, <2>1 DEF ThreadOK
    <2> QED
        BY <1>2, <2>1, <2>2, StoppedStep
<1>4. CASE StopForRestart
    <2>1. ctl.pc = "stop" /\ result' = result
        BY <1>4 DEF StopForRestart
    <2>2. /\ ctl' \in Threads /\ ctl'.pc = "new"
          /\ ctl'.op = ctl.op /\ ctl'.mode = ctl.mode /\ ctl'.groups = ctl.groups
        BY <1>1, <1>4, GotoStep DEF StopForRestart, Points
    <2>3. ThreadOK'
        BY <1>1, <1>2, <2>1, <2>2 DEF ThreadOK
    <2>4. BundleInv'
        BY <1>1, <1>2, <2>1, <2>2, StoreSame DEF BundleInv
    <2> QED
        BY <1>2, <2>2, <2>3, <2>4, StoppedStep
<1>5. CASE StartFailed
    <2>2. CASE ctl.op = "boot"
        <3>1. ctl' = [pc |-> "load", op |-> "boot", mode |-> "start", groups |-> {}] /\ result' = result
            BY <1>5, <2>2 DEF StartFailed, Idle
        <3>2. ctl' \in Threads
            BY <3>1, ZenonT(30) DEF Threads, Points
        <3>3. ThreadOK' /\ ctl'.pc = "load"
            BY <1>1, <1>2, <3>1, <3>2 DEF ThreadOK
        <3> QED
            BY <1>2, <3>3, StoppedStep
    <2>3. CASE ctl.op # "boot"
        <3>1. PICK r \in {"stopped", "mutation"} : Finish(r)
            BY <1>5, <2>3 DEF StartFailed
        <3>2. ctl' \in Threads /\ ctl'.pc = "idle" /\ result' = r
            BY <3>1, FinishStep
        <3>3. ThreadOK'
            BY <1>1, <1>2, <3>1, <3>2 DEF ThreadOK
        <3> QED
            BY <1>2, <3>2, <3>3, StoppedStep
    <2> QED
        BY <2>2, <2>3
<1> QED
    BY <1>3, <1>4, <1>5

\* What a step from one point of the call to the next leaves behind, given what it
\* does to the components.
LEMMA NextPoint ==
    ASSUME ServedInv, UNCHANGED storeVars, UNCHANGED <<poller, result, behind>>,
           NEW point \in {"wg", "serve", "ports", "vips", "maps", "policy", "started"}, Goto(point),
           ctl.pc \in {"new", "dns", "wg", "serve", "ports", "vips", "maps", "policy"},
           StackOK', KeysInv', BypassNeverPeer', SettingsInv', Progress'
    PROVE  DataInv'
<1>1. ThreadOK /\ BundleInv
    BY DEF ServedInv, DataInv
<1>2. /\ ctl' \in Threads /\ ctl'.pc = point
      /\ ctl'.op = ctl.op /\ ctl'.mode = ctl.mode /\ ctl'.groups = ctl.groups
    BY <1>1, GotoStep DEF Points
<1>3. ThreadOK'
    BY <1>1, <1>2 DEF ThreadOK
<1>4. BundleInv' /\ Between'
    BY <1>1, <1>2, StoreSame DEF BundleInv, Between
<1> QED
    BY <1>3, <1>4 DEF DataInv

\* NewManager, ConfigureServer and Up: a fresh device with the stored MTU.
LEMMA StartDeviceStep ==
    ASSUME ServedInv, StartDevice
    PROVE  DataInv'
<1>1. TypeOK /\ StackOK /\ KeysInv /\ BypassNeverPeer /\ ThreadOK
    BY DEF ServedInv, DataInv
<1>2. /\ ctl.pc = "new" /\ ctl.mode # "sync"
      /\ UNCHANGED storeVars /\ UNCHANGED <<live, poller, result, behind>>
    BY DEF StartDevice, ServedInv, LifecycleInv, Phase
<1>3. CASE /\ rt' = [Down EXCEPT !.up = TRUE, !.local = {Hub} \cup VIPs, !.mtu = settings.mtu]
           /\ Goto("wg")
    <2>1. /\ DOMAIN rt' = DOMAIN Down /\ rt'.up = TRUE
          /\ rt'.local = {Hub} \cup VIPs /\ rt'.mtu = settings.mtu
          /\ rt'.fwd = FALSE /\ rt'.keys = {} /\ rt'.routes = {} /\ rt'.vips = {}
          /\ rt'.listen = {} /\ rt'.reserved = {}
        BY <1>3 DEF Down
    <2>2. VIPs \subseteq Hosts
        BY <1>1 DEF VIPs, TypeOK, MapRow
    <2>3. StackOK'
        BY <2>1, <2>2 DEF StackOK
    <2>4. KeysInv' /\ BypassNeverPeer'
        BY <1>1, <1>2, <2>1, KeysSame DEF BypassNeverPeer
    <2>5. ctl'.pc = "wg" /\ ctl'.mode = ctl.mode
        BY <1>1, <1>3, GotoStep DEF Points
    <2>6. SettingsInv' /\ Progress'
        BY <1>2, <2>1, <2>5, StoreSame DEF SettingsInv, Progress, Past
    <2> QED
        BY <1>2, <1>3, <2>3, <2>4, <2>6, NextPoint
<1>4. CASE rt' = rt /\ StepFails
    <2>1. StackOK' /\ KeysInv' /\ BypassNeverPeer'
        BY <1>1, <1>2, <1>4, KeysSame, StoreSame DEF StackOK, BypassNeverPeer
    <2> QED
        BY <1>2, <1>4, <2>1, FailedStep
<1> QED
    BY <1>3, <1>4 DEF StartDevice

\* FullSync refreshes the catalogue first.
LEMMA SyncDNSStep ==
    ASSUME ServedInv, SyncDNS
    PROVE  DataInv'
<1>1. StackOK /\ KeysInv /\ BypassNeverPeer /\ ThreadOK /\ SettingsInv
    BY DEF ServedInv, DataInv
<1>2. /\ ctl.pc = "dns" /\ ctl.mode = "sync" /\ rt.up = TRUE
      /\ UNCHANGED storeVars /\ UNCHANGED <<live, poller, result, behind>>
    BY DEF SyncDNS, ServedInv, LifecycleInv, Phase
<1>3. /\ DOMAIN rt' = DOMAIN Down /\ rt'.dns = Catalog
      /\ rt'.up = rt.up /\ rt'.fwd = rt.fwd /\ rt'.keys = rt.keys
      /\ rt'.routes = rt.routes /\ rt'.local = rt.local /\ rt'.vips = rt.vips
      /\ rt'.policy = rt.policy /\ rt'.upstream = rt.upstream /\ rt'.mtu = rt.mtu
      /\ rt'.listen = rt.listen /\ rt'.reserved = rt.reserved
      /\ rt'.mapRules = rt.mapRules /\ rt'.mapPeers = rt.mapPeers
    BY <1>1 DEF SyncDNS, StackOK, Down
<1>4. ctl'.pc = "wg" /\ ctl'.mode = ctl.mode /\ ctl'.op = ctl.op /\ Goto("wg")
    BY <1>1, GotoStep DEF SyncDNS, Points
<1>5. StackOK'
    BY <1>1, <1>2, <1>3 DEF StackOK
<1>6. KeysInv' /\ BypassNeverPeer'
    BY <1>1, <1>2, <1>3, KeysSame, StoreSame DEF BypassNeverPeer
<1>7. SettingsInv'
    BY <1>1, <1>2, <1>3, <1>4, StoreSame DEF SettingsInv
<1>8. Progress'
    BY <1>2, <1>3, <1>4, StoreSame DEF Progress, Past
<1> QED
    BY <1>2, <1>4, <1>5, <1>6, <1>7, <1>8, NextPoint

\* SyncPeer on some of the stored peers: the device's other peers keep what they have,
\* and after a visit to all of them the stored ones are configured as the store says.
LEMMA SyncedDeviceFacts ==
    ASSUME TypeOK, StackOK, KeysInv, rt.up = TRUE, UNCHANGED storeVars,
           NEW listed \in SUBSET peers, rt' = SyncedDevice(listed)
    PROVE  /\ StackOK' /\ KeysInv' /\ (listed = peers => DeviceHeld')
           /\ rt'.up = rt.up /\ rt'.fwd = rt.fwd /\ rt'.local = rt.local
           /\ rt'.vips = rt.vips /\ rt'.policy = rt.policy /\ rt'.dns = rt.dns
           /\ rt'.upstream = rt.upstream /\ rt'.mtu = rt.mtu /\ rt'.listen = rt.listen
           /\ rt'.reserved = rt.reserved /\ rt'.mapRules = rt.mapRules
           /\ rt'.mapPeers = rt.mapPeers
<1> DEFINE gone == {p.id : p \in {q \in listed : ~q.enabled}}
           set  == Enabled(listed)
           ids  == (rt.keys \ gone) \cup {p.id : p \in set}
           table == {r \in rt.routes : r.peer \notin gone /\ r.ip \notin {p.ip : p \in set}}
                    \cup {[ip |-> p.ip, peer |-> p.id] : p \in set}
<1>1. rt' = [rt EXCEPT !.keys = ids, !.routes = table]
    BY DEF SyncedDevice, StackOK, Down
<1>2. peers \subseteq PeerRow /\ set \subseteq peers
    BY DEF TypeOK, Enabled
<1>3. ids \subseteq 1 .. MaxPeers
    BY <1>2 DEF StackOK, PeerRow
<1>4. table \subseteq [ip : Hosts, peer : 1 .. MaxPeers]
    BY <1>2 DEF StackOK, PeerRow
<1>5. \A r \in table : r.peer <= seq.peer /\ \A p \in peers : p.id = r.peer => p.ip = r.ip
    <2>1. \A p \in set : p.id <= seq.peer /\ \A q \in peers : q.id = p.id => q.ip = p.ip
        BY <1>2 DEF KeysInv
    <2> QED
        BY <2>1 DEF KeysInv
<1>6. ASSUME listed = peers PROVE ids \cap IdsOf(peers) = IdsOf(Enabled(peers))
    BY <1>6 DEF IdsOf, Enabled, KeysInv
<1>7. ASSUME listed = peers PROVE {r \in table : r.peer \in IdsOf(peers)} = Routes
    <2>1. ASSUME NEW r \in rt.routes, r.peer \in IdsOf(peers), r.peer \notin gone
          PROVE  r.ip \in {p.ip : p \in set}
        <3>1. PICK p \in peers : p.id = r.peer
            BY <2>1 DEF IdsOf
        <3>2. p.enabled
            BY <1>7, <2>1, <3>1
        <3>3. p \in set /\ p.ip = r.ip
            BY <1>7, <3>1, <3>2 DEF Enabled, KeysInv
        <3> QED
            BY <3>3
    <2>2. \A p \in set : p.id \in IdsOf(peers)
        BY <1>2 DEF IdsOf
    <2>3. set = Enabled(peers)
        BY <1>7
    <2> QED
        BY <2>1, <2>2, <2>3 DEF Routes
<1> HIDE DEF ids, table
<1>8. /\ DOMAIN rt' = DOMAIN Down /\ rt'.keys = ids /\ rt'.routes = table
      /\ rt'.up = rt.up /\ rt'.fwd = rt.fwd /\ rt'.local = rt.local
      /\ rt'.vips = rt.vips /\ rt'.policy = rt.policy /\ rt'.dns = rt.dns
      /\ rt'.upstream = rt.upstream /\ rt'.mtu = rt.mtu /\ rt'.listen = rt.listen
      /\ rt'.reserved = rt.reserved /\ rt'.mapRules = rt.mapRules
      /\ rt'.mapPeers = rt.mapPeers
    BY <1>1 DEF StackOK, Down
<1>9. StackOK'
    BY <1>3, <1>4, <1>8 DEF StackOK
<1>10. KeysInv'
    BY <1>5, <1>8, StoreSame DEF KeysInv
<1>11. listed = peers => DeviceHeld'
    BY <1>6, <1>7, <1>8, StoreSame DEF DeviceHeld
<1> QED
    BY <1>8, <1>9, <1>10, <1>11

\* Manager.SyncAll, to its end or to its first error.
LEMMA SyncAllStep ==
    ASSUME ServedInv, SyncAll
    PROVE  DataInv'
<1>1. TypeOK /\ StackOK /\ KeysInv /\ BypassNeverPeer /\ ThreadOK /\ SettingsInv /\ Progress
    BY DEF ServedInv, DataInv
<1>2. /\ ctl.pc = "wg" /\ rt.up = TRUE
      /\ UNCHANGED storeVars /\ UNCHANGED <<live, poller, result, behind>>
    BY DEF SyncAll, ServedInv, LifecycleInv, Phase
<1>3. PICK listed \in SUBSET peers :
        /\ rt' = SyncedDevice(listed)
        /\ \/ listed = peers /\ Goto(IF ctl.mode = "sync" THEN "ports" ELSE "serve")
           \/ StepFails
    BY DEF SyncAll
<1>4. /\ StackOK' /\ KeysInv' /\ (listed = peers => DeviceHeld')
      /\ rt'.up = rt.up /\ rt'.fwd = rt.fwd /\ rt'.local = rt.local
      /\ rt'.vips = rt.vips /\ rt'.policy = rt.policy /\ rt'.dns = rt.dns
      /\ rt'.upstream = rt.upstream /\ rt'.mtu = rt.mtu /\ rt'.listen = rt.listen
      /\ rt'.reserved = rt.reserved /\ rt'.mapRules = rt.mapRules
      /\ rt'.mapPeers = rt.mapPeers
    BY <1>1, <1>2, <1>3, SyncedDeviceFacts
<1>5. BypassNeverPeer'
    BY <1>1, <1>2, <1>4, StoreSame DEF BypassNeverPeer
<1>6. CASE StepFails
    BY <1>2, <1>4, <1>5, <1>6, FailedStep
<1>7. CASE listed = peers /\ Goto(IF ctl.mode = "sync" THEN "ports" ELSE "serve")
    <2>1. PICK point \in {"ports", "serve"} :
            Goto(point) /\ (point = "ports" <=> ctl.mode = "sync")
        BY <1>7
    <2>2. ctl'.pc = point /\ ctl'.mode = ctl.mode /\ ctl'.op = ctl.op
        BY <1>1, <2>1, GotoStep DEF Points
    <2>3. SettingsInv'
        BY <1>1, <1>2, <1>4, <2>1, <2>2, StoreSame DEF SettingsInv
    <2>4. Progress'
        BY <1>1, <1>2, <1>4, <1>7, <2>1, <2>2, StoreSame DEF Progress, Past
    <2> QED
        BY <1>2, <1>4, <1>5, <2>1, <2>3, <2>4, NextPoint
<1> QED
    BY <1>3, <1>6, <1>7

\* EnableForwarding, the DNS server and the tunnel web server.
LEMMA StartServicesStep ==
    ASSUME ServedInv, StartServices
    PROVE  DataInv'
<1>1. TypeOK /\ StackOK /\ KeysInv /\ BypassNeverPeer /\ ThreadOK /\ SettingsInv /\ Progress
    BY DEF ServedInv, DataInv
<1>2. /\ ctl.pc = "serve" /\ rt.up = TRUE /\ ctl.mode # "sync"
      /\ UNCHANGED storeVars /\ UNCHANGED <<live, poller, result, behind>>
    BY DEF StartServices, ServedInv, LifecycleInv, Phase
<1>3. CASE /\ rt' = [rt EXCEPT !.fwd = TRUE, !.dns = Catalog, !.upstream = settings.upstream]
           /\ Goto("ports")
    <2>1. /\ DOMAIN rt' = DOMAIN Down /\ rt'.fwd = TRUE /\ rt'.dns = Catalog
          /\ rt'.upstream = settings.upstream
          /\ rt'.up = rt.up /\ rt'.keys = rt.keys /\ rt'.routes = rt.routes
          /\ rt'.local = rt.local /\ rt'.vips = rt.vips /\ rt'.policy = rt.policy
          /\ rt'.mtu = rt.mtu /\ rt'.listen = rt.listen /\ rt'.reserved = rt.reserved
          /\ rt'.mapRules = rt.mapRules /\ rt'.mapPeers = rt.mapPeers
        BY <1>1, <1>3 DEF StackOK, Down
    <2>2. StackOK'
        BY <1>1, <1>2, <2>1 DEF StackOK
    <2>3. KeysInv' /\ BypassNeverPeer'
        BY <1>1, <1>2, <2>1, KeysSame, StoreSame DEF BypassNeverPeer
    <2>4. ctl'.pc = "ports" /\ ctl'.mode = ctl.mode /\ ctl'.op = ctl.op
        BY <1>1, <1>3, GotoStep DEF Points
    <2>5. SettingsInv'
        BY <1>1, <1>2, <2>1, <2>4, StoreSame DEF SettingsInv
    <2>6. Progress'
        BY <1>1, <1>2, <2>1, <2>4, StoreSame, HeldSame DEF Progress, Past
    <2> QED
        BY <1>2, <1>3, <2>2, <2>3, <2>5, <2>6, NextPoint
<1>4. CASE rt' \in {rt, [rt EXCEPT !.fwd = TRUE]} /\ StepFails
    <2>1. /\ DOMAIN rt' = DOMAIN Down /\ rt'.fwd \in {rt.fwd, TRUE}
          /\ rt'.up = rt.up /\ rt'.keys = rt.keys /\ rt'.routes = rt.routes
          /\ rt'.local = rt.local /\ rt'.vips = rt.vips /\ rt'.policy = rt.policy
          /\ rt'.dns = rt.dns /\ rt'.upstream = rt.upstream /\ rt'.mtu = rt.mtu
          /\ rt'.listen = rt.listen /\ rt'.reserved = rt.reserved
          /\ rt'.mapRules = rt.mapRules /\ rt'.mapPeers = rt.mapPeers
        BY <1>1, <1>4 DEF StackOK, Down
    <2>2. StackOK'
        BY <1>1, <1>2, <2>1 DEF StackOK
    <2>3. KeysInv' /\ BypassNeverPeer'
        BY <1>1, <1>2, <2>1, KeysSame, StoreSame DEF BypassNeverPeer
    <2> QED
        BY <1>2, <1>4, <2>1, <2>2, <2>3, FailedStep
<1> QED
    BY <1>3, <1>4 DEF StartServices

\* ReserveHubPorts and ForwardProxy.Apply, which keeps no listener when a bind fails and
\* the old ones when it refuses the rules.
LEMMA ApplyForwardsStep ==
    ASSUME ServedInv, ApplyForwards
    PROVE  DataInv'
<1>1. TypeOK /\ StackOK /\ KeysInv /\ BypassNeverPeer /\ ThreadOK /\ SettingsInv /\ Progress
    BY DEF ServedInv, DataInv
<1>2. /\ ctl.pc = "ports" /\ rt.up = TRUE
      /\ UNCHANGED storeVars /\ UNCHANGED <<live, poller, result, behind>>
    BY DEF ApplyForwards, ServedInv, LifecycleInv, Phase
<1> DEFINE kept == {f.port : f \in forwards}
<1>3. PICK bound :
        /\ rt' = [rt EXCEPT !.reserved = kept, !.listen = bound]
        /\ \/ bound = Listen /\ validateForwardRules /\ Goto("vips")
           \/ bound \in {{}, rt.listen} /\ StepFails
    <2>1. CASE validateForwardRules /\ Goto("vips")
               /\ rt' = [rt EXCEPT !.reserved = kept, !.listen = Listen]
        BY <2>1
    <2>2. CASE StepFails /\ rt' = [rt EXCEPT !.reserved = kept,
                                    !.listen = IF validateForwardRules THEN {} ELSE @]
        BY <2>2
    <2> QED
        BY <2>1, <2>2 DEF ApplyForwards
<1>4. /\ kept \subseteq Ports /\ bound \subseteq [port : Ports, proto : Protocols]
      /\ \A a, b \in bound : a.port = b.port => a = b
    BY <1>1, <1>3 DEF StackOK, TypeOK, FwdRow, Listen, validateForwardRules
<1>5. /\ DOMAIN rt' = DOMAIN Down /\ rt'.reserved = kept /\ rt'.listen = bound
      /\ rt'.up = rt.up /\ rt'.fwd = rt.fwd /\ rt'.keys = rt.keys
      /\ rt'.routes = rt.routes /\ rt'.local = rt.local /\ rt'.vips = rt.vips
      /\ rt'.policy = rt.policy /\ rt'.dns = rt.dns /\ rt'.upstream = rt.upstream
      /\ rt'.mtu = rt.mtu /\ rt'.mapRules = rt.mapRules /\ rt'.mapPeers = rt.mapPeers
    BY <1>1, <1>3 DEF StackOK, Down
<1>6. StackOK'
    BY <1>1, <1>2, <1>4, <1>5 DEF StackOK
<1>7. KeysInv' /\ BypassNeverPeer'
    BY <1>1, <1>2, <1>5, KeysSame, StoreSame DEF BypassNeverPeer
<1>8. CASE StepFails
    BY <1>2, <1>5, <1>6, <1>7, <1>8, FailedStep
<1>9. CASE bound = Listen /\ validateForwardRules /\ Goto("vips")
    <2>1. ctl'.pc = "vips" /\ ctl'.mode = ctl.mode /\ ctl'.op = ctl.op
        BY <1>1, <1>9, GotoStep DEF Points
    <2>2. SettingsInv'
        BY <1>1, <1>2, <1>5, <2>1, StoreSame DEF SettingsInv
    <2>3. PortsHeld'
        BY <1>2, <1>5, <1>9, StoreSame DEF PortsHeld, validateForwardRules
    <2>4. Progress'
        BY <1>1, <1>2, <1>5, <2>1, <2>3, StoreSame, HeldSame DEF Progress, Past
    <2> QED
        BY <1>2, <1>6, <1>7, <1>9, <2>2, <2>4, NextPoint
<1> QED
    BY <1>3, <1>8, <1>9

\* EnsureMapVIPs and SetMapVIPs: no stored peer has the address of a stored map.
LEMMA ApplyMapVIPsStep ==
    ASSUME ServedInv, ApplyMapVIPs
    PROVE  DataInv'
<1>1. TypeOK /\ StackOK /\ KeysInv /\ BypassNeverPeer /\ ThreadOK /\ SettingsInv /\ Progress
    BY DEF ServedInv, DataInv
<1>2. /\ ctl.pc = "vips" /\ rt.up = TRUE
      /\ UNCHANGED storeVars /\ UNCHANGED <<live, poller, result, behind>>
    BY DEF ApplyMapVIPs, ServedInv, LifecycleInv, Phase
<1>3. CASE rt' = [rt EXCEPT !.local = @ \cup VIPs, !.vips = VIPs] /\ Goto("maps")
    <2>1. /\ DOMAIN rt' = DOMAIN Down /\ rt'.local = rt.local \cup VIPs /\ rt'.vips = VIPs
          /\ rt'.up = rt.up /\ rt'.fwd = rt.fwd /\ rt'.keys = rt.keys
          /\ rt'.routes = rt.routes /\ rt'.policy = rt.policy /\ rt'.dns = rt.dns
          /\ rt'.upstream = rt.upstream /\ rt'.mtu = rt.mtu /\ rt'.listen = rt.listen
          /\ rt'.reserved = rt.reserved /\ rt'.mapRules = rt.mapRules
          /\ rt'.mapPeers = rt.mapPeers
        BY <1>1, <1>3 DEF StackOK, Down
    <2>2. VIPs \subseteq Hosts
        BY <1>1 DEF VIPs, TypeOK, MapRow
    <2>3. StackOK'
        BY <1>1, <1>2, <2>1, <2>2 DEF StackOK
    <2>4. KeysInv'
        BY <1>1, <1>2, <2>1, KeysSame
    <2>5. BypassNeverPeer'
        BY <1>2, <2>1, StoreSame DEF ServedInv, AddressesDisjoint, Disjoint, VIPs, BypassNeverPeer
    <2>6. ctl'.pc = "maps" /\ ctl'.mode = ctl.mode /\ ctl'.op = ctl.op
        BY <1>1, <1>3, GotoStep DEF Points
    <2>7. SettingsInv'
        BY <1>1, <1>2, <2>1, <2>6, StoreSame DEF SettingsInv
    <2>8. Progress'
        BY <1>1, <1>2, <2>1, <2>6, StoreSame, HeldSame DEF Progress, Past
    <2> QED
        BY <1>2, <1>3, <2>3, <2>4, <2>5, <2>7, <2>8, NextPoint
<1>4. CASE rt' = rt /\ StepFails
    <2>1. StackOK' /\ KeysInv' /\ BypassNeverPeer'
        BY <1>1, <1>2, <1>4, KeysSame, StoreSame DEF StackOK, BypassNeverPeer
    <2> QED
        BY <1>2, <1>4, <2>1, FailedStep
<1> QED
    BY <1>3, <1>4 DEF ApplyMapVIPs

\* MapProxy.Apply swaps the rules and the address table together.
LEMMA ApplyMapsStep ==
    ASSUME ServedInv, ApplyMaps
    PROVE  DataInv'
<1>1. TypeOK /\ StackOK /\ KeysInv /\ BypassNeverPeer /\ ThreadOK /\ SettingsInv /\ Progress
    BY DEF ServedInv, DataInv
<1>2. /\ ctl.pc = "maps" /\ rt.up = TRUE
      /\ UNCHANGED storeVars /\ UNCHANGED <<live, poller, result, behind>>
    BY DEF ApplyMaps, ServedInv, LifecycleInv, Phase
<1>3. CASE rt' = [rt EXCEPT !.mapRules = MapRules, !.mapPeers = PeerGroups(peers)] /\ Goto("policy")
    <2>1. /\ DOMAIN rt' = DOMAIN Down /\ rt'.mapRules = MapRules /\ rt'.mapPeers = PeerGroups(peers)
          /\ rt'.up = rt.up /\ rt'.fwd = rt.fwd /\ rt'.keys = rt.keys
          /\ rt'.routes = rt.routes /\ rt'.local = rt.local /\ rt'.vips = rt.vips
          /\ rt'.policy = rt.policy /\ rt'.dns = rt.dns /\ rt'.upstream = rt.upstream
          /\ rt'.mtu = rt.mtu /\ rt'.listen = rt.listen /\ rt'.reserved = rt.reserved
        BY <1>1, <1>3 DEF StackOK, Down
    <2>2. StackOK'
        BY <1>1, <1>2, <2>1 DEF StackOK
    <2>3. KeysInv' /\ BypassNeverPeer'
        BY <1>1, <1>2, <2>1, KeysSame, StoreSame DEF BypassNeverPeer
    <2>4. ctl'.pc = "policy" /\ ctl'.mode = ctl.mode /\ ctl'.op = ctl.op
        BY <1>1, <1>3, GotoStep DEF Points
    <2>5. SettingsInv'
        BY <1>1, <1>2, <2>1, <2>4, StoreSame DEF SettingsInv
    <2>6. MapsHeld'
        BY <1>2, <2>1, StoreSame DEF MapsHeld
    <2>7. Progress'
        BY <1>1, <1>2, <2>1, <2>4, <2>6, StoreSame, HeldSame DEF Progress, Past
    <2> QED
        BY <1>2, <1>3, <2>2, <2>3, <2>5, <2>7, NextPoint
<1>4. CASE rt' = rt /\ StepFails
    <2>1. StackOK' /\ KeysInv' /\ BypassNeverPeer'
        BY <1>1, <1>2, <1>4, KeysSame, StoreSame DEF StackOK, BypassNeverPeer
    <2> QED
        BY <1>2, <1>4, <2>1, FailedStep
<1> QED
    BY <1>3, <1>4 DEF ApplyMaps

\* SetAccessPolicy: the bundle's rows, which are the stored ones unless a layout save
\* came in between.
LEMMA ApplyPolicyStep ==
    ASSUME ServedInv, ApplyPolicy
    PROVE  DataInv'
<1>1. StackOK /\ KeysInv /\ BypassNeverPeer /\ ThreadOK /\ SettingsInv /\ Progress /\ BundleInv
    BY DEF ServedInv, DataInv
<1>2. /\ ctl.pc = "policy" /\ rt.up = TRUE
      /\ UNCHANGED storeVars /\ UNCHANGED <<live, poller, behind>>
    BY DEF ApplyPolicy, ServedInv, LifecycleInv, Phase
<1>3. /\ DOMAIN rt' = DOMAIN Down /\ rt'.policy = Policy(ctl.groups)
      /\ rt'.up = rt.up /\ rt'.fwd = rt.fwd /\ rt'.keys = rt.keys
      /\ rt'.routes = rt.routes /\ rt'.local = rt.local /\ rt'.vips = rt.vips
      /\ rt'.dns = rt.dns /\ rt'.upstream = rt.upstream /\ rt'.mtu = rt.mtu
      /\ rt'.listen = rt.listen /\ rt'.reserved = rt.reserved
      /\ rt'.mapRules = rt.mapRules /\ rt'.mapPeers = rt.mapPeers
    BY <1>1 DEF ApplyPolicy, StackOK, Down
<1>4. StackOK'
    BY <1>1, <1>2, <1>3 DEF StackOK
<1>5. KeysInv' /\ BypassNeverPeer'
    BY <1>1, <1>2, <1>3, KeysSame, StoreSame DEF BypassNeverPeer
<1>6. PolicyHeld'
    <2>1. ~behind => ctl.groups = groups
        BY <1>1, <1>2 DEF BundleInv
    <2>2. ~behind' => rt'.policy = Policy(groups)
        BY <1>2, <1>3, <2>1
    <2> QED
        BY <1>2, <2>2, StoreSame DEF PolicyHeld
<1>7. DeviceHeld' /\ PortsHeld' /\ MapsHeld' /\ rt'.dns = Catalog /\ rt'.vips = VIPs
    BY <1>1, <1>2, <1>3, HeldSame DEF Progress, Past
<1>8. CASE ctl.mode = "sync"
    <2>1. Applied
        BY <1>8 DEF ApplyPolicy
    <2>2. rt'.mtu = settings.mtu /\ (ctl.op # "settings" => rt'.upstream = settings.upstream)
        BY <1>1, <1>2, <1>3, <1>8 DEF SettingsInv
    <2>3. behind' \in BOOLEAN /\ poller' \in Intervals \cup {Off}
        BY <1>1, <1>2 DEF ThreadOK
    <2> QED
        BY <1>2, <1>4, <1>5, <1>6, <1>7, <2>1, <2>2, <2>3, AppliedStep
<1>9. CASE ctl.mode # "sync"
    <2>1. Goto("started") /\ result' = result
        BY <1>9 DEF ApplyPolicy
    <2>2. ctl'.pc = "started" /\ ctl'.mode = ctl.mode /\ ctl'.op = ctl.op
        BY <1>1, <2>1, GotoStep DEF Points
    <2>3. SettingsInv'
        BY <1>1, <1>2, <1>3, <1>9, <2>2, StoreSame DEF SettingsInv
    <2>4. Progress'
        BY <1>2, <1>6, <1>7, <2>2, StoreSame DEF Progress, Past
    <2> QED
        BY <1>2, <1>4, <1>5, <2>1, <2>3, <2>4, NextPoint
<1> QED
    BY <1>8, <1>9

\* OnStarted rebuilds the policy from the store, or keeps the bundle's.
LEMMA OnStartedStep ==
    ASSUME ServedInv, OnStarted
    PROVE  DataInv'
<1>1. StackOK /\ KeysInv /\ BypassNeverPeer /\ ThreadOK /\ SettingsInv /\ Progress
    BY DEF ServedInv, DataInv
<1>2. /\ ctl.pc = "started" /\ rt.up = TRUE /\ ctl.mode # "sync" /\ Configured
      /\ UNCHANGED storeVars /\ behind' = behind /\ Applied
      /\ \/ rt' = [rt EXCEPT !.policy = Policy(groups)]
         \/ rt' = rt
      /\ \/ poller' = IF poller = Off THEN settings.interval ELSE poller
         \/ poller' = poller
    BY DEF OnStarted, ServedInv, LifecycleInv, Phase, NoStackUnconfigured
<1>3. /\ DOMAIN rt' = DOMAIN Down /\ (rt'.policy = Policy(groups) \/ rt'.policy = rt.policy)
      /\ rt'.up = rt.up /\ rt'.fwd = rt.fwd /\ rt'.keys = rt.keys
      /\ rt'.routes = rt.routes /\ rt'.local = rt.local /\ rt'.vips = rt.vips
      /\ rt'.dns = rt.dns /\ rt'.upstream = rt.upstream /\ rt'.mtu = rt.mtu
      /\ rt'.listen = rt.listen /\ rt'.reserved = rt.reserved
      /\ rt'.mapRules = rt.mapRules /\ rt'.mapPeers = rt.mapPeers
    BY <1>1, <1>2 DEF StackOK, Down
<1>4. StackOK'
    BY <1>1, <1>2, <1>3 DEF StackOK
<1>5. KeysInv' /\ BypassNeverPeer'
    BY <1>1, <1>2, <1>3, KeysSame, StoreSame DEF BypassNeverPeer
<1>6. PolicyHeld'
    BY <1>1, <1>2, <1>3, StoreSame DEF PolicyHeld, Progress, Past
<1>7. DeviceHeld' /\ PortsHeld' /\ MapsHeld' /\ rt'.dns = Catalog /\ rt'.vips = VIPs
    BY <1>1, <1>2, <1>3, HeldSame DEF Progress, Past
<1>8. rt'.mtu = settings.mtu /\ rt'.upstream = settings.upstream
    <2>1. ctl.mode = "start"
        BY <1>1, <1>2 DEF ThreadOK, Threads
    <2> QED
        BY <1>1, <1>2, <1>3, <2>1 DEF SettingsInv
<1>9. behind' \in BOOLEAN
    BY <1>1, <1>2 DEF ThreadOK
<1>10. poller' \in Intervals \cup {Off}
    <2>1. settings \in Settings
        BY <1>2 DEF ServedInv, TypeOK, Configured
    <2> QED
        BY <1>1, <1>2, <2>1 DEF ThreadOK, Settings
<1> QED
    BY <1>2, <1>4, <1>5, <1>6, <1>7, <1>8, <1>9, <1>10, AppliedStep

\* The resolvers are set last, whether or not the stack was restarted.
LEMMA SettingsTailStep ==
    ASSUME ServedInv, SettingsTail
    PROVE  DataInv'
<1>1. StackOK /\ KeysInv /\ BypassNeverPeer /\ ThreadOK /\ SettingsInv /\ Progress
    BY DEF ServedInv, DataInv
<1>2. /\ ctl.pc = "tail" /\ Configured
      /\ UNCHANGED storeVars /\ UNCHANGED <<live, behind>> /\ poller' = settings.interval
    BY DEF SettingsTail, ServedInv, LifecycleInv, NoStackUnconfigured
<1>3. /\ DOMAIN rt' = DOMAIN Down /\ (rt.up => rt'.upstream = settings.upstream)
      /\ rt'.up = rt.up /\ rt'.fwd = rt.fwd /\ rt'.keys = rt.keys
      /\ rt'.routes = rt.routes /\ rt'.local = rt.local /\ rt'.vips = rt.vips
      /\ rt'.policy = rt.policy /\ rt'.dns = rt.dns /\ rt'.mtu = rt.mtu
      /\ rt'.listen = rt.listen /\ rt'.reserved = rt.reserved
      /\ rt'.mapRules = rt.mapRules /\ rt'.mapPeers = rt.mapPeers
    BY <1>1 DEF SettingsTail, StackOK, Down
<1>4. ~rt.up => rt' = Down
    <2>1. ASSUME ~rt.up PROVE rt' = [rt EXCEPT !.upstream = rt.upstream]
        BY <2>1 DEF SettingsTail
    <2> QED
        BY <1>1, <2>1 DEF StackOK, Down
<1>5. StackOK'
    BY <1>1, <1>3, <1>4 DEF StackOK
<1>6. KeysInv' /\ BypassNeverPeer'
    BY <1>1, <1>2, <1>3, KeysSame, StoreSame DEF BypassNeverPeer
<1>7. ctl' \in Threads /\ ctl'.pc = "idle" /\ result' = "ok"
    BY FinishStep DEF SettingsTail
<1>8. ThreadOK'
    <2>1. settings \in Settings
        BY <1>2 DEF ServedInv, TypeOK, Configured
    <2>2. poller' \in Intervals
        BY <1>2, <2>1 DEF Settings
    <2> QED
        BY <1>1, <1>2, <1>7, <2>2 DEF ThreadOK
<1>9. BundleInv' /\ Progress'
    BY <1>7 DEF BundleInv, Progress, Past
<1>10. SettingsInv'
    BY <1>1, <1>2, <1>3, <1>7, StoreSame DEF SettingsInv
<1>11. Between'
    <2>1. Catalog.groups = PeerGroups(peers)
        BY DEF Catalog, BuildDNSCatalog
    <2> QED
        BY <1>1, <1>2, <1>3, <1>7, <2>1, StoreSame, HeldSame DEF Progress, Past, Between, MapsHeld
<1> QED
    BY <1>5, <1>6, <1>8, <1>9, <1>10, <1>11 DEF DataInv

-----------------------------------------------------------------------------
\* A new process holds nothing.
LEMMA ServedInit == CPInit => ServedInv
<1> SUFFICES ASSUME CPInit PROVE ServedInv
    OBVIOUS
<1>1. /\ Init /\ rt = Down /\ poller = Off /\ result = "none" /\ behind = FALSE
      /\ ctl = [pc |-> "idle", op |-> "none", mode |-> "none", groups |-> {}]
    BY DEF CPInit, Idle
<1>2. TypeOK /\ AddressesDisjoint /\ LifecycleInv
    BY <1>1, InitType, LifecycleInit DEF Init, AddressesDisjoint, Disjoint
<1>3. StackOK /\ BypassNeverPeer
    BY <1>1 DEF StackOK, Down, BypassNeverPeer
<1>4. ctl \in Threads
    BY <1>1, ZenonT(30) DEF Threads, Points
<1>5. ThreadOK
    BY <1>1, <1>4 DEF ThreadOK
<1>6. KeysInv
    BY <1>1 DEF KeysInv, Init, Down
<1>7. BundleInv /\ SettingsInv /\ Progress /\ Between
    BY <1>1, DownFacts DEF BundleInv, SettingsInv, Progress, Past, Between
<1> QED
    BY <1>2, <1>3, <1>5, <1>6, <1>7 DEF ServedInv, DataInv

\* Every step of the control plane keeps the account of what the data plane holds.
LEMMA ServedNext == ServedInv /\ [CPNext]_vars => ServedInv'
<1> SUFFICES ASSUME ServedInv, [CPNext]_vars PROVE ServedInv'
    OBVIOUS
<1>1. [Next]_storeVars
    BY StoreStep
<1>2. TypeOK' /\ AddressesDisjoint' /\ LifecycleInv'
    BY <1>1, NextType, AddressesDisjointNext, LifecycleNext DEF ServedInv
<1>3. CASE PeerCalls \/ GroupCalls \/ MapCalls \/ ForwardCalls \/ DeleteAbsent
    <2>1. settings' = settings
        BY <1>3, CallShape
    <2>2. \/ Commit("mutate", "sync")
          \/ \E p \in peers, n \in Names, g \in GroupIds :
                    RenamePeer(p, n, g, FALSE) /\ Return("error", TRUE)
          \/ \E p \in peers : DeletePeer(p, FALSE) /\ Return("error", FALSE)
          \/ \E g \in groups, n \in GroupNames : RenameGroup(g, n) /\ Return("ok", FALSE)
        BY <1>3 DEF PeerCalls, GroupCalls, MapCalls, ForwardCalls, DeleteAbsent
    <2> QED
        BY <1>1, <1>2, <2>1, <2>2, CommittedCalls, ReturnedCalls DEF ServedInv
<1>4. CASE SetupCall \/ SettingsCall
    BY <1>1, <1>2, <1>4, SettingsCalls DEF ServedInv
<1>5. CASE Reset \/ Crash
    BY <1>1, <1>2, <1>5, ResetAndCrash DEF ServedInv
<1>6. CASE Layout
    BY <1>1, <1>2, <1>6, LayoutStep DEF ServedInv
<1>7. CASE Reconcile
    <2>1. DataInv'
        BY <1>7, LoadBundleStep, StoppingSteps, StartDeviceStep, SyncDNSStep, SyncAllStep,
            StartServicesStep, ApplyForwardsStep, ApplyMapVIPsStep, ApplyMapsStep,
            ApplyPolicyStep, OnStartedStep, SettingsTailStep DEF Reconcile
    <2> QED
        BY <1>2, <2>1 DEF ServedInv
<1>8. CASE UNCHANGED vars
    <2>1. UNCHANGED storeVars /\ UNCHANGED <<rt, live, poller, ctl, result, behind>>
        BY <1>8 DEF vars, rtVars
    <2>2. behind' \in BOOLEAN /\ result' \in {"none", "ok", "error", "stopped", "mutation"}
        BY <2>1 DEF ServedInv, DataInv, ThreadOK
    <2>3. DataInv'
        BY <1>1, <2>1, <2>2, StoreSame, UnappliedStep
    <2> QED
        BY <1>2, <2>3 DEF ServedInv
<1> QED
    BY <1>3, <1>4, <1>5, <1>6, <1>7, <1>8 DEF CPNext, Calls

-----------------------------------------------------------------------------
\* Every variable of the control plane keeps its type, over every history of calls,
\* failures, restarts and crashes (service/*.go, vpn/runtime/stack.go).
THEOREM ControlPlaneTypes == CPSpec => []CPTypeOK
<1>1. ServedInv => CPTypeOK
    <2> SUFFICES ASSUME ServedInv PROVE CPTypeOK
        OBVIOUS
    <2>1. TypeOK /\ StackOK /\ ThreadOK /\ live \in BOOLEAN
        BY DEF ServedInv, DataInv, LifecycleInv, Shape
    <2> QED
        BY <2>1, ZenonT(60) DEF CPTypeOK, StackOK, ThreadOK, Threads, Points
<1> QED
    BY <1>1, ServedInit, ServedNext, PTL DEF CPSpec

\* A peer's address is never in the TUN's bypass set, not even in the middle of a call
\* (vpn/tun/tun.go:116, repo/ip_alloc.go).
THEOREM PeersNeverBypass == CPSpec => []BypassNeverPeer
<1>1. ServedInv => BypassNeverPeer
    BY DEF ServedInv, DataInv
<1> QED
    BY <1>1, ServedInit, ServedNext, PTL DEF CPSpec

\* Whatever was imported, no two listeners are on one port, and a hub whose stored
\* forwards share one does not run (vpn/ingress/forward.go:74-101, service/setup.go:142).
THEOREM ClashesNeverServed == CPSpec => []ClashNeverServed
<1>1. ServedInv => ClashNeverServed
    BY DEF ServedInv, DataInv, StackOK, Between, PortsHeld, ClashNeverServed
<1> QED
    BY <1>1, ServedInit, ServedNext, PTL DEF CPSpec

\* What passes directly between two peers' groups may also be opened.
LEMMA DirectAllowed ==
    ASSUME NEW p, NEW q, allowDirectPeerIP(p, q, links, groups)
    PROVE  LinkAllowsInit(p.group, q.group, links, groups)
<1>1. CASE p.group = q.group
    BY <1>1 DEF allowDirectPeerIP, LinkAllowsInit
<1>2. CASE p.group # q.group
    <2> DEFINE found == findLinkBetween(p.group, q.group, links)
               l == CHOOSE k \in found : TRUE
    <2>1. found # {} /\ l.bidi
        BY <1>2 DEF allowDirectPeerIP
    <2>2. l \in found
        BY <2>1
    <2>3. l \in links /\ LinkBetween(l, p.group, q.group)
        BY <2>2 DEF findLinkBetween
    <2> HIDE DEF l
    <2> QED
        BY <1>2, <2>1, <2>3 DEF LinkAllowsInit
<1> QED
    BY <1>1, <1>2

\* Between calls the hub relays a first packet from one stored peer to another only
\* where the group graph allows it (vpn/tun/tun.go, vpn/policy).
THEOREM GroupsStayIsolated == CPSpec => []GroupIsolation
<1>1. ServedInv => GroupIsolation
    <2> SUFFICES ASSUME ServedInv, Settled, NEW p \in peers, NEW q \in peers, p # q, Relays(p, q)
                 PROVE  LinkAllowsInit(p.group, q.group, links, groups)
        BY DEF GroupIsolation
    <2>1. /\ AddressesDisjoint /\ KeysInv /\ BypassNeverPeer /\ DeviceHeld
          /\ rt.policy = Policy(groups)
        BY DEF ServedInv, DataInv, Settled, Between, PolicyHeld
    <2>2. ASSUME NEW a \in peers, [ip |-> a.ip, peer |-> a.id] \in rt.routes PROVE a \in Enabled(peers)
        <3>1. [ip |-> a.ip, peer |-> a.id] \in Routes
            <4> DEFINE r == [ip |-> a.ip, peer |-> a.id]
            <4>1. r \in rt.routes /\ r.peer \in IdsOf(peers)
                BY <2>2 DEF IdsOf
            <4> HIDE DEF r
            <4>2. r \in Routes
                BY <2>1, <4>1 DEF DeviceHeld
            <4> QED
                BY <4>2 DEF r
        <3>2. PICK b \in Enabled(peers) : b.ip = a.ip
            BY <3>1 DEF Routes
        <3> QED
            BY <2>1, <3>2 DEF AddressesDisjoint, Disjoint, Enabled
    <2>3. p \in Enabled(peers) /\ q \in Enabled(peers) /\ p.id # q.id
        BY <2>1, <2>2 DEF Relays, KeysInv
    <2>4. <<p.ip, q.ip>> \notin Blocked(peers, links, groups, maps)
        <3>1. {p.ip, q.ip} \cap rt.vips = {}
            BY <2>1 DEF BypassNeverPeer
        <3> QED
            BY <2>1, <3>1 DEF Relays, Policy, AccessPolicySpec
    <2>5. ~PeerBlocked(p, q, links, groups)
        <3> SUFFICES ASSUME PeerBlocked(p, q, links, groups) PROVE FALSE
            OBVIOUS
        <3> DEFINE pairs == {d \in Enabled(peers) \X Enabled(peers) :
                                d[1].id # d[2].id /\ PeerBlocked(d[1], d[2], links, groups)}
        <3>1. <<p, q>> \in pairs
            BY <2>3
        <3>2. <<<<p, q>>[1].ip, <<p, q>>[2].ip>> \in {<<e[1].ip, e[2].ip>> : e \in pairs}
            BY <3>1
        <3> QED
            BY <2>4, <3>2 DEF Blocked
    <2> QED
        BY <2>5, DirectAllowed DEF PeerBlocked, needsTransparentRelay
<1> QED
    BY <1>1, ServedInit, ServedNext, PTL DEF CPSpec

\* Between calls DNS answers a map name with its VIP exactly to the clients the map
\* proxy lets in (vpn/dns/lookup.go:38-46, vpn/ingress/servicemap.go:99-110).
THEOREM DnsAgreesWithMapProxy == CPSpec => []DnsMatchesMapProxy
<1>1. ServedInv => DnsMatchesMapProxy
    <2> SUFFICES ASSUME ServedInv, ctl.pc = "idle", rt.up, NEW m \in rt.dns.maps, NEW p \in peers
                 PROVE  (m.vip \in LookupIP(rt.dns, m.slug, p.ip)) <=>
                            \E rule \in rt.mapRules, e \in rt.mapPeers :
                                rule.vip = m.vip /\ e.ip = p.ip
                                    /\ GroupInAllowedSet(rule.allowed, e.group)
        BY DEF DnsMatchesMapProxy
    <2>1. /\ rt.mapRules = MapRules /\ rt.dns.groups = rt.mapPeers
          /\ rt.dns.maps = {[slug |-> k.slug, vip |-> k.vip, allowed |-> k.allowed] : k \in maps}
          /\ \A k, n \in maps : k.vip = n.vip => k = n
        BY DEF ServedInv, DataInv, Between, AddressesDisjoint, Disjoint, Catalog, BuildDNSCatalog
    <2>2. \A e \in rt.dns.maps : e.vip = m.vip => e.allowed = m.allowed
        BY <2>1
    <2>3. \A rule \in rt.mapRules : rule.vip = m.vip => rule.allowed = m.allowed
        BY <2>1 DEF MapRules
    <2>4. \E rule \in rt.mapRules : rule.vip = m.vip
        <3>1. PICK k \in maps : m = [slug |-> k.slug, vip |-> k.vip, allowed |-> k.allowed]
            BY <2>1
        <3>2. [vip |-> k.vip, allowed |-> k.allowed] \in rt.mapRules
            BY <2>1 DEF MapRules
        <3>3. [vip |-> k.vip, allowed |-> k.allowed].vip = m.vip
            BY <3>1
        <3> QED
            BY <3>2, <3>3
    <2>5. (m.vip \in LookupIP(rt.dns, m.slug, p.ip)) <=>
            \E h \in rt.mapPeers : h.ip = p.ip /\ h.group \in m.allowed
        <3> DEFINE entries == {e \in rt.dns.maps : e.slug = m.slug}
                   mine == {g.group : g \in {h \in rt.dns.groups : h.ip = p.ip}}
                   shown == {e \in entries : \E g \in mine : g \in e.allowed}
        <3>1. m \in entries
            OBVIOUS
        <3>2. LookupIP(rt.dns, m.slug, p.ip) = {e.vip : e \in shown}
            BY <3>1 DEF LookupIP, GroupInAllowedSet
        <3>3. m.vip \in {e.vip : e \in shown} <=> m \in shown
            BY <2>2, <3>1
        <3>4. m \in shown <=> \E h \in rt.mapPeers : h.ip = p.ip /\ h.group \in m.allowed
            BY <2>1, <3>1
        <3> QED
            BY <3>2, <3>3, <3>4
    <2> QED
        BY <2>3, <2>4, <2>5 DEF GroupInAllowedSet
<1> QED
    BY <1>1, ServedInit, ServedNext, PTL DEF CPSpec

-----------------------------------------------------------------------------
(* The control plane implements HubPromise.                                *)

\* Between calls, unless a write is noted as unapplied, the running data plane enforces
\* all of what the store asks for.
LEMMA SettledEnforces == ServedInv /\ Settled => Enforced = Target
<1> SUFFICES ASSUME ServedInv, Settled PROVE Enforced = Target
    OBVIOUS
<1>1. /\ PortsHeld /\ rt.vips = VIPs /\ rt.dns = Catalog /\ DeviceHeld /\ MapsHeld /\ PolicyHeld
      /\ ~behind
    BY DEF ServedInv, DataInv, Settled, Between
<1>2. rt.mtu = settings.mtu /\ rt.upstream = settings.upstream
    BY DEF ServedInv, DataInv, Settled, SettingsInv
<1>3. Configured
    BY DEF ServedInv, Settled, LifecycleInv, NoStackUnconfigured
<1> QED
    BY <1>1, <1>2, <1>3 DEF Enforced, Target, PortsHeld, DeviceHeld, MapsHeld, PolicyHeld

\* What the store asks for depends on its tables only.
LEMMA TargetSame ==
    ASSUME UNCHANGED <<settings, peers, maps, forwards>>, Policy(groups)' = Policy(groups)
    PROVE  Target' = Target
BY DEF Target, Catalog, VIPs, MapRules, Listen, Routes, Configured

\* What is enforced depends on the runtime and on the ids of the stored peers.
LEMMA EnforcedSame ==
    ASSUME rt' = rt, IdsOf(peers)' = IdsOf(peers)
    PROVE  Enforced' = Enforced
BY DEF Enforced

\* A call that commits begins to apply the store.
LEMMA PromiseCommit ==
    ASSUME NEW op, NEW mode, Commit(op, mode)
    PROVE  Promise!Next
<1>1. ctl.pc = "idle" /\ ctl'.pc = "load" /\ result' = result /\ behind' = behind
    BY DEF Commit, Idle
<1> QED
    BY <1>1 DEF Promise!Next, Promise!Begin

\* A request that applies nothing leaves what is enforced alone, and a change of what
\* the store asks for is noted.
LEMMA PromiseReturn ==
    ASSUME ServedInv,
           \/ \E p \in peers, n \in Names, g \in GroupIds :
                    RenamePeer(p, n, g, FALSE) /\ Return("error", TRUE)
           \/ \E p \in peers : DeletePeer(p, FALSE) /\ Return("error", FALSE)
           \/ \E g \in groups, n \in GroupNames : RenameGroup(g, n) /\ Return("ok", FALSE)
    PROVE  Promise!Next
<1>1. /\ ctl.pc = "idle" /\ ctl' = ctl /\ rt' = rt /\ (behind => behind')
      /\ result' \in {"ok", "error"}
    BY DEF Return, rtVars
<1>2. IdsOf(peers)' = IdsOf(peers) /\ (behind' \/ Target' = Target)
    <2>1. ASSUME NEW p \in peers, NEW n \in Names, NEW g \in GroupIds, RenamePeer(p, n, g, FALSE),
                 Return("error", TRUE)
          PROVE  IdsOf(peers)' = IdsOf(peers) /\ behind'
        <3> DEFINE q == [p EXCEPT !.name = n, !.group = g]
        <3>1. q.id = p.id
            BY DEF ServedInv, TypeOK, PeerRow
        <3>2. peers' = (peers \ {p}) \cup {q} /\ behind'
            BY <2>1 DEF RenamePeer, Return
        <3> HIDE DEF q
        <3> QED
            BY <3>1, <3>2 DEF IdsOf
    <2>2. ASSUME NEW p \in peers, DeletePeer(p, FALSE)
          PROVE  IdsOf(peers)' = IdsOf(peers) /\ Target' = Target
        <3>1. UNCHANGED <<settings, groups, links, peers, maps, forwards>>
            BY <2>2 DEF DeletePeer
        <3>2. Policy(groups)' = Policy(groups)
            BY <3>1 DEF Policy
        <3> QED
            BY <3>1, <3>2, TargetSame
    <2>3. ASSUME NEW g \in groups, NEW n \in GroupNames, RenameGroup(g, n)
          PROVE  IdsOf(peers)' = IdsOf(peers) /\ Target' = Target
        <3>1. UNCHANGED <<settings, peers, maps, forwards>>
            BY <2>3 DEF RenameGroup
        <3>2. Policy(groups)' = Policy(groups)
            BY <2>3, RenamePolicy DEF ServedInv
        <3> QED
            BY <3>1, <3>2, TargetSame
    <2> QED
        BY <2>1, <2>2, <2>3
<1>3. Enforced' = Enforced
    BY <1>1, <1>2, EnforcedSame
<1> QED
    BY <1>1, <1>2, <1>3 DEF Promise!Next, Promise!Return, Promise!NotedWrite

\* A layout save is such a request between calls, and noted during one.
LEMMA PromiseLayout ==
    ASSUME ServedInv, Layout
    PROVE  Promise!Next
<1>1. /\ ctl' = ctl /\ rt' = rt /\ result' = result
      /\ UNCHANGED <<settings, links, peers, maps, forwards>>
    BY DEF Layout, LayoutRead, LayoutSave, rtVars, tables
<1>2. (behind => behind') /\ (behind' \/ groups' = groups)
    <2>1. CASE \E c \in LayoutClients, g \in groups : LayoutRead(c, g) /\ behind' = behind
        BY <2>1 DEF LayoutRead, tables
    <2>2. CASE \E c \in LayoutClients : LayoutSave(c) /\ behind' = (behind \/ groups' # groups)
        BY <2>2, Zenon
    <2> QED
        BY <2>1, <2>2 DEF Layout
<1>3. behind' \/ Target' = Target
    BY <1>1, <1>2, TargetSame DEF Policy
<1>4. Enforced' = Enforced
    BY <1>1, EnforcedSame
<1>5. CASE ctl.pc = "idle"
    BY <1>1, <1>2, <1>3, <1>4, <1>5 DEF Promise!Next, Promise!Return, Promise!NotedWrite
<1>6. CASE ctl.pc # "idle"
    BY <1>1, <1>3, <1>6 DEF Promise!Next, Promise!Apply, Promise!NotedWrite
<1> QED
    BY <1>5, <1>6

\* A reset and the end of the process leave nothing running.
LEMMA PromiseStop ==
    ASSUME Reset \/ Crash
    PROVE  Promise!Next
<1>1. rt'.up = FALSE /\ result' \in {"ok", "error", "none"}
    BY DownFacts DEF Reset, StackStop, Crash
<1>2. CASE Reset
    <2>1. ctl.pc = "idle" /\ ctl'.pc = "idle"
        BY <1>2 DEF Reset
    <2> QED
        BY <1>1, <2>1 DEF Promise!Next, Promise!Reset
<1>3. CASE Crash
    <2>1. Target' = Target
        BY <1>3, TargetSame DEF Crash, LayoutsLost, tables, Policy
    <2> QED
        BY <1>1, <2>1 DEF Promise!Next, Promise!Crash
<1> QED
    BY <1>2, <1>3

\* A step of a call applies the store; the last one leaves all of it enforced, or nothing.
LEMMA PromiseReconcile ==
    ASSUME ServedInv, Reconcile, (Settled => Enforced = Target)', FailureMeansStopped'
    PROVE  Promise!Next
<1>1. UNCHANGED storeVars
    BY DEF Reconcile, LoadBundle, LoadFails, StopForRestart, StartDevice, SyncDNS, SyncAll,
        StartServices, ApplyForwards, ApplyMapVIPs, ApplyMaps, ApplyPolicy, OnStarted,
        StartFailed, SettingsTail
<1>2. Target' = Target
    BY <1>1, StoreSame, TargetSame
<1>3. ctl.pc # "idle"
    BY DEF Reconcile, LoadBundle, LoadFails, StopForRestart, StartDevice, SyncDNS, SyncAll,
        StartServices, ApplyForwards, ApplyMapVIPs, ApplyMaps, ApplyPolicy, OnStarted,
        StartFailed, SettingsTail
<1>4. CASE ctl'.pc # "idle"
    <2>1. result' = result
        BY <1>4, IdleFacts DEF Reconcile, LoadBundle, LoadFails, StopForRestart, StartDevice, SyncDNS,
            SyncAll, StartServices, ApplyForwards, ApplyMapVIPs, ApplyMaps, ApplyPolicy,
            OnStarted, StartFailed, SettingsTail, Applied, Finish
    <2> QED
        BY <1>2, <1>3, <1>4, <2>1 DEF Promise!Next, Promise!Apply, Promise!NotedWrite
<1>5. CASE ctl'.pc = "idle"
    <2>1. rt'.up /\ ~behind' => Enforced' = Target
        BY <1>2, <1>5 DEF Settled
    <2>2. result' \in {"stopped", "mutation"} => ~rt'.up
        BY <1>5 DEF FailureMeansStopped
    <2> QED
        BY <1>2, <1>3, <1>5, <2>1, <2>2 DEF Promise!Next, Promise!Finish
<1> QED
    BY <1>4, <1>5

\* Every step of the control plane is a step of HubPromise, or none.
LEMMA PromiseStep ==
    ASSUME ServedInv, [CPNext]_vars, (Settled => Enforced = Target)', FailureMeansStopped'
    PROVE  [Promise!Next]_(Promise!promiseVars)
<1>1. CASE PeerCalls \/ GroupCalls \/ MapCalls \/ ForwardCalls \/ DeleteAbsent
    <2>1. \/ Commit("mutate", "sync")
          \/ \E p \in peers, n \in Names, g \in GroupIds :
                    RenamePeer(p, n, g, FALSE) /\ Return("error", TRUE)
          \/ \E p \in peers : DeletePeer(p, FALSE) /\ Return("error", FALSE)
          \/ \E g \in groups, n \in GroupNames : RenameGroup(g, n) /\ Return("ok", FALSE)
        BY <1>1 DEF PeerCalls, GroupCalls, MapCalls, ForwardCalls, DeleteAbsent
    <2> QED
        BY <2>1, PromiseCommit, PromiseReturn
<1>2. CASE SetupCall \/ SettingsCall
    BY <1>2, PromiseCommit DEF SetupCall, SettingsCall
<1>3. CASE Reset \/ Crash
    BY <1>3, PromiseStop
<1>4. CASE Layout
    BY <1>4, PromiseLayout
<1>5. CASE Reconcile
    BY <1>5, PromiseReconcile
<1>6. CASE UNCHANGED vars
    <2>1. UNCHANGED <<rt, ctl, result, behind, settings, groups, links, peers, maps, forwards>>
        BY <1>6 DEF vars, rtVars, storeVars, tables
    <2>2. Target' = Target
        BY <2>1, TargetSame DEF Policy
    <2>3. Enforced' = Enforced
        BY <2>1, EnforcedSame
    <2> QED
        BY <2>1, <2>2, <2>3 DEF Promise!promiseVars
<1> QED
    BY <1>1, <1>2, <1>3, <1>4, <1>5, <1>6 DEF CPNext, Calls

\* The control plane implements HubPromise: its steps, failures, retries and crashes
\* look from outside like calls that apply the store entirely or stop the hub
\* (service/mutation.go reconcileRuntime, vpn/runtime/stack.go).
THEOREM ControlPlaneKeepsPromise == CPSpec => KeepsPromise
<1>1. CPInit => Promise!Init
    BY DownFacts, IdleFacts DEF CPInit, Promise!Init
<1>2. CPInit => FailureMeansStopped
    BY DEF CPInit, FailureMeansStopped
<1>3. FailureMeansStopped /\ ServedInv /\ [CPNext]_vars => FailureMeansStopped'
    BY FailureNext DEF ServedInv
<1>4. /\ ServedInv /\ [CPNext]_vars /\ (Settled => Enforced = Target)' /\ FailureMeansStopped'
      => [Promise!Next]_(Promise!promiseVars)
    BY PromiseStep
<1>5. ServedInv => (Settled => Enforced = Target)
    BY SettledEnforces
<1> QED
    BY <1>1, <1>2, <1>3, <1>4, <1>5, ServedInit, ServedNext, PTL DEF CPSpec, KeepsPromise, Promise!Spec
=============================================================================
