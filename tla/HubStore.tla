------------------------------ MODULE HubStore ------------------------------
(***************************************************************************)
(* The SQLite store (internal/repo) as the control plane drives it         *)
(* (internal/service): tables are sets of rows, and one action is what one *)
(* service call commits.  controlMu serialises these calls, so each is     *)
(* atomic here; a call made of several statements outside a transaction    *)
(* also has the outcome in which a later statement fails.  Calls that the  *)
(* code rejects change nothing and have no action.                         *)
(*                                                                         *)
(* UpdateGroupLayout alone runs outside controlMu: it reads a group row    *)
(* and later writes the whole row back, two steps of a layout client.      *)
(***************************************************************************)
EXTENDS Integers, FiniteSets

CONSTANTS
    MaxGroups, MaxPeers, MaxMaps, MaxForwards,  \* bounds on the ids ever issued
    Names,          \* DNS labels, for peers and map slugs alike
    GroupNames,     \* group names, DefaultGroup among them
    DefaultGroup,
    Ports,          \* listen ports a forward may ask for
    SubnetSize,     \* addresses of the VPN subnet, as offsets 0 .. SubnetSize-1
    MTUs, Intervals, Upstreams,
    NoSettings,     \* the settings table is empty: the hub is unconfigured
    LayoutClients,  \* concurrent UpdateGroupLayout requests
    NoRow,          \* a layout client that holds no row
    Uploads,        \* databases that may be imported, see UploadAssumption
    StoreFaults     \* whether one statement of several may fail

ASSUME StoreAssumption ==
    /\ MaxGroups \in Nat /\ MaxPeers \in Nat
    /\ MaxMaps \in Nat /\ MaxForwards \in Nat
    /\ SubnetSize \in Nat
    /\ StoreFaults \in BOOLEAN
    /\ DefaultGroup \in GroupNames
    /\ NoSettings \notin [mtu : MTUs, interval : Intervals, upstream : Upstreams]
    /\ NoRow \notin [id : Nat, name : GroupNames, intra : BOOLEAN]

VARIABLES
    settings,   \* the settings row (and, with it, the admin row) or NoSettings
    groups,     \* peer_groups:    [id, name, intra]
    links,      \* group_links:    [from, to, bidi]
    peers,      \* peers:          [id, name, ip, group, enabled]; the id also
                \*                 stands for the key pair made at creation
    dns,        \* dns_records:    [host, ip, peer]
    maps,       \* service_relays: [id, slug, vip, allowed]
    forwards,   \* port_forwards:  [id, port, proto]
    seq,        \* the last id issued per table (AUTOINCREMENT)
    layout      \* layout[c]: the group row client c has read and not yet saved

tables == <<settings, groups, links, peers, dns, maps, forwards, seq>>
storeVars == <<tables, layout>>

Settings  == [mtu : MTUs, interval : Intervals, upstream : Upstreams]
Hub       == 1                      \* FirstHostIP: the hub and its DNS server
Hosts     == 2 .. SubnetSize - 1    \* includes the subnet's last address
GroupIds  == 1 .. MaxGroups
Protocols == {"tcp", "udp"}
GroupRow  == [id : GroupIds, name : GroupNames, intra : BOOLEAN]
LinkRow   == [from : GroupIds, to : GroupIds, bidi : BOOLEAN]
PeerRow   == [id : 1 .. MaxPeers, name : Names, ip : Hosts, group : GroupIds, enabled : BOOLEAN]
DnsRow    == [host : Names, ip : Hosts, peer : 0 .. MaxPeers]     \* 0: no peer's, set by hand
MapRow    == [id : 1 .. MaxMaps, slug : Names, vip : Hosts, allowed : SUBSET GroupIds]
FwdRow    == [id : 1 .. MaxForwards, port : Ports, proto : Protocols]

TypeOK ==
    /\ settings \in Settings \cup {NoSettings}
    /\ groups \subseteq GroupRow
    /\ links \subseteq LinkRow
    /\ peers \subseteq PeerRow
    /\ dns \subseteq DnsRow
    /\ maps \subseteq MapRow
    /\ forwards \subseteq FwdRow
    /\ seq \in [group : 0 .. MaxGroups, peer : 0 .. MaxPeers,
                map : 0 .. MaxMaps, fwd : 0 .. MaxForwards]
    /\ layout \in [LayoutClients -> GroupRow \cup {NoRow}]

(* Soundness of the tables, for the store and for an uploaded database alike. *)

Unique(table, column) == \A a, b \in table : a[column] = b[column] => a = b

Disjoint(ps, ms) ==
    /\ \A p, q \in ps : p.ip = q.ip => p = q
    /\ \A m, k \in ms : m.vip = k.vip => m = k
    /\ \A p \in ps, m \in ms : p.ip # m.vip
    /\ \A p \in ps : p.ip # Hub
    /\ \A m \in ms : m.vip # Hub

IdsOf(table) == {row.id : row \in table}

Referenced(gs, ls, ps, ms) ==
    /\ \A p \in ps : p.group \in IdsOf(gs)
    /\ \A l \in ls : {l.from, l.to} \subseteq IdsOf(gs)
    /\ \A m \in ms : m.allowed \subseteq IdsOf(gs)

Owned(ds, ps) == \A r \in ds : r.peer # 0 => \E p \in ps : p.id = r.peer /\ p.ip = r.ip

Normal(ls) ==
    /\ \A l, k \in ls : {l.from, l.to} = {k.from, k.to} => l = k
    /\ \A l \in ls : l.from # l.to /\ (l.bidi => l.from < l.to)

Database == [settings : Settings, groups : SUBSET GroupRow, links : SUBSET LinkRow,
             peers : SUBSET PeerRow, dns : SUBSET DnsRow, maps : SUBSET MapRow,
             forwards : SUBSET FwdRow,
             seq : [group : 0 .. MaxGroups, peer : 0 .. MaxPeers,
                    map : 0 .. MaxMaps, fwd : 0 .. MaxForwards]]

\* An upload is a configured database that this version or an earlier one has written,
\* migrated.  The unique indexes hold; the one on forwards is per port and protocol, and
\* earlier versions stored a tcp and a udp forward on one port.  They also had DNS
\* records that were set by hand and are no peer's, which this version has no call for.
ASSUME UploadAssumption ==
    \A u \in Uploads :
        /\ u \in Database
        /\ Disjoint(u.peers, u.maps) /\ Referenced(u.groups, u.links, u.peers, u.maps)
        /\ Owned(u.dns, u.peers) /\ Normal(u.links)
        /\ Unique(u.groups, "id") /\ Unique(u.groups, "name")
        /\ Unique(u.peers, "id") /\ Unique(u.peers, "name") /\ Unique(u.dns, "host")
        /\ Unique(u.maps, "id") /\ Unique(u.maps, "slug") /\ Unique(u.forwards, "id")
        /\ \A f, h \in u.forwards : f.port = h.port /\ f.proto = h.proto => f = h
        /\ \A g \in u.groups : g.id <= u.seq.group
        /\ \A p \in u.peers : p.id <= u.seq.peer
        /\ \A m \in u.maps : m.id <= u.seq.map
        /\ \A f \in u.forwards : f.id <= u.seq.fwd

Init ==
    /\ settings = NoSettings
    /\ groups = {} /\ links = {} /\ peers = {} /\ dns = {} /\ maps = {} /\ forwards = {}
    /\ seq = [group |-> 0, peer |-> 0, map |-> 0, fwd |-> 0]
    /\ layout = [c \in LayoutClients |-> NoRow]

Configured == settings # NoSettings

-----------------------------------------------------------------------------
(* Address allocation: peers and map VIPs share one pool.                  *)

\* Mutant: the VIPs of maps are forgotten.
BugUsedWithoutMaps == {Hub} \cup {p.ip : p \in peers} \cup {r.ip : r \in dns}

collectUsedSubnetIPs ==
    {Hub} \cup {p.ip : p \in peers} \cup {m.vip : m \in maps} \cup {r.ip : r \in dns}

\* nextFreeHostInSubnet: a is the lowest host address that is not in use.
nextFreeHostInSubnet(a) ==
    /\ a \in Hosts \ collectUsedSubnetIPs
    /\ \A b \in Hosts \ collectUsedSubnetIPs : a <= b

-----------------------------------------------------------------------------
(* Setup, settings and reset.                                              *)

\* Mutant: the id of the default group is taken before the insert assigns it.
BugSetupOldId(s) ==
    /\ ~Configured
    /\ seq.group < MaxGroups
    /\ DefaultGroup \notin {g.name : g \in groups}
    /\ settings' = s
    /\ groups' = groups \cup {[id |-> seq.group, name |-> DefaultGroup, intra |-> TRUE]}
    /\ seq' = [seq EXCEPT !.group = @ + 1]
    /\ UNCHANGED <<links, peers, dns, maps, forwards, layout>>

\* The transaction creates the admin, the settings and the group "default",
\* whose name must not be taken.
Setup(s) ==
    /\ ~Configured
    /\ seq.group < MaxGroups
    /\ DefaultGroup \notin {g.name : g \in groups}
    /\ settings' = s
    /\ groups' = groups \cup {[id |-> seq.group + 1, name |-> DefaultGroup, intra |-> TRUE]}
    /\ seq' = [seq EXCEPT !.group = @ + 1]
    /\ UNCHANGED <<links, peers, dns, maps, forwards, layout>>

UpdateMutableSettings(s) ==
    /\ Configured
    /\ settings' = s
    /\ UNCHANGED <<groups, links, peers, dns, maps, forwards, seq, layout>>

\* One transaction empties every table; ids go on from where they were.  The
\* bound on group ids leaves room for the next Setup.
ResetAll ==
    /\ Configured
    /\ seq.group < MaxGroups
    /\ settings' = NoSettings
    /\ groups' = {} /\ links' = {} /\ peers' = {} /\ dns' = {} /\ maps' = {} /\ forwards' = {}
    /\ UNCHANGED <<seq, layout>>

\* An unconfigured hub takes another database for its own: all rows, and the ids issued.
ImportDatabase(u) ==
    /\ ~Configured
    /\ settings' = u.settings
    /\ groups' = u.groups /\ links' = u.links /\ peers' = u.peers /\ dns' = u.dns
    /\ maps' = u.maps /\ forwards' = u.forwards /\ seq' = u.seq
    /\ UNCHANGED layout

-----------------------------------------------------------------------------
(* Peers.                                                                  *)

DnsOf(p) == {r \in dns : r.peer = p.id}

\* createPeer: the peer row and its DNS record are one transaction, and the
\* unique index on hostnames can refuse it.
CreatePeer(n, g) ==
    /\ Configured
    /\ seq.peer < MaxPeers
    /\ g \in IdsOf(groups)
    /\ n \notin {p.name : p \in peers} /\ n \notin {r.host : r \in dns}
    /\ \E a \in Hosts :
        /\ nextFreeHostInSubnet(a)
        /\ peers' = peers \cup {[id |-> seq.peer + 1, name |-> n, ip |-> a,
                                 group |-> g, enabled |-> TRUE]}
        /\ dns' = dns \cup {[host |-> n, ip |-> a, peer |-> seq.peer + 1]}
    /\ seq' = [seq EXCEPT !.peer = @ + 1]
    /\ UNCHANGED <<settings, groups, links, maps, forwards, layout>>

\* ensurePeerDNSRecord ignores a failed delete; its insert may also fail (ok is
\* FALSE), and the unique index makes it fail when the hostname is taken.
ensurePeerDNSRecord(p, n, ok) ==
    \E kept \in {dns \ DnsOf(p)} \cup (IF StoreFaults THEN {dns} ELSE {}) :
        /\ ok => n \notin {r.host : r \in kept}
        /\ dns' = IF ok THEN kept \cup {[host |-> n, ip |-> p.ip, peer |-> p.id]} ELSE kept

\* updatePeerFields with a name in the request: the row is saved first, the DNS
\* record after it and outside the transaction.
RenamePeer(p, n, g, ok) ==
    /\ p \in peers
    /\ ok \/ StoreFaults
    /\ g \in IdsOf(groups)
    /\ n # p.name => n \notin {q.name : q \in peers}
    /\ n # p.name \/ g # p.group
    /\ peers' = (peers \ {p}) \cup {[p EXCEPT !.name = n, !.group = g]}
    /\ ensurePeerDNSRecord(p, n, ok)
    /\ UNCHANGED <<settings, groups, links, maps, forwards, seq, layout>>

\* updatePeerFields with only a group in the request.
MovePeer(p, g) ==
    /\ p \in peers
    /\ g \in IdsOf(groups) \ {p.group}
    /\ peers' = (peers \ {p}) \cup {[p EXCEPT !.group = g]}
    /\ UNCHANGED <<settings, groups, links, dns, maps, forwards, seq, layout>>

\* Mutant: the peer first, its DNS records second.
BugDeletePeerFirst(p, ok) ==
    /\ p \in peers
    /\ ok \/ StoreFaults
    /\ dns' = IF ok THEN dns \ DnsOf(p) ELSE dns
    /\ peers' = peers \ {p}
    /\ UNCHANGED <<settings, groups, links, maps, forwards, seq, layout>>

\* DeletePeer removes the DNS records, then the peer; ok is FALSE when the
\* second statement fails.
DeletePeer(p, ok) ==
    /\ p \in peers
    /\ ok \/ StoreFaults
    /\ dns' = dns \ DnsOf(p)
    /\ peers' = IF ok THEN peers \ {p} ELSE peers
    /\ UNCHANGED <<settings, groups, links, maps, forwards, seq, layout>>

TogglePeer(p) ==
    /\ p \in peers
    /\ peers' = (peers \ {p}) \cup {[p EXCEPT !.enabled = ~@]}
    /\ UNCHANGED <<settings, groups, links, dns, maps, forwards, seq, layout>>

-----------------------------------------------------------------------------
(* Groups and links.                                                       *)

CreateGroup(n) ==
    /\ Configured
    /\ seq.group < MaxGroups
    /\ n \notin {g.name : g \in groups}
    /\ groups' = groups \cup {[id |-> seq.group + 1, name |-> n, intra |-> TRUE]}
    /\ seq' = [seq EXCEPT !.group = @ + 1]
    /\ UNCHANGED <<settings, links, peers, dns, maps, forwards, layout>>

RenameGroup(g, n) ==
    /\ g \in groups
    /\ n \notin {h.name : h \in groups}
    /\ groups' = (groups \ {g}) \cup {[g EXCEPT !.name = n]}
    /\ UNCHANGED <<settings, links, peers, dns, maps, forwards, seq, layout>>

\* UpdateGroup with allow_intra_group in the request.
UpdateGroup(g, intra) ==
    /\ g \in groups
    /\ groups' = (groups \ {g}) \cup {[g EXCEPT !.intra = intra]}
    /\ UNCHANGED <<settings, links, peers, dns, maps, forwards, seq, layout>>

\* Mutant: allow lists of maps keep the deleted group.
BugDeleteGroupKeepsAllow(g) ==
    /\ g \in groups
    /\ g.id \notin {p.group : p \in peers}
    /\ groups' = groups \ {g}
    /\ links' = {l \in links : l.from # g.id /\ l.to # g.id}
    /\ UNCHANGED <<settings, peers, dns, maps, forwards, seq, layout>>

\* Refused while the group has peers; links and map allow rows go with it.
DeleteGroup(g) ==
    /\ g \in groups
    /\ g.id \notin {p.group : p \in peers}
    /\ groups' = groups \ {g}
    /\ links' = {l \in links : l.from # g.id /\ l.to # g.id}
    /\ maps' = {[m EXCEPT !.allowed = @ \ {g.id}] : m \in maps}
    /\ UNCHANGED <<settings, peers, dns, forwards, seq, layout>>

normalizeLinkPair(from, to, bidi) ==
    IF bidi /\ from > to THEN [from |-> to, to |-> from, bidi |-> bidi]
                         ELSE [from |-> from, to |-> to, bidi |-> bidi]

\* Mutant: the reverse link is not found.
BugLinksForward(a, b) == {l \in links : l.from = a /\ l.to = b}

LinksBetween(a, b) == {l \in links : \/ l.from = a /\ l.to = b
                                     \/ l.from = b /\ l.to = a}

UpsertGroupLink(from, to, bidi) ==
    /\ {from, to} \subseteq IdsOf(groups)
    /\ from # to
    /\ links' = (links \ LinksBetween(from, to)) \cup {normalizeLinkPair(from, to, bidi)}
    /\ UNCHANGED <<settings, groups, peers, dns, maps, forwards, seq, layout>>

DeleteGroupLink(from, to) ==
    /\ LinksBetween(from, to) # {}
    /\ links' = links \ LinksBetween(from, to)
    /\ UNCHANGED <<settings, groups, peers, dns, maps, forwards, seq, layout>>

\* UpdateGroupLayout, outside controlMu: GetGroup ...
LayoutRead(c, g) ==
    /\ layout[c] = NoRow
    /\ g \in groups
    /\ layout' = [layout EXCEPT ![c] = g]
    /\ UNCHANGED tables

\* gorm's Save of a whole row: an UPDATE by id, or an INSERT when no row has that
\* id, which takes a FALSE for the column's default; a name taken by another row
\* refuses it, and the caller ignores the error.
SaveGroup(row) ==
    IF \E h \in groups : h.id # row.id /\ h.name = row.name
    THEN groups
    ELSE {h \in groups : h.id # row.id} \cup
            {[row EXCEPT !.intra = @ \/ row.id \notin IdsOf(groups)]}

\* ... and then Save.  An inserted id counts as issued.
LayoutSave(c) ==
    /\ layout[c] # NoRow
    /\ groups' = SaveGroup(layout[c])
    /\ seq' = [seq EXCEPT !.group = IF groups' # groups /\ layout[c].id > @ THEN layout[c].id ELSE @]
    /\ layout' = [layout EXCEPT ![c] = NoRow]
    /\ UNCHANGED <<settings, links, peers, dns, maps, forwards>>

\* The process ends between the two: requests under way are gone, the rows stay.
LayoutsLost ==
    /\ layout' = [c \in LayoutClients |-> NoRow]
    /\ UNCHANGED tables

-----------------------------------------------------------------------------
(* Service maps and port forwards.                                         *)

\* mapSlugConflictsPeerDB compares the slug as typed, before normalisation: a
\* spelling that is not verbatim the stored label escapes the comparison.
SlugFree(slug, verbatim) == verbatim => slug \notin {p.name : p \in peers}

CreateServiceMap(slug, allowed, verbatim) ==
    /\ Configured
    /\ seq.map < MaxMaps
    /\ allowed # {} /\ allowed \subseteq IdsOf(groups)
    /\ SlugFree(slug, verbatim)
    /\ slug \notin {m.slug : m \in maps}
    /\ \E a \in Hosts :
        /\ nextFreeHostInSubnet(a)
        /\ maps' = maps \cup {[id |-> seq.map + 1, slug |-> slug, vip |-> a, allowed |-> allowed]}
    /\ seq' = [seq EXCEPT !.map = @ + 1]
    /\ UNCHANGED <<settings, groups, links, peers, dns, forwards, layout>>

UpdateServiceMap(m, slug, allowed, verbatim) ==
    /\ m \in maps
    /\ allowed # {} /\ allowed \subseteq IdsOf(groups)
    /\ SlugFree(slug, verbatim)
    /\ slug # m.slug => slug \notin {k.slug : k \in maps}
    /\ maps' = (maps \ {m}) \cup {[m EXCEPT !.slug = slug, !.allowed = allowed]}
    /\ UNCHANGED <<settings, groups, links, peers, dns, forwards, seq, layout>>

DeleteServiceMap(m) ==
    /\ m \in maps
    /\ maps' = maps \ {m}
    /\ UNCHANGED <<settings, groups, links, peers, dns, forwards, seq, layout>>

\* isHubListenPortUsed: a port is taken whatever the protocol.
PortTaken(port) == port \in {f.port : f \in forwards}

CreatePortForward(port, proto) ==
    /\ Configured
    /\ seq.fwd < MaxForwards
    /\ ~PortTaken(port)
    /\ forwards' = forwards \cup {[id |-> seq.fwd + 1, port |-> port, proto |-> proto]}
    /\ seq' = [seq EXCEPT !.fwd = @ + 1]
    /\ UNCHANGED <<settings, groups, links, peers, dns, maps, layout>>

\* Mutant: a port used by the other protocol counts as free.
BugUpdateForwardPerProtocol(f, port, proto) ==
    /\ f \in forwards
    /\ [port |-> port, proto |-> proto] \notin
            {[port |-> h.port, proto |-> h.proto] : h \in forwards \ {f}}
    /\ forwards' = (forwards \ {f}) \cup {[f EXCEPT !.port = port, !.proto = proto]}
    /\ UNCHANGED <<settings, groups, links, peers, dns, maps, seq, layout>>

\* The port is checked when it changes; the index refuses a pair that is taken.
UpdatePortForward(f, port, proto) ==
    /\ f \in forwards
    /\ port # f.port => ~PortTaken(port)
    /\ \A h \in forwards \ {f} : h.port # port \/ h.proto # proto
    /\ forwards' = (forwards \ {f}) \cup {[f EXCEPT !.port = port, !.proto = proto]}
    /\ UNCHANGED <<settings, groups, links, peers, dns, maps, seq, layout>>

DeletePortForward(f) ==
    /\ f \in forwards
    /\ forwards' = forwards \ {f}
    /\ UNCHANGED <<settings, groups, links, peers, dns, maps, seq, layout>>

-----------------------------------------------------------------------------
Next ==
    \/ \E s \in Settings : Setup(s) \/ UpdateMutableSettings(s)
    \/ ResetAll
    \/ \E u \in Uploads : ImportDatabase(u)
    \/ \E n \in Names, g \in GroupIds : CreatePeer(n, g)
    \/ \E p \in peers, n \in Names, g \in GroupIds, ok \in BOOLEAN : RenamePeer(p, n, g, ok)
    \/ \E p \in peers, g \in GroupIds : MovePeer(p, g)
    \/ \E p \in peers, ok \in BOOLEAN : DeletePeer(p, ok)
    \/ \E p \in peers : TogglePeer(p)
    \/ \E n \in GroupNames : CreateGroup(n)
    \/ \E g \in groups, n \in GroupNames : RenameGroup(g, n)
    \/ \E g \in groups, intra \in BOOLEAN : UpdateGroup(g, intra)
    \/ \E g \in groups : DeleteGroup(g)
    \/ \E f, t \in GroupIds, b \in BOOLEAN : UpsertGroupLink(f, t, b)
    \/ \E f, t \in GroupIds : DeleteGroupLink(f, t)
    \/ \E c \in LayoutClients, g \in groups : LayoutRead(c, g)
    \/ \E c \in LayoutClients : LayoutSave(c)
    \/ LayoutsLost
    \/ \E s \in Names, a \in SUBSET GroupIds, v \in BOOLEAN : CreateServiceMap(s, a, v)
    \/ \E m \in maps, s \in Names, a \in SUBSET GroupIds, v \in BOOLEAN : UpdateServiceMap(m, s, a, v)
    \/ \E m \in maps : DeleteServiceMap(m)
    \/ \E port \in Ports, proto \in Protocols : CreatePortForward(port, proto)
    \/ \E f \in forwards, port \in Ports, proto \in Protocols : UpdatePortForward(f, port, proto)
    \/ \E f \in forwards : DeletePortForward(f)

Spec == Init /\ [][Next]_storeVars

-----------------------------------------------------------------------------
(* Properties.                                                             *)

\* No address is given out twice: peers, map VIPs and the hub never share one,
\* over any sequence of creations and deletions, because the allocator reads all
\* of the tables that hold addresses (repo/ip_alloc.go).
AddressesDisjoint == Disjoint(peers, maps)

\* No row refers to a group that is gone.  The policy treats an unknown group as
\* one that allows its members to reach each other, so a dangling reference would
\* fail open (repo/groups.go DeleteGroup, domain/policy/access.go:46).
RefsValid == Referenced(groups, links, peers, maps)

\* Every automatic DNS record belongs to a stored peer and carries its address,
\* even when a rename or a deletion stops between its statements: an orphan would
\* keep its hostname and its address taken for good (service/peers.go:136-154).
DnsRecordsOwned == Owned(dns, peers)

\* At most one link joins two groups, and a bidirectional one is stored with the
\* lower id first, which is what findLinkBetween and the relay choice rely on
\* (repo/groups.go:110-142, repo/models.go:50).
LinksNormal == Normal(links)

\* A step of a configured hub never puts two forwards on one port, whatever their
\* protocols: only forwards that were imported together may share one.  The unique
\* index alone would allow it, and validateForwardRules then refuses the whole rule set
\* (repo/forwards.go:62-112, repo/models.go:71, vpn/ingress/forward.go:74-91).
NoNewPortClash ==
    [][Configured => \A f, h \in forwards' : f.id # h.id /\ f.port = h.port =>
            \E a, b \in forwards : a.id = f.id /\ b.id = h.id /\ a.port = b.port]_storeVars
=============================================================================
