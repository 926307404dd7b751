--------------------------- MODULE HubStoreProofs ---------------------------
(***************************************************************************)
(* Proofs about HubStore, for every value of its constants.                *)
(***************************************************************************)
EXTENDS HubStore, TLAPS

\* The empty tables have their types.
LEMMA InitType == Init => TypeOK
BY StoreAssumption DEF Init, TypeOK, storeVars, tables

\* Every store operation keeps the shape of the rows and the bounds of the ids.
LEMMA NextType == TypeOK /\ [Next]_storeVars => TypeOK'
<1> SUFFICES ASSUME TypeOK, [Next]_storeVars PROVE TypeOK'
    OBVIOUS
<1>1. ASSUME NEW s \in Settings, Setup(s) PROVE TypeOK'
    <2>1. seq.group + 1 \in GroupIds
        BY <1>1, StoreAssumption DEF TypeOK, GroupIds, Setup
    <2>r. [id |-> seq.group + 1, name |-> DefaultGroup, intra |-> TRUE] \in GroupRow
        BY <2>1, StoreAssumption DEF GroupRow
    <2>2. groups' \subseteq GroupRow
        BY <1>1, <2>r DEF TypeOK, Setup
    <2>3. seq' \in [group : 0 .. MaxGroups, peer : 0 .. MaxPeers,
                     map : 0 .. MaxMaps, fwd : 0 .. MaxForwards]
        BY <1>1, StoreAssumption DEF TypeOK, Setup
    <2> QED
        BY <1>1, <2>2, <2>3 DEF TypeOK, Setup
<1>2. ASSUME NEW s \in Settings, UpdateMutableSettings(s) PROVE TypeOK'
    BY <1>2, StoreAssumption DEF TypeOK, GroupIds, UpdateMutableSettings
<1>3. CASE ResetAll
    BY <1>3, StoreAssumption DEF TypeOK, GroupIds, ResetAll
<1>4. ASSUME NEW n \in Names, NEW g \in GroupIds, CreatePeer(n, g) PROVE TypeOK'
    <2>1. seq.peer + 1 \in 1 .. MaxPeers
        BY <1>4, StoreAssumption DEF TypeOK, CreatePeer
    <2>r. \A a \in Hosts :
            /\ [id |-> seq.peer + 1, name |-> n, ip |-> a, group |-> g, enabled |-> TRUE] \in PeerRow
            /\ [host |-> n, ip |-> a, peer |-> seq.peer + 1] \in DnsRow
        BY <2>1 DEF PeerRow, DnsRow
    <2>2. peers' \subseteq PeerRow /\ dns' \subseteq DnsRow
        BY <1>4, <2>r DEF TypeOK, CreatePeer
    <2>3. seq' \in [group : 0 .. MaxGroups, peer : 0 .. MaxPeers,
                     map : 0 .. MaxMaps, fwd : 0 .. MaxForwards]
        BY <1>4, StoreAssumption DEF TypeOK, CreatePeer
    <2> QED
        BY <1>4, <2>2, <2>3 DEF TypeOK, CreatePeer
<1>5. ASSUME NEW p \in peers, NEW n \in Names, NEW g \in GroupIds, NEW ok \in BOOLEAN,
             RenamePeer(p, n, g, ok)
      PROVE  TypeOK'
    <2>1. peers' \subseteq PeerRow
        BY <1>5 DEF TypeOK, RenamePeer, PeerRow
    <2>2. dns' \subseteq DnsRow
        BY <1>5 DEF TypeOK, RenamePeer, ensurePeerDNSRecord, DnsOf, PeerRow, DnsRow
    <2> QED
        BY <1>5, <2>1, <2>2 DEF TypeOK, RenamePeer
<1>6. ASSUME NEW p \in peers, NEW g \in GroupIds, MovePeer(p, g) PROVE TypeOK'
    BY <1>6, StoreAssumption DEF TypeOK, GroupIds, MovePeer, PeerRow
<1>7. ASSUME NEW p \in peers, NEW ok \in BOOLEAN, DeletePeer(p, ok) PROVE TypeOK'
    BY <1>7, StoreAssumption DEF TypeOK, GroupIds, DeletePeer, DnsOf
<1>8. ASSUME NEW p \in peers, TogglePeer(p) PROVE TypeOK'
    BY <1>8, StoreAssumption DEF TypeOK, GroupIds, TogglePeer, PeerRow
<1>9. ASSUME NEW n \in GroupNames, CreateGroup(n) PROVE TypeOK'
    <2>1. seq.group + 1 \in GroupIds
        BY <1>9, StoreAssumption DEF TypeOK, GroupIds, CreateGroup
    <2>r. [id |-> seq.group + 1, name |-> n, intra |-> TRUE] \in GroupRow
        BY <2>1 DEF GroupRow
    <2>2. groups' \subseteq GroupRow
        BY <1>9, <2>r DEF TypeOK, CreateGroup
    <2>3. seq' \in [group : 0 .. MaxGroups, peer : 0 .. MaxPeers,
                     map : 0 .. MaxMaps, fwd : 0 .. MaxForwards]
        BY <1>9, StoreAssumption DEF TypeOK, CreateGroup
    <2> QED
        BY <1>9, <2>2, <2>3 DEF TypeOK, CreateGroup
<1>10. ASSUME NEW g \in groups, NEW n \in GroupNames, RenameGroup(g, n) PROVE TypeOK'
    BY <1>10, StoreAssumption DEF TypeOK, GroupIds, RenameGroup, GroupRow
<1>11. ASSUME NEW g \in groups, NEW intra \in BOOLEAN, UpdateGroup(g, intra) PROVE TypeOK'
    BY <1>11, StoreAssumption DEF TypeOK, GroupIds, UpdateGroup, GroupRow
<1>12. ASSUME NEW g \in groups, DeleteGroup(g) PROVE TypeOK'
    BY <1>12, StoreAssumption DEF TypeOK, GroupIds, DeleteGroup, MapRow
<1>13. ASSUME NEW f \in GroupIds, NEW t \in GroupIds, NEW b \in BOOLEAN, UpsertGroupLink(f, t, b)
       PROVE  TypeOK'
    BY <1>13, StoreAssumption DEF TypeOK, GroupIds, UpsertGroupLink, LinksBetween, normalizeLinkPair, LinkRow
<1>14. ASSUME NEW f \in GroupIds, NEW t \in GroupIds, DeleteGroupLink(f, t) PROVE TypeOK'
    BY <1>14, StoreAssumption DEF TypeOK, GroupIds, DeleteGroupLink
<1>15. ASSUME NEW c \in LayoutClients, NEW g \in groups, LayoutRead(c, g) PROVE TypeOK'
    BY <1>15, StoreAssumption DEF TypeOK, GroupIds, LayoutRead, tables
<1>16. ASSUME NEW c \in LayoutClients, LayoutSave(c) PROVE TypeOK'
    <2> DEFINE row == layout[c]
               new == [row EXCEPT !.intra = @ \/ row.id \notin IdsOf(groups)]
    <2>1. row \in GroupRow
        BY <1>16 DEF TypeOK, LayoutSave
    <2>2. new \in GroupRow
        BY <2>1 DEF GroupRow
    <2>3. groups' \subseteq groups \cup {new}
        BY <1>16 DEF LayoutSave, SaveGroup
    <2>4. seq' \in [group : 0 .. MaxGroups, peer : 0 .. MaxPeers,
                     map : 0 .. MaxMaps, fwd : 0 .. MaxForwards]
        BY <1>16, <2>1, StoreAssumption DEF TypeOK, GroupRow, GroupIds, LayoutSave
    <2> HIDE DEF new
    <2>5. groups' \subseteq GroupRow
        BY <2>2, <2>3 DEF TypeOK
    <2> QED
        BY <1>16, <2>4, <2>5 DEF TypeOK, LayoutSave
<1>17. ASSUME NEW s \in Names, NEW a \in SUBSET GroupIds, NEW v \in BOOLEAN, CreateServiceMap(s, a, v)
       PROVE  TypeOK'
    BY <1>17, StoreAssumption DEF TypeOK, GroupIds, CreateServiceMap, MapRow
<1>18. ASSUME NEW m \in maps, NEW s \in Names, NEW a \in SUBSET GroupIds, NEW v \in BOOLEAN,
              UpdateServiceMap(m, s, a, v)
       PROVE  TypeOK'
    BY <1>18, StoreAssumption DEF TypeOK, GroupIds, UpdateServiceMap, MapRow
<1>19. ASSUME NEW m \in maps, DeleteServiceMap(m) PROVE TypeOK'
    BY <1>19, StoreAssumption DEF TypeOK, GroupIds, DeleteServiceMap
<1>20. ASSUME NEW o \in Ports, NEW r \in Protocols, CreatePortForward(o, r) PROVE TypeOK'
    BY <1>20, StoreAssumption DEF TypeOK, GroupIds, CreatePortForward, FwdRow
<1>21. ASSUME NEW f \in forwards, NEW o \in Ports, NEW r \in Protocols, UpdatePortForward(f, o, r)
       PROVE  TypeOK'
    BY <1>21, StoreAssumption DEF TypeOK, GroupIds, UpdatePortForward, FwdRow
<1>22. ASSUME NEW f \in forwards, DeletePortForward(f) PROVE TypeOK'
    BY <1>22, StoreAssumption DEF TypeOK, GroupIds, DeletePortForward
<1>23. CASE LayoutsLost
    BY <1>23 DEF TypeOK, LayoutsLost, tables
<1>24. CASE UNCHANGED storeVars
    BY <1>24 DEF TypeOK, storeVars, tables
<1>25. ASSUME NEW u \in Uploads, ImportDatabase(u) PROVE TypeOK'
    BY <1>25, UploadAssumption DEF TypeOK, Database, ImportDatabase
<1> QED
    BY <1>1, <1>2, <1>3, <1>4, <1>5, <1>6, <1>7, <1>8, <1>9, <1>10, <1>11, <1>12, <1>13, <1>14,
       <1>15, <1>16, <1>17, <1>18, <1>19, <1>20, <1>21, <1>22, <1>23, <1>24, <1>25 DEF Next

\* Rows of every table keep their shape and their ids their bounds, over every
\* sequence of service calls.
THEOREM StoreTypeCorrect == Spec => []TypeOK
BY InitType, NextType, PTL DEF Spec

-----------------------------------------------------------------------------
(* Each safety invariant is inductive over the typed states.               *)

\* Only createPeer and CreateServiceMap bring in an address, a free one.
LEMMA AddressesDisjointNext == TypeOK /\ AddressesDisjoint /\ [Next]_storeVars => AddressesDisjoint'
<1> SUFFICES ASSUME TypeOK, AddressesDisjoint, [Next]_storeVars PROVE AddressesDisjoint'
    OBVIOUS
<1>1. CASE ResetAll
    BY <1>1 DEF TypeOK, AddressesDisjoint, Disjoint, PeerRow, MapRow, Hosts, Hub, ResetAll
<1>2. ASSUME NEW n \in Names, NEW g \in GroupIds, CreatePeer(n, g) PROVE AddressesDisjoint'
    <2> DEFINE q(a) == [id |-> seq.peer + 1, name |-> n, ip |-> a, group |-> g, enabled |-> TRUE]
    <2>1. PICK a \in Hosts : peers' = peers \cup {q(a)} /\ a \notin collectUsedSubnetIPs
        BY <1>2 DEF CreatePeer, nextFreeHostInSubnet
    <2>2. a # Hub /\ (\A p \in peers : p.ip # a) /\ (\A m \in maps : m.vip # a)
        BY <2>1 DEF collectUsedSubnetIPs
    <2>3. maps' = maps
        BY <1>2 DEF CreatePeer
    <2>4. q(a).ip = a
        OBVIOUS
    <2> HIDE DEF q
    <2> QED
        BY <2>1, <2>2, <2>3, <2>4 DEF AddressesDisjoint, Disjoint
<1>3. ASSUME NEW p \in peers, NEW n \in Names, NEW g \in GroupIds, NEW ok \in BOOLEAN, RenamePeer(p, n, g, ok)
      PROVE  AddressesDisjoint'
    <2> DEFINE q == [p EXCEPT !.name = n, !.group = g]
    <2>1. q.id = p.id /\ q.ip = p.ip
        BY DEF TypeOK, PeerRow
    <2>2. peers' = (peers \ {p}) \cup {q} /\ maps' = maps
        BY <1>3 DEF RenamePeer
    <2> HIDE DEF q
    <2> QED
        BY <2>1, <2>2 DEF AddressesDisjoint, Disjoint
<1>4. ASSUME NEW p \in peers, NEW g \in GroupIds, MovePeer(p, g) PROVE AddressesDisjoint'
    BY <1>4 DEF TypeOK, AddressesDisjoint, Disjoint, PeerRow, MapRow, Hosts, Hub, MovePeer
<1>5. ASSUME NEW p \in peers, NEW ok \in BOOLEAN, DeletePeer(p, ok) PROVE AddressesDisjoint'
    BY <1>5 DEF TypeOK, AddressesDisjoint, Disjoint, PeerRow, MapRow, Hosts, Hub, DeletePeer
<1>6. ASSUME NEW p \in peers, TogglePeer(p) PROVE AddressesDisjoint'
    BY <1>6 DEF TypeOK, AddressesDisjoint, Disjoint, PeerRow, MapRow, Hosts, Hub, TogglePeer
<1>7. ASSUME NEW g \in groups, DeleteGroup(g) PROVE AddressesDisjoint'
    <2> DEFINE cut(m) == [m EXCEPT !.allowed = @ \ {g.id}]
    <2>1. maps' = {cut(m) : m \in maps} /\ \A m \in maps : cut(m).vip = m.vip
        BY <1>7 DEF TypeOK, MapRow, DeleteGroup
    <2> HIDE DEF cut
    <2>2. peers' = peers
        BY <1>7 DEF DeleteGroup
    <2>3. \A k, l \in maps' : k.vip = l.vip => k = l
        BY <2>1 DEF AddressesDisjoint, Disjoint
    <2>4. \A k \in maps' : k.vip # Hub /\ \A p \in peers : p.ip # k.vip
        BY <2>1 DEF AddressesDisjoint, Disjoint
    <2> QED
        BY <2>2, <2>3, <2>4 DEF AddressesDisjoint, Disjoint
<1>8. ASSUME NEW s \in Names, NEW a \in SUBSET GroupIds, NEW v \in BOOLEAN, CreateServiceMap(s, a, v)
      PROVE  AddressesDisjoint'
    BY <1>8 DEF TypeOK, AddressesDisjoint, Disjoint, PeerRow, MapRow, Hosts, Hub, CreateServiceMap, nextFreeHostInSubnet, collectUsedSubnetIPs
<1>9. ASSUME NEW m \in maps, NEW s \in Names, NEW a \in SUBSET GroupIds, NEW v \in BOOLEAN, UpdateServiceMap(m, s, a, v)
      PROVE  AddressesDisjoint'
    <2> DEFINE k == [m EXCEPT !.slug = s, !.allowed = a]
    <2>1. k.vip = m.vip
        BY DEF TypeOK, MapRow
    <2>2. maps' = (maps \ {m}) \cup {k} /\ peers' = peers
        BY <1>9 DEF UpdateServiceMap
    <2> HIDE DEF k
    <2> QED
        BY <2>1, <2>2 DEF AddressesDisjoint, Disjoint
<1>10. ASSUME NEW m \in maps, DeleteServiceMap(m) PROVE AddressesDisjoint'
    BY <1>10 DEF TypeOK, AddressesDisjoint, Disjoint, PeerRow, MapRow, Hosts, Hub, DeleteServiceMap
<1>11. CASE UNCHANGED <<peers, maps>>
    BY <1>11 DEF AddressesDisjoint, Disjoint
<1>12. ASSUME NEW u \in Uploads, ImportDatabase(u) PROVE AddressesDisjoint'
    BY <1>12, UploadAssumption DEF AddressesDisjoint, ImportDatabase
<1> QED
    BY <1>1, <1>2, <1>3, <1>4, <1>5, <1>6, <1>7, <1>8, <1>9, <1>10, <1>11, <1>12 DEF Next, storeVars, tables,
        Setup, UpdateMutableSettings, CreateGroup, RenameGroup, UpdateGroup,
        UpsertGroupLink, DeleteGroupLink, LayoutRead, LayoutSave, LayoutsLost, CreatePortForward,
        UpdatePortForward, DeletePortForward

\* Every reference is made to a stored group, and DeleteGroup takes the last ones away.
LEMMA RefsValidNext == TypeOK /\ RefsValid /\ [Next]_storeVars => RefsValid'
<1> SUFFICES ASSUME TypeOK, RefsValid, [Next]_storeVars PROVE RefsValid'
    OBVIOUS
<1>1. ASSUME NEW s \in Settings, Setup(s) PROVE RefsValid'
    BY <1>1 DEF TypeOK, RefsValid, Referenced, IdsOf, PeerRow, GroupRow, MapRow, Setup
<1>2. CASE ResetAll
    BY <1>2 DEF TypeOK, RefsValid, Referenced, IdsOf, PeerRow, GroupRow, MapRow, ResetAll
<1>3. ASSUME NEW n \in Names, NEW g \in GroupIds, CreatePeer(n, g) PROVE RefsValid'
    BY <1>3 DEF TypeOK, RefsValid, Referenced, IdsOf, PeerRow, GroupRow, MapRow, CreatePeer
<1>4. ASSUME NEW p \in peers, NEW n \in Names, NEW g \in GroupIds, NEW ok \in BOOLEAN, RenamePeer(p, n, g, ok)
      PROVE  RefsValid'
    BY <1>4 DEF TypeOK, RefsValid, Referenced, IdsOf, PeerRow, GroupRow, MapRow, RenamePeer
<1>5. ASSUME NEW p \in peers, NEW g \in GroupIds, MovePeer(p, g) PROVE RefsValid'
    BY <1>5 DEF TypeOK, RefsValid, Referenced, IdsOf, PeerRow, GroupRow, MapRow, MovePeer
<1>6. ASSUME NEW p \in peers, NEW ok \in BOOLEAN, DeletePeer(p, ok) PROVE RefsValid'
    BY <1>6 DEF TypeOK, RefsValid, Referenced, IdsOf, PeerRow, GroupRow, MapRow, DeletePeer
<1>7. ASSUME NEW p \in peers, TogglePeer(p) PROVE RefsValid'
    BY <1>7 DEF TypeOK, RefsValid, Referenced, IdsOf, PeerRow, GroupRow, MapRow, TogglePeer
<1>8. ASSUME NEW n \in GroupNames, CreateGroup(n) PROVE RefsValid'
    BY <1>8 DEF TypeOK, RefsValid, Referenced, IdsOf, PeerRow, GroupRow, MapRow, CreateGroup
<1>9. ASSUME NEW g \in groups, NEW n \in GroupNames, RenameGroup(g, n) PROVE RefsValid'
    <2> DEFINE h == [g EXCEPT !.name = n]
    <2>1. h.id = g.id
        BY DEF TypeOK, GroupRow
    <2>2. groups' = (groups \ {g}) \cup {h} /\ UNCHANGED <<peers, links, maps>>
        BY <1>9 DEF RenameGroup
    <2> HIDE DEF h
    <2>3. IdsOf(groups) \subseteq IdsOf(groups')
        BY <2>1, <2>2 DEF IdsOf
    <2> QED
        BY <2>2, <2>3 DEF RefsValid, Referenced
<1>10. ASSUME NEW g \in groups, NEW intra \in BOOLEAN, UpdateGroup(g, intra) PROVE RefsValid'
    <2> DEFINE h == [g EXCEPT !.intra = intra]
    <2>1. h.id = g.id
        BY DEF TypeOK, GroupRow
    <2>2. groups' = (groups \ {g}) \cup {h} /\ UNCHANGED <<peers, links, maps>>
        BY <1>10 DEF UpdateGroup
    <2> HIDE DEF h
    <2>3. IdsOf(groups) \subseteq IdsOf(groups')
        BY <2>1, <2>2 DEF IdsOf
    <2> QED
        BY <2>2, <2>3 DEF RefsValid, Referenced
<1>11. ASSUME NEW g \in groups, DeleteGroup(g) PROVE RefsValid'
    BY <1>11 DEF TypeOK, RefsValid, Referenced, IdsOf, PeerRow, GroupRow, MapRow, DeleteGroup
<1>12. ASSUME NEW f \in GroupIds, NEW t \in GroupIds, NEW b \in BOOLEAN, UpsertGroupLink(f, t, b)
      PROVE  RefsValid'
    <2>1. \A l \in links' : l \in links \/ {l.from, l.to} = {f, t}
        BY <1>12 DEF UpsertGroupLink, normalizeLinkPair
    <2> QED
        BY <1>12, <2>1 DEF RefsValid, Referenced, IdsOf, UpsertGroupLink
<1>13. ASSUME NEW f \in GroupIds, NEW t \in GroupIds, DeleteGroupLink(f, t) PROVE RefsValid'
    BY <1>13 DEF TypeOK, RefsValid, Referenced, IdsOf, PeerRow, GroupRow, MapRow, DeleteGroupLink
<1>14. ASSUME NEW c \in LayoutClients, LayoutSave(c) PROVE RefsValid'
    <2> DEFINE row == layout[c]
               new == [row EXCEPT !.intra = @ \/ row.id \notin IdsOf(groups)]
    <2>1. new.id = row.id
        BY <1>14 DEF TypeOK, LayoutSave, GroupRow
    <2>2. groups' \in {groups, {h \in groups : h.id # row.id} \cup {new}}
        BY <1>14 DEF LayoutSave, SaveGroup
    <2> HIDE DEF new
    <2>3. IdsOf(groups) \subseteq IdsOf(groups')
        BY <2>1, <2>2 DEF IdsOf
    <2>4. UNCHANGED <<peers, links, maps>>
        BY <1>14 DEF LayoutSave
    <2> QED
        BY <2>3, <2>4 DEF RefsValid, Referenced
<1>15. ASSUME NEW s \in Names, NEW a \in SUBSET GroupIds, NEW v \in BOOLEAN, CreateServiceMap(s, a, v)
      PROVE  RefsValid'
    BY <1>15 DEF TypeOK, RefsValid, Referenced, IdsOf, PeerRow, GroupRow, MapRow, CreateServiceMap
<1>16. ASSUME NEW m \in maps, NEW s \in Names, NEW a \in SUBSET GroupIds, NEW v \in BOOLEAN, UpdateServiceMap(m, s, a, v)
      PROVE  RefsValid'
    BY <1>16 DEF TypeOK, RefsValid, Referenced, IdsOf, PeerRow, GroupRow, MapRow, UpdateServiceMap
<1>17. ASSUME NEW m \in maps, DeleteServiceMap(m) PROVE RefsValid'
    BY <1>17 DEF TypeOK, RefsValid, Referenced, IdsOf, PeerRow, GroupRow, MapRow, DeleteServiceMap
<1>18. CASE UNCHANGED <<groups, links, peers, maps>>
    BY <1>18 DEF RefsValid, Referenced, IdsOf
<1>19. ASSUME NEW u \in Uploads, ImportDatabase(u) PROVE RefsValid'
    BY <1>19, UploadAssumption DEF RefsValid, ImportDatabase
<1> QED
    BY <1>1, <1>2, <1>3, <1>4, <1>5, <1>6, <1>7, <1>8, <1>9, <1>10, <1>11, <1>12, <1>13, <1>14, <1>15, <1>16, <1>17, <1>18,
       <1>19 DEF Next, storeVars, tables,
        UpdateMutableSettings, LayoutRead, LayoutsLost, CreatePortForward, UpdatePortForward,
        DeletePortForward

\* A record goes before or with its peer, and no operation changes the address of one.
LEMMA DnsRecordsOwnedNext == TypeOK /\ DnsRecordsOwned /\ [Next]_storeVars => DnsRecordsOwned'
<1> SUFFICES ASSUME TypeOK, DnsRecordsOwned, [Next]_storeVars PROVE DnsRecordsOwned'
    OBVIOUS
<1>1. CASE ResetAll
    BY <1>1 DEF TypeOK, DnsRecordsOwned, Owned, PeerRow, DnsRow, ResetAll
<1>2. ASSUME NEW n \in Names, NEW g \in GroupIds, CreatePeer(n, g) PROVE DnsRecordsOwned'
    <2> DEFINE q(a) == [id |-> seq.peer + 1, name |-> n, ip |-> a, group |-> g, enabled |-> TRUE]
               d(a) == [host |-> n, ip |-> a, peer |-> seq.peer + 1]
    <2>1. PICK a \in Hosts : peers' = peers \cup {q(a)} /\ dns' = dns \cup {d(a)}
        BY <1>2 DEF CreatePeer
    <2>2. d(a).peer = q(a).id /\ d(a).ip = q(a).ip
        OBVIOUS
    <2> HIDE DEF q, d
    <2> QED
        BY <2>1, <2>2 DEF DnsRecordsOwned, Owned
<1>3. ASSUME NEW p \in peers, NEW n \in Names, NEW g \in GroupIds, NEW ok \in BOOLEAN, RenamePeer(p, n, g, ok)
      PROVE  DnsRecordsOwned'
    <2> DEFINE q == [p EXCEPT !.name = n, !.group = g]
    <2>1. q.id = p.id /\ q.ip = p.ip
        BY DEF TypeOK, PeerRow
    <2>2. peers' = (peers \ {p}) \cup {q}
        BY <1>3 DEF RenamePeer
    <2>3. dns' \subseteq dns \cup {[host |-> n, ip |-> p.ip, peer |-> p.id]}
        BY <1>3 DEF RenamePeer, ensurePeerDNSRecord
    <2> HIDE DEF q
    <2> QED
        BY <2>1, <2>2, <2>3 DEF DnsRecordsOwned, Owned
<1>4. ASSUME NEW p \in peers, NEW g \in GroupIds, MovePeer(p, g) PROVE DnsRecordsOwned'
    <2> DEFINE q == [p EXCEPT !.group = g]
    <2>1. q.id = p.id /\ q.ip = p.ip
        BY DEF TypeOK, PeerRow
    <2>2. peers' = (peers \ {p}) \cup {q} /\ dns' = dns
        BY <1>4 DEF MovePeer
    <2> HIDE DEF q
    <2> QED
        BY <2>1, <2>2 DEF DnsRecordsOwned, Owned
<1>5. ASSUME NEW p \in peers, NEW ok \in BOOLEAN, DeletePeer(p, ok) PROVE DnsRecordsOwned'
    BY <1>5 DEF TypeOK, DnsRecordsOwned, Owned, PeerRow, DnsRow, DeletePeer, DnsOf
<1>6. ASSUME NEW p \in peers, TogglePeer(p) PROVE DnsRecordsOwned'
    <2> DEFINE q == [p EXCEPT !.enabled = ~@]
    <2>1. q.id = p.id /\ q.ip = p.ip
        BY DEF TypeOK, PeerRow
    <2>2. peers' = (peers \ {p}) \cup {q} /\ dns' = dns
        BY <1>6 DEF TogglePeer
    <2> HIDE DEF q
    <2> QED
        BY <2>1, <2>2 DEF DnsRecordsOwned, Owned
<1>7. CASE UNCHANGED <<peers, dns>>
    BY <1>7 DEF DnsRecordsOwned, Owned
<1>8. ASSUME NEW u \in Uploads, ImportDatabase(u) PROVE DnsRecordsOwned'
    BY <1>8, UploadAssumption DEF DnsRecordsOwned, ImportDatabase
<1> QED
    BY <1>1, <1>2, <1>3, <1>4, <1>5, <1>6, <1>7, <1>8 DEF Next, storeVars, tables,
        Setup, UpdateMutableSettings, CreateGroup, RenameGroup, UpdateGroup,
        DeleteGroup, UpsertGroupLink, DeleteGroupLink, LayoutRead, LayoutSave, LayoutsLost,
        CreateServiceMap, UpdateServiceMap, DeleteServiceMap, CreatePortForward,
        UpdatePortForward, DeletePortForward

\* UpsertGroupLink replaces what joins the two groups by one normalised row.
LEMMA LinksNormalNext == TypeOK /\ LinksNormal /\ [Next]_storeVars => LinksNormal'
<1> SUFFICES ASSUME TypeOK, LinksNormal, [Next]_storeVars PROVE LinksNormal'
    OBVIOUS
<1>1. CASE ResetAll
    BY <1>1 DEF TypeOK, LinksNormal, Normal, LinkRow, GroupIds, ResetAll
<1>2. ASSUME NEW g \in groups, DeleteGroup(g) PROVE LinksNormal'
    BY <1>2 DEF TypeOK, LinksNormal, Normal, LinkRow, GroupIds, DeleteGroup
<1>3. ASSUME NEW f \in GroupIds, NEW t \in GroupIds, NEW b \in BOOLEAN, UpsertGroupLink(f, t, b)
      PROVE  LinksNormal'
    BY <1>3 DEF TypeOK, LinksNormal, Normal, LinkRow, GroupIds, UpsertGroupLink, normalizeLinkPair, LinksBetween
<1>4. ASSUME NEW f \in GroupIds, NEW t \in GroupIds, DeleteGroupLink(f, t) PROVE LinksNormal'
    BY <1>4 DEF TypeOK, LinksNormal, Normal, LinkRow, GroupIds, DeleteGroupLink
<1>5. CASE UNCHANGED <<links>>
    BY <1>5 DEF LinksNormal, Normal
<1>6. ASSUME NEW u \in Uploads, ImportDatabase(u) PROVE LinksNormal'
    BY <1>6, UploadAssumption DEF LinksNormal, ImportDatabase
<1> QED
    BY <1>1, <1>2, <1>3, <1>4, <1>5, <1>6 DEF Next, storeVars, tables,
        Setup, UpdateMutableSettings, CreatePeer, RenamePeer, MovePeer, DeletePeer,
        TogglePeer, CreateGroup, RenameGroup, UpdateGroup, LayoutRead, LayoutSave, LayoutsLost,
        CreateServiceMap, UpdateServiceMap, DeleteServiceMap, CreatePortForward,
        UpdatePortForward, DeletePortForward

\* The forwards of the next state that share a port shared it before.
OldClashes == \A f, h \in forwards' : f.id # h.id /\ f.port = h.port =>
                \E a, b \in forwards : a.id = f.id /\ b.id = h.id /\ a.port = b.port

\* A forward is stored on a port no other forward has, or keeps its own; the other
\* operations of a configured hub add none.
LEMMA PortClashNext == TypeOK /\ [Next]_storeVars /\ Configured => OldClashes
<1> SUFFICES ASSUME TypeOK, [Next]_storeVars, Configured PROVE OldClashes
    OBVIOUS
<1>1. ASSUME NEW o \in Ports, NEW r \in Protocols, CreatePortForward(o, r) PROVE OldClashes
    <2> DEFINE new == [id |-> seq.fwd + 1, port |-> o, proto |-> r]
    <2>1. new.port = o
        OBVIOUS
    <2>2. forwards' = forwards \cup {new} /\ \A k \in forwards : k.port # o
        BY <1>1 DEF CreatePortForward, PortTaken
    <2> HIDE DEF new
    <2> QED
        BY <2>1, <2>2 DEF OldClashes
<1>2. ASSUME NEW f \in forwards, NEW o \in Ports, NEW r \in Protocols, UpdatePortForward(f, o, r)
      PROVE  OldClashes
    <2> DEFINE new == [f EXCEPT !.port = o, !.proto = r]
    <2>1. new.port = o /\ new.id = f.id
        BY DEF TypeOK, FwdRow
    <2>2. forwards' = (forwards \ {f}) \cup {new}
        BY <1>2 DEF UpdatePortForward
    <2>3. o = f.port \/ \A k \in forwards : k.port # o
        BY <1>2 DEF UpdatePortForward, PortTaken
    <2> HIDE DEF new
    <2> QED
        BY <2>1, <2>2, <2>3 DEF OldClashes
<1>3. CASE forwards' \subseteq forwards
    BY <1>3 DEF OldClashes
<1>4. ~(\E s \in Settings : Setup(s)) /\ ~(\E u \in Uploads : ImportDatabase(u))
    BY DEF Setup, ImportDatabase
<1> QED
    BY <1>1, <1>2, <1>3, <1>4 DEF Next, storeVars, tables,
        UpdateMutableSettings, ResetAll, CreatePeer, RenamePeer, MovePeer, DeletePeer,
        TogglePeer, CreateGroup, RenameGroup, UpdateGroup, DeleteGroup, UpsertGroupLink,
        DeleteGroupLink, LayoutRead, LayoutSave, LayoutsLost, CreateServiceMap, UpdateServiceMap,
        DeleteServiceMap, DeletePortForward

-----------------------------------------------------------------------------
\* Over every history of creations, moves, failed renames and deletions, peers,
\* map VIPs and the hub hold different addresses (repo/ip_alloc.go).
THEOREM AddressesNeverShared == Spec => []AddressesDisjoint
<1>1. Init => AddressesDisjoint
    BY DEF Init, AddressesDisjoint, Disjoint
<1> QED
    BY <1>1, InitType, NextType, AddressesDisjointNext, PTL DEF Spec

\* No peer, link or allow list ever names a group that is gone, although layout
\* saves run outside controlMu (repo/groups.go DeleteGroup).
THEOREM ReferencesStayValid == Spec => []RefsValid
<1>1. Init => RefsValid
    BY DEF Init, RefsValid, Referenced
<1> QED
    BY <1>1, InitType, NextType, RefsValidNext, PTL DEF Spec

\* A DNS record never outlives its peer, also when one statement of a rename or a
\* deletion fails (service/peers.go:105-154).
THEOREM DnsRecordsNeverOrphaned == Spec => []DnsRecordsOwned
<1>1. Init => DnsRecordsOwned
    BY DEF Init, DnsRecordsOwned, Owned
<1> QED
    BY <1>1, InitType, NextType, DnsRecordsOwnedNext, PTL DEF Spec

\* Two groups are joined by one normalised link at most (repo/groups.go:110-142).
THEOREM LinksStayNormal == Spec => []LinksNormal
<1>1. Init => LinksNormal
    BY DEF Init, LinksNormal, Normal
<1> QED
    BY <1>1, InitType, NextType, LinksNormalNext, PTL DEF Spec

\* Only forwards that were imported together ever share a port: no operation of a
\* configured hub brings two together (repo/forwards.go:62-112).
THEOREM NoPortClashArises == Spec => NoNewPortClash
<1>1. TypeOK /\ [Next]_storeVars =>
        [Configured => \A f, h \in forwards' : f.id # h.id /\ f.port = h.port =>
            \E a, b \in forwards : a.id = f.id /\ b.id = h.id /\ a.port = b.port]_storeVars
    BY PortClashNext DEF OldClashes
<1> QED
    BY <1>1, InitType, NextType, PTL DEF Spec, NoNewPortClash
=============================================================================
