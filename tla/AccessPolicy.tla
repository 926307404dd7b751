---------------------------- MODULE AccessPolicy ----------------------------
(***************************************************************************)
(* internal/domain/policy, vpn/policy and the lookup tables that the       *)
(* dataplane keeps: what the group graph allows, as pure operators over    *)
(* the rows of the store.  A peer is [id, name, ip, group, enabled], a     *)
(* group [id, name, intra], a link [from, to, bidi], a map                 *)
(* [id, slug, vip, allowed].  Group id 0 and unparsable addresses, which   *)
(* the code skips, are never stored.                                       *)
(***************************************************************************)
EXTENDS Integers

\* GroupAccessPolicy.AllowsIntraGroup: a group that has no row defaults to allow.
AllowsIntraGroup(g, groups) == \A row \in groups : row.id = g => row.intra

LinkBetween(l, a, b) == \/ l.from = a /\ l.to = b
                        \/ l.from = b /\ l.to = a

\* The links findLinkBetween may return the first of.
findLinkBetween(a, b, links) == {l \in links : LinkBetween(l, a, b)}

\* Whether a member of one group may open traffic to a member of another.
LinkAllowsInit(from, to, links, groups) ==
    IF from = to
    THEN AllowsIntraGroup(from, groups)
    ELSE \E l \in links : \/ l.from = from /\ l.to = to
                          \/ l.bidi /\ LinkBetween(l, from, to)

\* Same group, or the link found between the two groups is bidirectional.
allowDirectPeerIP(p, q, links, groups) ==
    IF p.group = q.group
    THEN AllowsIntraGroup(p.group, groups)
    ELSE LET found == findLinkBetween(p.group, q.group, links)
         IN  found # {} /\ (CHOOSE l \in found : TRUE).bidi

needsTransparentRelay(p, q, links, groups) ==
    /\ p.group # q.group
    /\ LinkAllowsInit(p.group, q.group, links, groups)
    /\ ~allowDirectPeerIP(p, q, links, groups)

Enabled(peers) == {p \in peers : p.enabled}

\* GroupInAllowedSet and PeerMayAccessMap: an empty allow list denies.
GroupInAllowedSet(allowed, g) == g \in allowed

\* Mutant: a link in either direction opens both.
BugBlockedUnlinked(p, q, links, groups) ==
    /\ ~LinkAllowsInit(p.group, q.group, links, groups)
    /\ ~LinkAllowsInit(q.group, p.group, links, groups)

PeerBlocked(p, q, links, groups) ==
    /\ ~allowDirectPeerIP(p, q, links, groups)
    /\ ~needsTransparentRelay(p, q, links, groups)
    /\ ~LinkAllowsInit(p.group, q.group, links, groups)

\* BuildAccessPolicySpec: the <<source, destination>> pairs the TUN drops.
Blocked(peers, links, groups, maps) ==
    {<<e[1].ip, e[2].ip>> : e \in
        {d \in Enabled(peers) \X Enabled(peers) :
            d[1].id # d[2].id /\ PeerBlocked(d[1], d[2], links, groups)}}
    \cup
    {<<e[1].ip, e[2].vip>> : e \in
        {d \in Enabled(peers) \X maps : ~GroupInAllowedSet(d[2].allowed, d[1].group)}}

\* WG address -> group tables of the SNAT table, the DNS server and MapProxy.
PeerGroups(peers) == {[ip |-> p.ip, group |-> p.group] : p \in Enabled(peers)}

\* BuildTransparentSpec and applyTransparent: only one-way links are relayed.
UniLinks(links) == {[from |-> l.from, to |-> l.to] : l \in {k \in links : ~k.bidi}}

\* The whole policy that SetAccessPolicy installs.
AccessPolicySpec(peers, links, groups, maps) ==
    [blocked |-> Blocked(peers, links, groups, maps),
     groups  |-> PeerGroups(peers),
     uni     |-> UniLinks(links)]

\* BuildDNSCatalog with the client table that catalogStore.update adds.
BuildDNSCatalog(peers, maps) ==
    [peers  |-> {[name |-> p.name, ip |-> p.ip] : p \in Enabled(peers)},
     maps   |-> {[slug |-> m.slug, vip |-> m.vip, allowed |-> m.allowed] : m \in maps},
     groups |-> PeerGroups(peers)]

\* lookupIPForClient: the addresses a client may be answered with; a map entry
\* hides a peer of the same name, and {} is NXDOMAIN.
LookupIP(catalog, name, client) ==
    LET entries == {m \in catalog.maps : m.slug = name}
        mine    == {g.group : g \in {h \in catalog.groups : h.ip = client}}
    IN  IF entries # {}
        THEN {m.vip : m \in {e \in entries :
                             \E g \in mine : GroupInAllowedSet(e.allowed, g)}}
        ELSE {p.ip : p \in {r \in catalog.peers : r.name = name}}
=============================================================================
