------------------------------ MODULE TunPath ------------------------------
(***************************************************************************)
(* The path of a packet through the hub: TUN.Write filters what WireGuard  *)
(* received (vpn/tun), TUN.Read translates what the network stack forwards *)
(* (vpn/snat), while the control plane replaces rules and tables.          *)
(*                                                                         *)
(* WireGuard calls Write from one goroutine per peer and Read from one.    *)
(* Each works on pointers it read under TUN.mu and released again, so a    *)
(* policy change can overtake it between any two of its steps.  A packet   *)
(* is [src, sport, dst, dport]; the protocol is left out, two protocols    *)
(* on the same ports behave as two pairs of ports.  A time stamp is kept   *)
(* as its age, which stops at the first value above SessionIdle.           *)
(***************************************************************************)
EXTENDS AccessPolicy, FiniteSets

CONSTANTS
    Peers,           \* addresses of the peers; each has its receive goroutine
    Hub,             \* the hub's address
    PeerPorts,       \* ports that peers use
    EphemeralPorts,  \* the pool of hub ports for translated flows
    Traffic,         \* the packets peers send
    Graphs,          \* what the store may hold: [peers, links, groups, maps, listen]
    NoFlow,          \* nil
    SessionIdle,     \* idle timeout, in ticks
    MaxEpoch,        \* bound on policy changes
    MaxPackets       \* bound on packets inside the hub

VARIABLES
    graph,           \* the graph of the synchronisation under way, or of the last one
    ctl,             \* where the control plane is
    epoch,           \* policies installed so far; the last one is current
    access,          \* access[e]: the pairs that policy e blocks
    snat,            \* snat[e]: the table of policy e
    mapVIPs, reservedHubPorts,
    flows,           \* conntrack: [src, dst, age], with the epoch it is from and its ports
    recv,            \* recv[r]: a receive goroutine
    reader,          \* the goroutine that reads
    netstack,        \* packets to be forwarded
    sent             \* history: flow f was translated to or from sent[f].port in the last
                     \* SessionIdle, under the current policy

conf == <<graph, ctl, epoch, access, mapVIPs, reservedHubPorts>>
vars == <<conf, snat, flows, recv, reader, netstack, sent>>

Epochs == 0 .. MaxEpoch
VIPs(g) == {m.vip : m \in g.maps}
Addrs == Peers \cup {Hub} \cup UNION {VIPs(g) : g \in Graphs}
Listen == UNION {g.listen : g \in Graphs}
HubPorts == EphemeralPorts \cup Listen

Packets == [src : Peers, sport : PeerPorts, dst : Addrs, dport : PeerPorts \cup HubPorts]

\* A flow between peers.  Both ends send or are sent to, also after a translation.
FlowOf(p) == [client |-> p.src, clientPort |-> p.sport, server |-> p.dst, serverPort |-> p.dport]
Ends == {<<p.src, p.sport>> : p \in Traffic} \cup
        {<<p.dst, p.dport>> : p \in {q \in Traffic : q.dst \in Peers}}
Flows == {f \in [client : Peers, clientPort : PeerPorts \cup HubPorts,
                 server : Peers, serverPort : PeerPorts \cup HubPorts] :
            {<<f.client, f.clientPort>>, <<f.server, f.serverPort>>} \subseteq Ends}

ASSUME TunAssumption ==
    /\ Hub \notin Peers
    /\ Traffic \subseteq Packets
    /\ EphemeralPorts \subseteq Nat \ {0}
    /\ \A g \in Graphs : \A p \in g.peers : p.ip \in Peers
    /\ NoFlow \notin Flows
    /\ SessionIdle \in Nat /\ MaxEpoch \in Nat /\ MaxPackets \in Nat

\* A session is known by its hub port; byFlow and byPort are the two indexes.
NewTransparentTable(g) ==
    [groups   |-> PeerGroups(g.peers),
     uni      |-> UniLinks(g.links),
     byFlow   |-> [f \in Flows |-> 0],
     byPort   |-> [p \in HubPorts |-> NoFlow],
     age      |-> [p \in HubPorts |-> 0],
     reserved |-> {},
     inUse    |-> {}]

NoGraph == [peers |-> {}, links |-> {}, groups |-> {}, maps |-> {}, listen |-> {}]
NoPacket == [src |-> 0]
Free == [pc |-> "idle", pkt |-> NoPacket, table |-> 0, rules |-> 0]
Unsent == [port |-> 0, age |-> 0]

Init ==
    /\ graph = NoGraph /\ ctl = "idle" /\ epoch = 0
    /\ access = [e \in Epochs |-> {}]
    /\ snat = [e \in Epochs |-> NewTransparentTable(NoGraph)]
    /\ mapVIPs = {} /\ reservedHubPorts = {}
    /\ flows = {}
    /\ recv = [r \in Peers |-> Free] /\ reader = Free
    /\ netstack = {}
    /\ sent = [f \in Flows |-> Unsent]

-----------------------------------------------------------------------------
(* The control plane: applyIngressLocked and FullSync, in this order and   *)
(* one at a time under Stack.mu.                                           *)

ReserveHubPorts(g) ==
    /\ ctl = "idle" /\ epoch < MaxEpoch
    /\ graph' = g
    /\ reservedHubPorts' = g.listen
    /\ snat' = [snat EXCEPT ![epoch].reserved = @ \cup g.listen]
    /\ ctl' = "vips"
    /\ UNCHANGED <<epoch, access, mapVIPs, flows, recv, reader, netstack, sent>>

SetMapVIPs ==
    /\ ctl = "vips"
    /\ mapVIPs' = VIPs(graph)
    /\ ctl' = "policy"
    /\ UNCHANGED <<graph, epoch, access, reservedHubPorts, snat, flows, recv, reader, netstack, sent>>

\* Mutant: the new table is not told of the listeners.
BugNewTable == NewTransparentTable(graph)

\* The table that takes over, without sessions, once ReserveHubPorts has run on it.
InstalledTable == [NewTransparentTable(graph) EXCEPT !.reserved = reservedHubPorts]

\* Mutant: conntrack is kept over a policy change.
BugSetAccessPolicyKeepsFlows ==
    /\ ctl = "policy" \/ (ctl = "idle" /\ epoch > 0)
    /\ epoch < MaxEpoch
    /\ epoch' = epoch + 1
    /\ access' = [access EXCEPT ![epoch + 1] =
                    Blocked(graph.peers, graph.links, graph.groups, graph.maps)]
    /\ snat' = [snat EXCEPT ![epoch + 1] = InstalledTable]
    /\ ctl' = "idle"
    /\ sent' = [f \in Flows |-> Unsent]
    /\ UNCHANGED <<graph, mapVIPs, reservedHubPorts, flows, recv, reader, netstack>>

\* SetAccessPolicy, at the end of FullSync or alone from OnStarted's SyncAccessFilter.
SetAccessPolicy ==
    /\ ctl = "policy" \/ (ctl = "idle" /\ epoch > 0)
    /\ epoch < MaxEpoch
    /\ epoch' = epoch + 1
    /\ access' = [access EXCEPT ![epoch + 1] =
                    Blocked(graph.peers, graph.links, graph.groups, graph.maps)]
    /\ snat' = [snat EXCEPT ![epoch + 1] = InstalledTable]
    /\ flows' = {}
    /\ ctl' = "idle"
    /\ sent' = [f \in Flows |-> Unsent]
    /\ UNCHANGED <<graph, mapVIPs, reservedHubPorts, recv, reader, netstack>>

-----------------------------------------------------------------------------
(* Write: what WireGuard received from a peer.                             *)

\* The network stack terminates what is for itself and queues what it forwards.
Deliver(p, via, reply) ==
    netstack' = IF p.dst \in Peers
                THEN netstack \cup {[pkt |-> p, via |-> via, reply |-> reply]}
                ELSE netstack

\* Write reads the table pointer.  WireGuard only passes on the peer's own address.
Write(r, p) ==
    /\ recv[r].pc = "idle" /\ p.src = r
    /\ Cardinality({q \in Peers : recv[q].pc # "idle"}) + Cardinality(netstack)
         + (IF reader.pc = "idle" THEN 0 ELSE 1) < MaxPackets
    /\ recv' = [recv EXCEPT ![r] = [Free EXCEPT !.pc = "snat", !.pkt = p, !.table = epoch]]
    /\ UNCHANGED <<conf, snat, flows, reader, netstack, sent>>

\* Mutant: a reply does not keep its session alive.
BugAnswered(e, p) == snat

\* The sessions of table e once one got an answer on port p.
Answered(e, p) == [snat EXCEPT ![e].age[p] = 0]

\* Flow f used port p of table e.
Used(e, f, p) == IF e = epoch THEN [sent EXCEPT ![f] = [port |-> p, age |-> 0]] ELSE sent

\* Under the table's lock: a packet to the port of a session goes to its client.
ProcessIngressFromWG(r) ==
    LET e == recv[r].table
        p == recv[r].pkt
        f == IF p.dst = Hub /\ p.dport \in HubPorts THEN snat[e].byPort[p.dport] ELSE NoFlow
    IN  /\ recv[r].pc = "snat"
        /\ IF f # NoFlow
           THEN /\ snat' = Answered(e, p.dport)
                /\ sent' = Used(e, f, p.dport)
                /\ Deliver([p EXCEPT !.dst = f.client, !.dport = f.clientPort], "snat", TRUE)
                /\ recv' = [recv EXCEPT ![r] = Free]
           ELSE recv' = [recv EXCEPT ![r].pc = "vip"] /\ UNCHANGED <<snat, sent, netstack>>
        /\ UNCHANGED <<conf, flows, reader>>

\* shouldDrop: the hub and the map addresses are not filtered here.
Bypass(r) ==
    LET p == recv[r].pkt
    IN  /\ recv[r].pc = "vip"
        /\ IF {p.src, p.dst} \cap ({Hub} \cup mapVIPs) # {}
           THEN recv' = [recv EXCEPT ![r] = Free] /\ Deliver(p, "bypass", FALSE)
           ELSE recv' = [recv EXCEPT ![r].pc = "rules"] /\ UNCHANGED netstack
        /\ UNCHANGED <<conf, snat, flows, reader, sent>>

ReadRules(r) ==
    /\ recv[r].pc = "rules"
    /\ recv' = [recv EXCEPT ![r].pc = "track", ![r].rules = epoch]
    /\ UNCHANGED <<conf, snat, flows, reader, netstack, sent>>

CanAccess(e, src, dst) == <<src, dst>> \notin access[e]

Live(fl) == {f \in fl : f.age <= SessionIdle}
Pair(src, dst) == {f \in flows : f.src = src /\ f.dst = dst}

\* connTrack.remember with its gc; the ports and the epoch are history.
remember(p, e) ==
    LET ports == {<<p.sport, p.dport>>} \cup UNION {f.ports : f \in Pair(p.src, p.dst)}
    IN  Live(flows \ Pair(p.src, p.dst))
        \cup {[src |-> p.src, dst |-> p.dst, age |-> 0, from |-> e, ports |-> ports]}

\* Decided with the rules read before, against the connection table of now.
Track(r) ==
    LET p    == recv[r].pkt
        back == Pair(p.dst, p.src)
    IN  /\ recv[r].pc = "track"
        /\ recv' = [recv EXCEPT ![r] = Free]
        /\ \/ /\ CanAccess(recv[r].rules, p.src, p.dst)
              /\ flows' = remember(p, recv[r].rules)
              /\ Deliver(p, "allowed", FALSE)
           \/ /\ ~CanAccess(recv[r].rules, p.src, p.dst)
              /\ Live(back) # {}
              /\ Deliver(p, "return", \E f \in back : <<p.dport, p.sport>> \in f.ports)
              /\ UNCHANGED flows
           \/ /\ ~CanAccess(recv[r].rules, p.src, p.dst)
              /\ Live(back) = {}
              /\ flows' = flows \ back
              /\ UNCHANGED netstack
        /\ UNCHANGED <<conf, snat, reader, sent>>

-----------------------------------------------------------------------------
(* Read: what the network stack forwards to a peer.                        *)

Read(m) ==
    /\ reader.pc = "idle" /\ m \in netstack
    /\ netstack' = netstack \ {m}
    /\ reader' = [Free EXCEPT !.pc = "snat", !.pkt = m.pkt, !.table = epoch]
    /\ UNCHANGED <<conf, snat, flows, recv, sent>>

needsSNAT(t, src, dst) ==
    \E s \in t.groups, d \in t.groups :
        /\ s.ip = src /\ d.ip = dst /\ s.group # d.group
        /\ [from |-> s.group, to |-> d.group] \in t.uni

Idle(t) == {p \in HubPorts : t.byPort[p] # NoFlow /\ t.age[p] > SessionIdle}

\* Mutant: the ports of ended sessions stay taken.
BugGcLeaksPorts(t) ==
    LET old == Idle(t)
    IN  [t EXCEPT !.byFlow = [f \in Flows |-> IF t.byFlow[f] \in old THEN 0 ELSE t.byFlow[f]],
                  !.byPort = [p \in HubPorts |-> IF p \in old THEN NoFlow ELSE t.byPort[p]]]

gcLocked(t) ==
    LET old == Idle(t)
    IN  [t EXCEPT !.byFlow = [f \in Flows |-> IF t.byFlow[f] \in old THEN 0 ELSE t.byFlow[f]],
                  !.byPort = [p \in HubPorts |-> IF p \in old THEN NoFlow ELSE t.byPort[p]],
                  !.age    = [p \in HubPorts |-> IF p \in old THEN 0 ELSE t.age[p]],
                  !.inUse  = t.inUse \ old]

\* Mutant: the range of ports begins too early.
BugPickable(t) == HubPorts \ (t.reserved \cup t.inUse)

\* ephemeralPortPool.pick may choose any of these.
Pickable(t) == EphemeralPorts \ (t.reserved \cup t.inUse)

\* The session of flow f on port p sends, and ended sessions go.
Translated(t, f, p) ==
    gcLocked([t EXCEPT !.byFlow[f] = p, !.byPort[p] = f,
                       !.age[p] = 0, !.inUse = @ \cup {p}])

\* ProcessEgressToWG.  Without a free port, or after 256 unlucky tries, the packet
\* leaves as it is, and so does one that needs no translation.
ProcessEgressToWG ==
    LET e == reader.table
        t == snat[e]
        f == FlowOf(reader.pkt)
        Send(p) == /\ snat' = [snat EXCEPT ![e] = Translated(t, f, p)]
                   /\ sent' = Used(e, f, p)
    IN  /\ reader.pc = "snat"
        /\ reader' = Free
        /\ \/ ~needsSNAT(t, f.client, f.server) /\ UNCHANGED <<snat, sent>>
           \/ /\ needsSNAT(t, f.client, f.server)
              /\ \/ t.byFlow[f] # 0 /\ Send(t.byFlow[f])
                 \/ t.byFlow[f] = 0 /\ \E p \in Pickable(t) : Send(p)
                 \/ t.byFlow[f] = 0 /\ UNCHANGED <<snat, sent>>
        /\ UNCHANGED <<conf, flows, recv, netstack>>

Older(age) == IF age > SessionIdle THEN age ELSE age + 1

\* Time passes, and a table that nobody points to any more is gone.
Tick ==
    /\ flows' = {[f EXCEPT !.age = Older(@)] : f \in flows}
    /\ snat' = [e \in Epochs |-> IF e # epoch /\ reader.table # e /\ \A r \in Peers : recv[r].table # e
                  THEN NewTransparentTable(NoGraph)
                  ELSE [snat[e] EXCEPT !.age = [p \in HubPorts |-> IF snat[e].byPort[p] = NoFlow
                                                              THEN 0 ELSE Older(@[p])]]]
    /\ sent' = [f \in Flows |-> IF sent[f].port = 0 \/ sent[f].age = SessionIdle
                                THEN Unsent ELSE [sent[f] EXCEPT !.age = @ + 1]]
    /\ UNCHANGED <<conf, recv, reader, netstack>>

-----------------------------------------------------------------------------
Next ==
    \/ \E g \in Graphs : ReserveHubPorts(g)
    \/ SetMapVIPs
    \/ SetAccessPolicy
    \/ \E p \in Traffic : Write(p.src, p)
    \/ \E r \in Peers : ProcessIngressFromWG(r) \/ Bypass(r) \/ ReadRules(r) \/ Track(r)
    \/ \E m \in netstack : Read(m)
    \/ ProcessEgressToWG
    \/ Tick

Spec == Init /\ [][Next]_vars

-----------------------------------------------------------------------------
(* Properties.                                                             *)

TypeOK ==
    /\ graph \in Graphs \cup {NoGraph} /\ ctl \in {"idle", "vips", "policy"}
    /\ epoch \in Epochs
    /\ mapVIPs \subseteq Addrs /\ reservedHubPorts \subseteq Listen
    /\ \A e \in Epochs :
        /\ access[e] \subseteq Addrs \X Addrs
        /\ snat[e].byFlow \in [Flows -> EphemeralPorts \cup {0}]
        /\ snat[e].byPort \in [HubPorts -> Flows \cup {NoFlow}]
        /\ snat[e].age \in [HubPorts -> 0 .. SessionIdle + 1]
        /\ snat[e].reserved \subseteq Listen /\ snat[e].inUse \subseteq EphemeralPorts
    /\ \A f \in flows : f.age \in 0 .. SessionIdle + 1 /\ f.from \in Epochs
    /\ \A r \in Peers : recv[r].pc = "idle" \/ recv[r].pkt \in Traffic
    /\ \A r \in Peers : recv[r].table \in 0 .. epoch /\ recv[r].rules \in 0 .. epoch

\* The two indexes of a table and the pool agree: no port is leaked, no flow answers
\* on another's port, whatever expires or is refreshed through a stale pointer
\* (vpn/snat/transparent.go:76-82, 129-164).
PortsOwned ==
    \A e \in Epochs : LET t == snat[e] IN
        /\ \A f \in Flows : t.byFlow[f] # 0 => t.byPort[t.byFlow[f]] = f
        /\ \A p \in HubPorts : t.byPort[p] # NoFlow => t.byFlow[t.byPort[p]] = p
        /\ t.inUse = {p \in HubPorts : t.byPort[p] # NoFlow}

\* Until SessionIdle has passed since a flow was last translated, either way, and under
\* the same policy, the hub port its server saw leads back to it, although ports are
\* given out again (vpn/snat/transparent.go:112-115, 134-164).
RepliesReturn ==
    \A f \in Flows : sent[f].port # 0
                        => snat[epoch].byPort[sent[f].port] = f

\* Between synchronisations no translated flow takes packets away from a listener of
\* the hub (vpn/tun/tun.go:58-61, vpn/ingress/doc.go:16).
ListenersFree == ctl = "idle" =>
    \A p \in reservedHubPorts : snat[epoch].byPort[p] = NoFlow

\* A policy change ends what the old policy let through, but for the one packet each
\* receive goroutine was deciding on (vpn/tun/tun.go:55-57, 115-129).
StaleBounded ==
    \A r \in Peers : Cardinality({f \in flows : f.src = r /\ f.from # epoch}) <= 1

\* "the hub SNATs return traffic so group B cannot initiate back" (README.md:132): what
\* is let back against the policy answers something.
NoInitiateBack == \A m \in netstack : m.via = "return" => m.reply
=============================================================================
