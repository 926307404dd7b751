--------------------------- MODULE TunPathProofs ---------------------------
(***************************************************************************)
(* Proofs about TunPath: its types, that the translation tables agree with *)
(* themselves, that replies find their flow, that listeners keep their     *)
(* ports and that a policy change leaves at most one stale connection per  *)
(* receive goroutine.                                                      *)
(***************************************************************************)
EXTENDS TunPath, FiniteSetTheorems, TLAPS

Stored == Graphs \cup {NoGraph}
GroupTables == {PeerGroups(g.peers) : g \in Stored}
LinkTables == {UniLinks(g.links) : g \in Stored}
Tables ==
    [groups : GroupTables, uni : LinkTables,
     byFlow : [Flows -> EphemeralPorts \cup {0}], byPort : [HubPorts -> Flows \cup {NoFlow}],
     age : [HubPorts -> 0 .. SessionIdle + 1], reserved : SUBSET Listen, inUse : SUBSET EphemeralPorts]

Ports == PeerPorts \cup HubPorts
Tracked == [src : Peers, dst : Addrs, age : 0 .. SessionIdle + 1, from : Epochs, ports : SUBSET (Ports \X Ports)]
Goroutines == [pc : {"idle", "snat", "vip", "rules", "track"}, pkt : Packets \cup {NoPacket},
               table : 0 .. epoch, rules : 0 .. epoch]

\* The types, with the records of tables, goroutines and connections.  What is to be
\* forwarded or read belongs to a flow that the tables know.
Types ==
    /\ graph \in Stored /\ ctl \in {"idle", "vips", "policy"} /\ epoch \in Epochs
    /\ access \in [Epochs -> SUBSET (Addrs \X Addrs)]
    /\ snat \in [Epochs -> Tables]
    /\ mapVIPs \subseteq Addrs /\ reservedHubPorts \subseteq Listen
    /\ flows \subseteq Tracked
    /\ recv \in [Peers -> Goroutines] /\ reader \in Goroutines
    /\ \A r \in Peers : recv[r].pc # "idle" => recv[r].pkt \in Traffic /\ recv[r].pkt.src = r
    /\ reader.pc \in {"idle", "snat"} /\ (reader.pc = "snat" => FlowOf(reader.pkt) \in Flows)
    /\ \A m \in netstack : m.pkt \in Packets /\ FlowOf(m.pkt) \in Flows
    /\ sent \in [Flows -> [port : HubPorts \cup {0}, age : 0 .. SessionIdle]]

\* One table agrees with itself.
Owned(t) ==
    /\ \A f \in Flows : t.byFlow[f] # 0 => t.byPort[t.byFlow[f]] = f
    /\ \A p \in HubPorts : t.byPort[p] # NoFlow => t.byFlow[t.byPort[p]] = p
    /\ t.inUse = {p \in HubPorts : t.byPort[p] # NoFlow}
TablesOwned == \A e \in Epochs : Owned(snat[e])

\* The listeners' ports are reserved in the table in force, and none was given out.
ListenerInv == ctl = "idle" =>
    /\ reservedHubPorts \subseteq snat[epoch].reserved
    /\ \A p \in reservedHubPorts : snat[epoch].byPort[p] = NoFlow

\* The session of a flow that was lately translated is at most as old as that.
Kept(t, f, last) == last.port # 0 => t.byPort[last.port] = f /\ t.age[last.port] <= last.age
SentInv == \A f \in Flows : Kept(snat[epoch], f, sent[f])

\* A stale connection is the last word of a goroutine that had read the old rules.
Stale(r) == {f \in flows : f.src = r /\ f.from # epoch}
StaleInv ==
    \A r \in Peers : /\ \A f, g \in Stale(r) : f = g
                     /\ recv[r].pc = "track" /\ recv[r].rules # epoch => Stale(r) = {}

TunInv == Types /\ TablesOwned /\ ListenerInv /\ SentInv /\ StaleInv

\* Both ends of a flow are peers, and what a packet or its translation belongs to is a
\* flow again.
LEMMA FlowFacts ==
    /\ \A f \in Flows : f.client \in Peers /\ f.clientPort \in Ports /\ <<f.client, f.clientPort>> \in Ends
    /\ \A p \in Traffic : p.dst \in Peers => FlowOf(p) \in Flows
    /\ \A p \in Traffic, f \in Flows :
            LET q == [p EXCEPT !.dst = f.client, !.dport = f.clientPort]
            IN  q \in Packets /\ FlowOf(q) \in Flows
<1>1. \A p \in Traffic : p.src \in Peers /\ p.sport \in Ports /\ p.dport \in Ports
    BY TunAssumption DEF Packets, Ports
<1>2. ASSUME NEW f \in Flows
      PROVE  f.client \in Peers /\ f.clientPort \in Ports /\ <<f.client, f.clientPort>> \in Ends
    BY DEF Flows, Ports
<1>3. ASSUME NEW a \in Peers, NEW i \in Ports, NEW b \in Peers, NEW j \in Ports,
             <<a, i>> \in Ends, <<b, j>> \in Ends
      PROVE  [client |-> a, clientPort |-> i, server |-> b, serverPort |-> j] \in Flows
    BY <1>3 DEF Flows, Ports
<1>4. ASSUME NEW p \in Traffic, p.dst \in Peers PROVE FlowOf(p) \in Flows
    <2>1. <<p.src, p.sport>> \in Ends /\ <<p.dst, p.dport>> \in Ends
        BY <1>4 DEF Ends
    <2> QED
        BY <1>1, <1>3, <1>4, <2>1 DEF FlowOf
<1>5. ASSUME NEW p \in Traffic, NEW f \in Flows
      PROVE  LET q == [p EXCEPT !.dst = f.client, !.dport = f.clientPort]
             IN  q \in Packets /\ FlowOf(q) \in Flows
    <2> DEFINE q == [p EXCEPT !.dst = f.client, !.dport = f.clientPort]
    <2>1. /\ q \in Packets /\ q.src = p.src /\ q.sport = p.sport /\ q.dst = f.client
          /\ q.dport = f.clientPort
        BY <1>2, TunAssumption DEF Packets, Addrs, Ports
    <2>2. <<p.src, p.sport>> \in Ends /\ <<f.client, f.clientPort>> \in Ends
        BY <1>2 DEF Ends
    <2>3. FlowOf(q) \in Flows
        BY <1>1, <1>2, <1>3, <2>1, <2>2 DEF FlowOf
    <2> QED
        BY <2>1, <2>3
<1> QED
    BY <1>2, <1>4, <1>5

\* A new table has no sessions, and tells so consistently.
LEMMA NewTable ==
    ASSUME NEW g \in Stored, NEW ports \in SUBSET Listen
    PROVE  LET t == [NewTransparentTable(g) EXCEPT !.reserved = ports]
           IN  /\ t \in Tables /\ Owned(t) /\ t.reserved = ports
               /\ \A p \in HubPorts : t.byPort[p] = NoFlow
<1> DEFINE t == [NewTransparentTable(g) EXCEPT !.reserved = ports]
<1>1. PeerGroups(g.peers) \in GroupTables /\ UniLinks(g.links) \in LinkTables /\ SessionIdle \in Nat
    BY TunAssumption DEF GroupTables, LinkTables
<1>2. t = [groups |-> PeerGroups(g.peers), uni |-> UniLinks(g.links), byFlow |-> [f \in Flows |-> 0],
           byPort |-> [p \in HubPorts |-> NoFlow], age |-> [p \in HubPorts |-> 0], reserved |-> ports,
           inUse |-> {}]
    BY DEF NewTransparentTable
<1>3. t \in Tables
    BY <1>1, <1>2 DEF Tables
<1>4. Owned(t)
    BY <1>2 DEF Owned
<1> QED
    BY <1>2, <1>3, <1>4

\* The first table of all, and what becomes of one that nobody points to.
LEMMA EmptyTable ==
    NewTransparentTable(NoGraph) \in Tables /\ Owned(NewTransparentTable(NoGraph))
    /\ NewTransparentTable(NoGraph).reserved = {}
<1>1. NewTransparentTable(NoGraph) = [NewTransparentTable(NoGraph) EXCEPT !.reserved = {}]
    BY DEF NewTransparentTable
<1> QED
    BY <1>1, NewTable, ZenonT(60) DEF Stored

\* What ages or is answered stays consistent: only ages change.
LEMMA AgedTable ==
    ASSUME NEW t \in Tables, Owned(t), NEW a \in [HubPorts -> 0 .. SessionIdle + 1]
    PROVE  LET u == [t EXCEPT !.age = a]
           IN  u \in Tables /\ Owned(u) /\ u.byPort = t.byPort /\ u.age = a /\ u.reserved = t.reserved
<1> DEFINE u == [t EXCEPT !.age = a]
<1>1. /\ u \in Tables /\ u.byPort = t.byPort /\ u.byFlow = t.byFlow /\ u.inUse = t.inUse
      /\ u.age = a /\ u.reserved = t.reserved
    BY DEF Tables
<1>2. Owned(u)
    BY <1>1 DEF Owned
<1> QED
    BY <1>1, <1>2

\* Reserving ports touches no session.
LEMMA ReservedTable ==
    ASSUME NEW t \in Tables, Owned(t), NEW ports \in SUBSET Listen
    PROVE  LET u == [t EXCEPT !.reserved = @ \cup ports]
           IN  u \in Tables /\ Owned(u) /\ u.byPort = t.byPort /\ u.age = t.age
<1> DEFINE u == [t EXCEPT !.reserved = @ \cup ports]
<1>1. /\ u \in Tables /\ u.byPort = t.byPort /\ u.byFlow = t.byFlow /\ u.inUse = t.inUse /\ u.age = t.age
    BY DEF Tables
<1>2. Owned(u)
    BY <1>1 DEF Owned
<1> QED
    BY <1>1, <1>2

\* gcLocked takes idle sessions out of both indexes and the pool.
LEMMA CollectedTable ==
    ASSUME NEW t \in Tables, Owned(t)
    PROVE  LET u == gcLocked(t)
           IN  /\ u \in Tables /\ Owned(u) /\ u.reserved = t.reserved
               /\ \A p \in HubPorts : u.byPort[p] # NoFlow => u.byPort[p] = t.byPort[p]
               /\ \A p \in HubPorts : t.byPort[p] # NoFlow /\ t.age[p] <= SessionIdle
                        => u.byPort[p] = t.byPort[p] /\ u.age[p] = t.age[p]
<1> DEFINE u == gcLocked(t)
           old == Idle(t)
<1>1. /\ t.byFlow \in [Flows -> EphemeralPorts \cup {0}] /\ t.byPort \in [HubPorts -> Flows \cup {NoFlow}]
      /\ t.age \in [HubPorts -> 0 .. SessionIdle + 1] /\ t.reserved \in SUBSET Listen
      /\ t.inUse \in SUBSET EphemeralPorts /\ SessionIdle \in Nat
      /\ EphemeralPorts \subseteq HubPorts /\ 0 \notin EphemeralPorts /\ NoFlow \notin Flows
    BY TunAssumption DEF Tables, HubPorts
<1>2. /\ u.byFlow = [f \in Flows |-> IF t.byFlow[f] \in old THEN 0 ELSE t.byFlow[f]]
      /\ u.byPort = [p \in HubPorts |-> IF p \in old THEN NoFlow ELSE t.byPort[p]]
      /\ u.age = [p \in HubPorts |-> IF p \in old THEN 0 ELSE t.age[p]]
      /\ u.inUse = t.inUse \ old /\ u.reserved = t.reserved
      /\ u.groups = t.groups /\ u.uni = t.uni
    BY DEF gcLocked, Tables
<1>3. u \in Tables
    <2>1. /\ u.byFlow \in [Flows -> EphemeralPorts \cup {0}] /\ u.byPort \in [HubPorts -> Flows \cup {NoFlow}]
          /\ u.age \in [HubPorts -> 0 .. SessionIdle + 1] /\ u.inUse \in SUBSET EphemeralPorts
        BY <1>1, <1>2
    <2>2. u = [t EXCEPT !.byFlow = u.byFlow, !.byPort = u.byPort, !.age = u.age, !.inUse = u.inUse]
        BY <1>2 DEF gcLocked
    <2> HIDE DEF u
    <2> QED
        BY <2>1, <2>2 DEF Tables
<1>4. \A p \in old : p \in HubPorts /\ t.byPort[p] # NoFlow /\ t.age[p] > SessionIdle
    BY DEF Idle
<1>5. Owned(u)
    <2> HIDE DEF u, old
    <2>1. ASSUME NEW f \in Flows, u.byFlow[f] # 0 PROVE u.byPort[u.byFlow[f]] = f
        BY <1>1, <1>2, <2>1 DEF Owned
    <2>2. ASSUME NEW p \in HubPorts, u.byPort[p] # NoFlow PROVE u.byFlow[u.byPort[p]] = p
        BY <1>1, <1>2, <2>2 DEF Owned
    <2>3. u.inUse = {p \in HubPorts : u.byPort[p] # NoFlow}
        BY <1>1, <1>2, <1>4 DEF Owned
    <2> QED
        BY <2>1, <2>2, <2>3 DEF Owned
<1>6. \A p \in HubPorts : u.byPort[p] # NoFlow => u.byPort[p] = t.byPort[p]
    BY <1>2
<1>7. ASSUME NEW p \in HubPorts, t.byPort[p] # NoFlow, t.age[p] <= SessionIdle
      PROVE  u.byPort[p] = t.byPort[p] /\ u.age[p] = t.age[p]
    <2>1. p \notin old
        BY <1>1, <1>4, <1>7
    <2> QED
        BY <1>2, <2>1
<1> QED
    BY <1>2, <1>3, <1>5, <1>6, <1>7

\* The ports a flow may be sent from: its own, or one that is neither taken nor a
\* listener's when it has none.
Usable(t, f) == IF t.byFlow[f] # 0 THEN {t.byFlow[f]} ELSE Pickable(t)

\* A flow that is translated owns its port, and nobody loses theirs before it is idle.
LEMMA TranslatedTable ==
    ASSUME NEW t \in Tables, Owned(t), NEW f \in Flows, NEW p \in Usable(t, f)
    PROVE  LET u == Translated(t, f, p)
           IN  /\ u \in Tables /\ Owned(u) /\ u.reserved = t.reserved /\ p \in HubPorts
               /\ u.byPort[p] = f /\ u.age[p] = 0
               /\ \A q \in HubPorts \ {p} : u.byPort[q] # NoFlow => u.byPort[q] = t.byPort[q]
               /\ \A q \in HubPorts : t.byPort[q] # NoFlow /\ t.byPort[q] # f /\ t.age[q] <= SessionIdle
                        => u.byPort[q] = t.byPort[q] /\ u.age[q] = t.age[q]
               /\ t.byPort[p] \in {f, NoFlow}
               /\ t.byPort[p] = NoFlow => p \notin t.reserved
<1> DEFINE v == [t EXCEPT !.byFlow[f] = p, !.byPort[p] = f, !.age[p] = 0, !.inUse = @ \cup {p}]
<1>1. /\ t.byFlow \in [Flows -> EphemeralPorts \cup {0}] /\ t.byPort \in [HubPorts -> Flows \cup {NoFlow}]
      /\ t.age \in [HubPorts -> 0 .. SessionIdle + 1] /\ t.reserved \in SUBSET Listen
      /\ t.inUse \in SUBSET EphemeralPorts /\ SessionIdle \in Nat
      /\ EphemeralPorts \subseteq HubPorts /\ 0 \notin EphemeralPorts /\ NoFlow \notin Flows
    BY TunAssumption DEF Tables, HubPorts
<1>2. /\ p \in EphemeralPorts /\ t.byPort[p] \in {f, NoFlow} /\ (t.byPort[p] = NoFlow => p \notin t.reserved)
      /\ t.byFlow[f] \in {0, p}
    BY <1>1 DEF Usable, Pickable, Owned
<1>3. /\ v.byFlow = [t.byFlow EXCEPT ![f] = p] /\ v.byPort = [t.byPort EXCEPT ![p] = f]
      /\ v.age = [t.age EXCEPT ![p] = 0] /\ v.inUse = t.inUse \cup {p} /\ v.reserved = t.reserved
      /\ v.groups = t.groups /\ v.uni = t.uni
    BY <1>1, <1>2 DEF Tables
<1>4. v \in Tables
    <2>1. /\ v.byFlow \in [Flows -> EphemeralPorts \cup {0}] /\ v.byPort \in [HubPorts -> Flows \cup {NoFlow}]
          /\ v.age \in [HubPorts -> 0 .. SessionIdle + 1] /\ v.inUse \in SUBSET EphemeralPorts
        BY <1>1, <1>2, <1>3
    <2>2. v = [t EXCEPT !.byFlow = v.byFlow, !.byPort = v.byPort, !.age = v.age, !.inUse = v.inUse]
        BY <1>3 DEF Tables
    <2> HIDE DEF v
    <2> QED
        BY <2>1, <2>2 DEF Tables
<1>5. Owned(v)
    <2> HIDE DEF v
    <2>1. ASSUME NEW g \in Flows, v.byFlow[g] # 0 PROVE v.byPort[v.byFlow[g]] = g
        BY <1>1, <1>2, <1>3, <2>1 DEF Owned
    <2>2. ASSUME NEW q \in HubPorts, v.byPort[q] # NoFlow PROVE v.byFlow[v.byPort[q]] = q
        BY <1>1, <1>2, <1>3, <2>2 DEF Owned
    <2>3. v.inUse = {q \in HubPorts : v.byPort[q] # NoFlow}
        BY <1>1, <1>2, <1>3 DEF Owned
    <2> QED
        BY <2>1, <2>2, <2>3 DEF Owned
<1>6. Translated(t, f, p) = gcLocked(v)
    BY DEF Translated
<1> HIDE DEF v
<1>7. p \in HubPorts /\ v.byPort[p] = f /\ v.age[p] = 0 /\ \A q \in HubPorts \ {p} : v.byPort[q] = t.byPort[q]
            /\ v.age[q] = t.age[q]
    BY <1>1, <1>2, <1>3
<1> QED
    BY <1>1, <1>2, <1>3, <1>4, <1>5, <1>6, <1>7, CollectedTable

\* The types say what TypeOK says.
LEMMA TypesFromInv == Types => TypeOK
<1> SUFFICES ASSUME Types PROVE TypeOK
    OBVIOUS
<1>1. ASSUME NEW e \in Epochs
      PROVE  /\ access[e] \subseteq Addrs \X Addrs
             /\ snat[e].byFlow \in [Flows -> EphemeralPorts \cup {0}]
             /\ snat[e].byPort \in [HubPorts -> Flows \cup {NoFlow}]
             /\ snat[e].age \in [HubPorts -> 0 .. SessionIdle + 1]
             /\ snat[e].reserved \subseteq Listen /\ snat[e].inUse \subseteq EphemeralPorts
    BY DEF Types, Tables
<1>2. \A f \in flows : f.age \in 0 .. SessionIdle + 1 /\ f.from \in Epochs
    BY DEF Types, Tracked
<1>3. ASSUME NEW r \in Peers
      PROVE  (recv[r].pc = "idle" \/ recv[r].pkt \in Traffic) /\ recv[r].table \in 0 .. epoch
             /\ recv[r].rules \in 0 .. epoch
    BY DEF Types, Goroutines
<1> QED
    BY <1>1, <1>2, <1>3 DEF Types, TypeOK, Stored

\* The indexes of all tables agree.
LEMMA PortsFromInv == TablesOwned => PortsOwned
BY DEF TablesOwned, Owned, PortsOwned

\* A recent port leads back to its flow.
LEMMA RepliesFromInv == SentInv => RepliesReturn
BY DEF SentInv, Kept, RepliesReturn

\* A listener's port has no session.
LEMMA ListenersFromInv == ListenerInv => ListenersFree
BY DEF ListenerInv, ListenersFree

\* Two stale connections of a peer would be the same.
LEMMA StaleFromInv == StaleInv => StaleBounded
<1> SUFFICES ASSUME StaleInv, NEW r \in Peers
             PROVE  Cardinality({f \in flows : f.src = r /\ f.from # epoch}) <= 1
    BY DEF StaleBounded
<1>1. CASE Stale(r) = {}
    BY <1>1, FS_EmptySet DEF Stale
<1>2. CASE Stale(r) # {}
    <2>1. PICK f \in Stale(r) : TRUE
        BY <1>2
    <2>2. Stale(r) = {f}
        BY <2>1 DEF StaleInv
    <2>3. Cardinality(Stale(r)) = 1
        BY <2>2, FS_Singleton
    <2> QED
        BY <2>3 DEF Stale
<1> QED
    BY <1>1, <1>2

\* What no goroutine does and what was not sent is of its type.
LEMMA RestFacts ==
    ASSUME epoch \in Nat
    PROVE  /\ Free \in Goroutines /\ Free.pc = "idle" /\ Free.rules = 0 /\ SessionIdle \in Nat
           /\ Unsent \in [port : HubPorts \cup {0}, age : 0 .. SessionIdle] /\ Unsent.port = 0
           /\ Epochs \subseteq Nat
BY TunAssumption DEF Free, Goroutines, Unsent, Epochs

\* A hub that has seen no policy and no packet.
LEMMA TunInit == Init => TunInv
<1> SUFFICES ASSUME Init PROVE TunInv
    OBVIOUS
<1>0. epoch = 0 /\ epoch \in Nat /\ 0 \in Epochs
    BY TunAssumption DEF Init, Epochs
<1>1. Types
    BY <1>0, EmptyTable, RestFacts DEF Init, Types, Stored
<1>2. TablesOwned
    BY EmptyTable DEF Init, TablesOwned
<1>3. ListenerInv /\ SentInv /\ StaleInv
    BY <1>0, RestFacts DEF Init, ListenerInv, SentInv, Kept, StaleInv, Stale
<1> QED
    BY <1>1, <1>2, <1>3 DEF TunInv

\* The step of a receive goroutine keeps the types if what it hands on has them.
Forwarded(m) == m.pkt \in Packets /\ FlowOf(m.pkt) \in Flows
LEMMA ReceiveStep ==
    ASSUME Types, UNCHANGED <<conf, reader>>, NEW r \in Peers, NEW g \in Goroutines,
           g.pc # "idle" => g.pkt \in Traffic /\ g.pkt.src = r,
           recv' = [recv EXCEPT ![r] = g],
           snat' \in [Epochs -> Tables], flows' \subseteq Tracked,
           \A m \in netstack' : m \in netstack \/ Forwarded(m),
           sent' \in [Flows -> [port : HubPorts \cup {0}, age : 0 .. SessionIdle]]
    PROVE  Types'
<1>1. /\ graph' = graph /\ ctl' = ctl /\ epoch' = epoch /\ access' = access /\ mapVIPs' = mapVIPs
      /\ reservedHubPorts' = reservedHubPorts /\ reader' = reader
    BY DEF conf
<1>2. recv \in [Peers -> Goroutines] /\ Goroutines' = Goroutines
    BY <1>1 DEF Types, Goroutines
<1>3. recv' \in [Peers -> Goroutines]
    BY <1>2
<1>4. \A q \in Peers : recv'[q].pc # "idle" => recv'[q].pkt \in Traffic /\ recv'[q].pkt.src = q
    BY <1>2 DEF Types
<1>5. \A m \in netstack' : m.pkt \in Packets /\ FlowOf(m.pkt) \in Flows
    BY DEF Types, Forwarded
<1> QED
    BY <1>1, <1>2, <1>3, <1>4, <1>5 DEF Types

\* A step that replaces table e: the others are left alone, listeners keep their ports
\* and, in the table in force, so do the flows that were lately sent.
LEMMA TableStep ==
    ASSUME Types, TablesOwned, ListenerInv, SentInv, UNCHANGED conf,
           NEW e \in Epochs, NEW u \in Tables, Owned(u), snat' = [snat EXCEPT ![e] = u],
           u.reserved = snat[e].reserved,
           \A p \in HubPorts : u.byPort[p] # NoFlow =>
                u.byPort[p] = snat[e].byPort[p] \/ p \notin snat[e].reserved,
           e # epoch => UNCHANGED sent,
           e = epoch => \A f \in Flows : Kept(u, f, sent'[f])
    PROVE  TablesOwned' /\ ListenerInv' /\ SentInv' /\ snat' \in [Epochs -> Tables]
<1>1. ctl' = ctl /\ epoch' = epoch /\ reservedHubPorts' = reservedHubPorts
    BY DEF conf
<1>2. /\ snat \in [Epochs -> Tables] /\ epoch \in Epochs /\ reservedHubPorts \subseteq HubPorts
      /\ snat'[e] = u /\ \A d \in Epochs \ {e} : snat'[d] = snat[d]
    BY DEF Types, HubPorts
<1>3. TablesOwned'
    <2>1. \A d \in Epochs : Owned(snat'[d])
        BY <1>2 DEF TablesOwned
    <2> QED
        BY <2>1 DEF TablesOwned, Owned
<1>4. ListenerInv'
    BY <1>1, <1>2 DEF ListenerInv
<1>5. SentInv'
    <2>1. CASE e = epoch
        BY <1>1, <1>2, <2>1 DEF SentInv, Kept
    <2>2. CASE e # epoch
        BY <1>1, <1>2, <2>2 DEF SentInv, Kept
    <2> QED
        BY <2>1, <2>2
<1>6. snat' \in [Epochs -> Tables]
    BY <1>2
<1> QED
    BY <1>3, <1>4, <1>5, <1>6

\* Steps that touch no table.
LEMMA NoTableStep ==
    ASSUME TablesOwned, ListenerInv, SentInv, UNCHANGED <<conf, snat, sent>>
    PROVE  TablesOwned' /\ ListenerInv' /\ SentInv'
BY DEF TablesOwned, Owned, ListenerInv, SentInv, Kept, conf

\* A goroutine that leaves the rules it holds, or drops them, makes nothing stale.
LEMMA NoStaleStep ==
    ASSUME StaleInv, epoch' = epoch, flows' \subseteq flows,
           \A r \in Peers : recv'[r].pc = "track" => \/ recv'[r].rules = epoch
                                                     \/ recv'[r] = recv[r]
    PROVE  StaleInv'
<1>1. \A r \in Peers : Stale(r)' \subseteq Stale(r)
    BY DEF Stale
<1> QED
    BY <1>1 DEF StaleInv

\* What a receive goroutine hands to the network stack is forwarded only to peers.
LEMMA DeliverFacts ==
    ASSUME NEW p \in Packets, NEW via, NEW reply, Deliver(p, via, reply), p.dst \in Peers => FlowOf(p) \in Flows
    PROVE  \A m \in netstack' : m \in netstack \/ Forwarded(m)
BY DEF Deliver, Forwarded

\* Write, the filter's bypass and the reading of the rules.
LEMMA FilterNext ==
    ASSUME TunInv, NEW r \in Peers,
           (\E p \in Traffic : Write(r, p)) \/ Bypass(r) \/ ReadRules(r)
    PROVE  TunInv'
<1> USE DEF TunInv
<1>1. /\ recv \in [Peers -> Goroutines] /\ recv[r] \in Goroutines /\ epoch \in 0 .. epoch /\ epoch \in Nat
      /\ recv[r].pc # "idle" => recv[r].pkt \in Traffic /\ recv[r].pkt.src = r
      /\ snat \in [Epochs -> Tables] /\ flows \subseteq Tracked
      /\ sent \in [Flows -> [port : HubPorts \cup {0}, age : 0 .. SessionIdle]]
    BY TunAssumption DEF Types, Epochs
<1>2. UNCHANGED <<conf, snat, flows, reader, sent>> /\ epoch' = epoch
    BY DEF Write, Bypass, ReadRules, conf
<1>3. TablesOwned' /\ ListenerInv' /\ SentInv'
    BY <1>2, NoTableStep
<1>4. ASSUME NEW p \in Traffic, Write(r, p) PROVE Types' /\ StaleInv'
    <2> DEFINE g == [Free EXCEPT !.pc = "snat", !.pkt = p, !.table = epoch]
    <2>1. g \in Goroutines /\ g.pc = "snat" /\ g.pkt = p
        <3>1. p \in Packets /\ Free \in Goroutines
            BY <1>1, RestFacts, TunAssumption
        <3> QED
            BY <1>1, <3>1 DEF Goroutines
    <2>2. recv' = [recv EXCEPT ![r] = g] /\ netstack' = netstack /\ p.src = r
        BY <1>4 DEF Write
    <2>3. Types'
        BY <1>1, <1>2, <2>1, <2>2, ReceiveStep
    <2>4. StaleInv'
        BY <1>1, <1>2, <2>1, <2>2, NoStaleStep
    <2> QED
        BY <2>3, <2>4
<1>5. CASE Bypass(r)
    <2>1. recv[r].pc = "vip" /\ recv[r].pkt \in Traffic /\ recv[r].pkt \in Packets
        BY <1>1, <1>5, TunAssumption DEF Bypass
    <2>2. \A m \in netstack' : m \in netstack \/ Forwarded(m)
        BY <1>5, <2>1, DeliverFacts, FlowFacts DEF Bypass
    <2>3. CASE recv' = [recv EXCEPT ![r] = Free]
        <3>1. Types'
            BY <1>1, <1>2, <2>2, <2>3, RestFacts, ReceiveStep
        <3>2. StaleInv'
            BY <1>1, <1>2, <2>3, RestFacts, NoStaleStep
        <3> QED
            BY <1>3, <3>1, <3>2
    <2>4. CASE recv' = [recv EXCEPT ![r].pc = "rules"]
        <3> DEFINE g == [recv[r] EXCEPT !.pc = "rules"]
        <3>1. g \in Goroutines /\ g.pc = "rules" /\ g.pkt = recv[r].pkt
            BY <1>1 DEF Goroutines
        <3>2. recv' = [recv EXCEPT ![r] = g]
            BY <2>4
        <3>3. Types'
            BY <1>1, <1>2, <2>1, <2>2, <3>1, <3>2, ReceiveStep
        <3>4. StaleInv'
            BY <1>1, <1>2, <3>1, <3>2, NoStaleStep
        <3> QED
            BY <1>3, <3>3, <3>4
    <2> QED
        BY <1>5, <2>3, <2>4 DEF Bypass
<1>6. CASE ReadRules(r)
    <2> DEFINE g == [recv[r] EXCEPT !.pc = "track", !.rules = epoch]
    <2>1. g \in Goroutines /\ g.pc = "track" /\ g.pkt = recv[r].pkt /\ g.rules = epoch
        BY <1>1 DEF Goroutines
    <2>2. recv' = [recv EXCEPT ![r] = g] /\ netstack' = netstack /\ recv[r].pc = "rules"
        BY <1>1, <1>6 DEF ReadRules
    <2>3. Types'
        BY <1>1, <1>2, <2>1, <2>2, ReceiveStep
    <2>4. StaleInv'
        BY <1>1, <1>2, <2>1, <2>2, NoStaleStep
    <2> QED
        BY <1>3, <2>3, <2>4
<1> QED
    BY <1>3, <1>4, <1>5, <1>6

\* What connTrack holds after remember: the pair's entry of rules e, and what it held.
LEMMA RememberFacts ==
    ASSUME Types, NEW p \in Packets, NEW e \in Epochs
    PROVE  /\ remember(p, e) \subseteq Tracked
           /\ \E new \in Tracked : /\ new.src = p.src /\ new.from = e
                                   /\ remember(p, e) \subseteq flows \cup {new}
<1> DEFINE ports == {<<p.sport, p.dport>>} \cup UNION {f.ports : f \in Pair(p.src, p.dst)}
           new == [src |-> p.src, dst |-> p.dst, age |-> 0, from |-> e, ports |-> ports]
<1>1. \A f \in Pair(p.src, p.dst) : f.ports \subseteq Ports \X Ports
    BY DEF Pair, Types, Tracked
<1>2. p.src \in Peers /\ p.dst \in Addrs /\ p.sport \in Ports /\ p.dport \in Ports /\ SessionIdle \in Nat
    BY TunAssumption DEF Packets, Ports
<1>3. ports \in SUBSET (Ports \X Ports)
    BY <1>1, <1>2
<1>4. new \in Tracked /\ new.src = p.src /\ new.from = e
    <2> HIDE DEF ports
    <2> QED
        BY <1>2, <1>3 DEF Tracked
<1>5. remember(p, e) = Live(flows \ Pair(p.src, p.dst)) \cup {new}
    BY DEF remember
<1>6. Live(flows \ Pair(p.src, p.dst)) \subseteq flows
    BY DEF Live
<1> HIDE DEF new
<1> QED
    BY <1>4, <1>5, <1>6 DEF Types

\* Track: a goroutine enters a connection by the rules it read; if they are no longer in
\* force it had none entered so, and is done with them.
LEMMA TrackNext ==
    ASSUME TunInv, NEW r \in Peers, Track(r)
    PROVE  TunInv'
<1> USE DEF TunInv
<1>1. /\ recv \in [Peers -> Goroutines] /\ epoch \in Nat /\ recv[r].pc = "track"
      /\ recv[r].pkt \in Traffic /\ recv[r].pkt.src = r /\ recv[r].rules \in Epochs
      /\ snat \in [Epochs -> Tables] /\ flows \subseteq Tracked
      /\ sent \in [Flows -> [port : HubPorts \cup {0}, age : 0 .. SessionIdle]]
    BY TunAssumption DEF Types, Epochs, Track, Goroutines
<1>2. /\ UNCHANGED <<conf, snat, reader, sent>> /\ epoch' = epoch /\ recv' = [recv EXCEPT ![r] = Free]
      /\ recv[r].pkt \in Packets
    BY <1>1, TunAssumption DEF Track, conf
<1>3. TablesOwned' /\ ListenerInv' /\ SentInv'
    BY <1>2, NoTableStep
<1>4. \A m \in netstack' : m \in netstack \/ Forwarded(m)
    BY <1>1, <1>2, DeliverFacts, FlowFacts DEF Track
<1>5. Free \in Goroutines /\ Free.pc = "idle"
    BY <1>1, RestFacts
<1>6. flows' \subseteq Tracked
    <2>1. remember(recv[r].pkt, recv[r].rules) \subseteq Tracked
        BY <1>1, <1>2, RememberFacts
    <2>2. flows' \subseteq flows \/ flows' = remember(recv[r].pkt, recv[r].rules)
        BY DEF Track
    <2> QED
        BY <1>1, <2>1, <2>2
<1>7. Types'
    BY <1>1, <1>2, <1>4, <1>5, <1>6, ReceiveStep
<1>8. StaleInv'
    <2>1. CASE flows' \subseteq flows
        BY <1>1, <1>2, <1>5, <2>1, NoStaleStep
    <2>2. CASE flows' = remember(recv[r].pkt, recv[r].rules)
        <3>1. PICK new \in Tracked : /\ new.src = r /\ new.from = recv[r].rules
                                     /\ flows' \subseteq flows \cup {new}
            BY <1>1, <1>2, <2>2, RememberFacts
        <3>2. ASSUME NEW q \in Peers
              PROVE  /\ \A f, g \in Stale(q)' : f = g
                     /\ recv'[q].pc = "track" /\ recv'[q].rules # epoch' => Stale(q)' = {}
            <4>1. CASE q # r \/ recv[r].rules = epoch
                <5>1. Stale(q)' \subseteq Stale(q)
                    BY <1>2, <3>1, <4>1 DEF Stale
                <5>2. recv'[q].pc = "track" => recv'[q] = recv[q]
                    BY <1>1, <1>2, <1>5
                <5> QED
                    BY <1>2, <5>1, <5>2 DEF StaleInv
            <4>2. CASE q = r /\ recv[r].rules # epoch
                <5>1. Stale(q) = {}
                    BY <1>1, <4>2 DEF StaleInv
                <5>2. Stale(q)' \subseteq {new}
                    BY <1>2, <3>1, <5>1 DEF Stale
                <5>3. recv'[q].pc # "track"
                    BY <1>1, <1>2, <1>5, <4>2
                <5> QED
                    BY <5>2, <5>3
            <4> QED
                BY <4>1, <4>2
        <3> QED
            BY <3>2 DEF StaleInv
    <2> QED
        BY <2>1, <2>2 DEF Track
<1> QED
    BY <1>3, <1>7, <1>8

\* What is remembered as sent has its type.
LEMMA UsedTypes ==
    ASSUME Types, NEW e, NEW f \in Flows, NEW p \in HubPorts
    PROVE  Used(e, f, p) \in [Flows -> [port : HubPorts \cup {0}, age : 0 .. SessionIdle]]
<1>1. [port |-> p, age |-> 0] \in [port : HubPorts \cup {0}, age : 0 .. SessionIdle]
    BY TunAssumption
<1> QED
    BY <1>1 DEF Used, Types

\* A reply: its session is young again, whichever table the goroutine had read.
LEMMA IngressNext ==
    ASSUME TunInv, NEW r \in Peers, ProcessIngressFromWG(r)
    PROVE  TunInv'
<1> USE DEF TunInv
<1> DEFINE e == recv[r].table
           p == recv[r].pkt
           f == IF p.dst = Hub /\ p.dport \in HubPorts THEN snat[e].byPort[p.dport] ELSE NoFlow
<1>1. /\ recv \in [Peers -> Goroutines] /\ recv[r] \in Goroutines /\ epoch \in Nat /\ epoch \in Epochs
      /\ recv[r].pc = "snat" /\ p \in Traffic /\ p.src = r /\ SessionIdle \in Nat
      /\ snat \in [Epochs -> Tables] /\ flows \subseteq Tracked
      /\ sent \in [Flows -> [port : HubPorts \cup {0}, age : 0 .. SessionIdle]]
    BY TunAssumption, SMTT(30) DEF Types, Epochs, ProcessIngressFromWG
<1>2. e \in Epochs /\ snat[e] \in Tables /\ Owned(snat[e])
    <2>1. e \in 0 .. epoch
        BY <1>1 DEF Goroutines
    <2>2. e \in Epochs
        BY <1>1, <2>1, TunAssumption DEF Epochs
    <2> QED
        BY <1>1, <2>2 DEF TablesOwned
<1>3. UNCHANGED <<conf, flows, reader>> /\ epoch' = epoch
    BY DEF ProcessIngressFromWG, conf
<1>4. StaleInv'
    <2>1. \A q \in Peers : recv'[q].pc = "track" => recv'[q] = recv[q]
        <3>1. recv' = [recv EXCEPT ![r] = Free] \/ recv' = [recv EXCEPT ![r].pc = "vip"]
            BY DEF ProcessIngressFromWG
        <3>2. recv'[r].pc # "track" /\ \A q \in Peers \ {r} : recv'[q] = recv[q]
            BY <1>1, <3>1, RestFacts DEF Goroutines
        <3> QED
            BY <3>2
    <2> QED
        BY <1>3, <2>1, NoStaleStep
<1>5. CASE f = NoFlow
    <2> DEFINE g == [recv[r] EXCEPT !.pc = "vip"]
    <2>1. recv' = [recv EXCEPT ![r] = g] /\ UNCHANGED <<snat, sent, netstack>>
        BY <1>5 DEF ProcessIngressFromWG
    <2>2. g \in Goroutines /\ g.pkt = p
        BY <1>1 DEF Goroutines
    <2>3. Types'
        BY <1>1, <1>3, <2>1, <2>2, ReceiveStep
    <2>4. TablesOwned' /\ ListenerInv' /\ SentInv'
        BY <1>3, <2>1, NoTableStep
    <2> QED
        BY <1>4, <2>3, <2>4
<1>6. CASE f # NoFlow
    <2> DEFINE a == [snat[e].age EXCEPT ![p.dport] = 0]
               u == [snat[e] EXCEPT !.age = a]
    <2>1. p.dport \in HubPorts /\ f = snat[e].byPort[p.dport] /\ f \in Flows
        BY <1>2, <1>6 DEF Tables
    <2>2. /\ snat' = Answered(e, p.dport) /\ sent' = Used(e, f, p.dport) /\ recv' = [recv EXCEPT ![r] = Free]
          /\ Deliver([p EXCEPT !.dst = f.client, !.dport = f.clientPort], "snat", TRUE)
        BY <1>6 DEF ProcessIngressFromWG
    <2>3. snat[e].age \in [HubPorts -> 0 .. SessionIdle + 1] /\ a \in [HubPorts -> 0 .. SessionIdle + 1]
        BY <1>1, <1>2, <2>1, SMTT(30) DEF Tables
    <2>4. u \in Tables /\ Owned(u) /\ u.byPort = snat[e].byPort /\ u.age = a /\ u.reserved = snat[e].reserved
        BY <1>2, <2>3, AgedTable
    <2>5. snat' = [snat EXCEPT ![e] = u]
        BY <1>1, <1>2, <2>2 DEF Answered, Tables
    <2> HIDE DEF f, u
    <2>6. ASSUME e = epoch, NEW d \in Flows PROVE Kept(u, d, sent'[d])
        <3>1. sent' = [sent EXCEPT ![f] = [port |-> p.dport, age |-> 0]]
            BY <2>2, <2>6 DEF Used
        <3>2. CASE d = f
            <4>1. sent'[d].port = p.dport /\ sent'[d].age = 0
                BY <1>1, <3>1, <3>2
            <4>2. a[p.dport] = 0
                BY <2>1, <2>3
            <4> HIDE DEF a
            <4> QED
                BY <2>1, <2>4, <3>2, <4>1, <4>2, SMTT(30) DEF Kept
        <3>3. CASE d # f
            <4>1. sent'[d] = sent[d] /\ Kept(snat[e], d, sent[d])
                BY <1>1, <2>6, <3>1, <3>3 DEF SentInv
            <4>2. sent[d].port # 0 => sent[d].port \in HubPorts /\ a[sent[d].port] <= snat[e].age[sent[d].port]
                BY <1>1, <2>1, <2>3
            <4>3. sent[d].age \in Nat
                BY <1>1
            <4>4. sent[d].port # 0 => a[sent[d].port] \in Nat /\ snat[e].age[sent[d].port] \in Nat
                BY <2>3, <4>2
            <4> QED
                BY <2>4, <4>1, <4>2, <4>3, <4>4 DEF Kept
        <3> QED
            BY <3>2, <3>3
    <2>7. TablesOwned' /\ ListenerInv' /\ SentInv' /\ snat' \in [Epochs -> Tables]
        <3>1. e # epoch => UNCHANGED sent
            BY <2>2 DEF Used
        <3> QED
            BY <1>2, <1>3, <2>4, <2>5, <2>6, <3>1, TableStep
    <2>8. sent' \in [Flows -> [port : HubPorts \cup {0}, age : 0 .. SessionIdle]]
        BY <2>1, <2>2, UsedTypes
    <2>9. \A m \in netstack' : m \in netstack \/ Forwarded(m)
        BY <1>1, <2>1, <2>2, FlowFacts, DeliverFacts
    <2>10. Types'
        BY <1>1, <1>3, <2>2, <2>7, <2>8, <2>9, RestFacts, ReceiveStep
    <2> QED
        BY <1>4, <2>7, <2>10
<1> QED
    BY <1>5, <1>6

\* The reader's steps.  A flow is sent from its own port or a free one, and sessions
\* that end with it were idle.
LEMMA ReaderNext ==
    ASSUME TunInv, ProcessEgressToWG \/ \E m \in netstack : Read(m)
    PROVE  TunInv'
<1> USE DEF TunInv
<1>1. /\ epoch \in Nat /\ epoch \in Epochs /\ reader \in Goroutines /\ SessionIdle \in Nat
      /\ snat \in [Epochs -> Tables] /\ MaxEpoch \in Nat /\ epoch \in 0 .. epoch
      /\ sent \in [Flows -> [port : HubPorts \cup {0}, age : 0 .. SessionIdle]]
    BY TunAssumption DEF Types, Epochs
<1>2. UNCHANGED <<conf, flows, recv>> /\ epoch' = epoch
    BY DEF ProcessEgressToWG, Read, conf
<1>3. StaleInv'
    BY <1>2, NoStaleStep
<1>4. ASSUME NEW g \in Goroutines, reader' = g, g.pc \in {"idle", "snat"},
             g.pc = "snat" => FlowOf(g.pkt) \in Flows, netstack' \subseteq netstack,
             snat' \in [Epochs -> Tables],
             sent' \in [Flows -> [port : HubPorts \cup {0}, age : 0 .. SessionIdle]]
      PROVE  Types'
    <2>1. Goroutines' = Goroutines
        BY <1>2 DEF Goroutines
    <2> QED
        BY <1>2, <1>4, <2>1 DEF Types, conf
<1>5. ASSUME NEW m \in netstack, Read(m) PROVE TunInv'
    <2> DEFINE g == [Free EXCEPT !.pc = "snat", !.pkt = m.pkt, !.table = epoch]
    <2>1. m.pkt \in Packets /\ FlowOf(m.pkt) \in Flows
        BY DEF Types
    <2>2. g \in Goroutines /\ g.pc = "snat" /\ g.pkt = m.pkt
        BY <1>1, <2>1, RestFacts DEF Goroutines
    <2>3. reader' = g /\ netstack' \subseteq netstack /\ UNCHANGED <<snat, sent>>
        BY <1>5 DEF Read
    <2>4. Types'
        BY <1>1, <1>4, <2>1, <2>2, <2>3
    <2> QED
        BY <1>2, <1>3, <2>3, <2>4, NoTableStep
<1>6. CASE ProcessEgressToWG
    <2> DEFINE e == reader.table
               t == snat[e]
               f == FlowOf(reader.pkt)
    <2>1. f \in Flows /\ reader.pc = "snat" /\ reader' = Free /\ netstack' = netstack
        BY <1>6 DEF Types, ProcessEgressToWG
    <2>2. e \in 0 .. epoch
        BY <1>1 DEF Goroutines
    <2>3. e \in Epochs
        BY <1>1, <2>2 DEF Epochs
    <2>4. t \in Tables /\ Owned(t)
        BY <1>1, <2>3 DEF TablesOwned
    <2>5. Free \in Goroutines /\ Free.pc = "idle"
        BY <1>1, RestFacts
    <2>6. CASE UNCHANGED <<snat, sent>>
        <3>1. Types'
            BY <1>1, <1>4, <2>1, <2>5, <2>6
        <3> QED
            BY <1>2, <1>3, <2>6, <3>1, NoTableStep
    <2>7. ASSUME NEW p \in Usable(t, f), snat' = [snat EXCEPT ![e] = Translated(t, f, p)], sent' = Used(e, f, p)
          PROVE  TunInv'
        <3> DEFINE u == Translated(t, f, p)
        <3>1. /\ u \in Tables /\ Owned(u) /\ u.reserved = t.reserved /\ p \in HubPorts
              /\ u.byPort[p] = f /\ u.age[p] = 0
              /\ \A q \in HubPorts \ {p} : u.byPort[q] # NoFlow => u.byPort[q] = t.byPort[q]
              /\ \A q \in HubPorts : t.byPort[q] # NoFlow /\ t.byPort[q] # f /\ t.age[q] <= SessionIdle
                        => u.byPort[q] = t.byPort[q] /\ u.age[q] = t.age[q]
              /\ t.byPort[p] \in {f, NoFlow}
              /\ t.byPort[p] = NoFlow => p \notin t.reserved
            BY <2>1, <2>4, TranslatedTable
        <3> HIDE DEF u
        <3>2. \A q \in HubPorts : u.byPort[q] # NoFlow => u.byPort[q] = t.byPort[q] \/ q \notin t.reserved
            BY <3>1
        <3>3. ASSUME e = epoch, NEW d \in Flows PROVE Kept(u, d, sent'[d])
            <4>1. sent' = [sent EXCEPT ![f] = [port |-> p, age |-> 0]]
                BY <2>7, <3>3 DEF Used
            <4>2. CASE d = f
                <5>1. sent'[d].port = p /\ sent'[d].age = 0
                    BY <1>1, <4>1, <4>2
                <5> QED
                    BY <3>1, <4>2, <5>1 DEF Kept
            <4>3. CASE d # f
                <5>1. sent'[d] = sent[d] /\ Kept(t, d, sent[d])
                    BY <1>1, <3>3, <4>1, <4>3 DEF SentInv
                <5>2. /\ sent[d].age \in 0 .. SessionIdle /\ sent[d].port \in HubPorts \cup {0}
                      /\ t.age \in [HubPorts -> 0 .. SessionIdle + 1]
                    BY <1>1, <2>4 DEF Tables
                <5>3. d # NoFlow
                    BY TunAssumption
                <5>4. ASSUME sent[d].port # 0
                      PROVE  t.byPort[sent[d].port] = d /\ t.age[sent[d].port] <= SessionIdle
                             /\ t.age[sent[d].port] <= sent[d].age
                    BY <1>1, <5>1, <5>2, <5>4 DEF Kept
                <5> QED
                    BY <3>1, <4>3, <5>1, <5>2, <5>3, <5>4 DEF Kept
            <4> QED
                BY <4>2, <4>3
        <3>4. e # epoch => UNCHANGED sent
            BY <2>7 DEF Used
        <3>5. TablesOwned' /\ ListenerInv' /\ SentInv' /\ snat' \in [Epochs -> Tables]
            <4>1. snat' = [snat EXCEPT ![e] = u]
                BY <2>7 DEF u
            <4> QED
                BY <1>2, <2>3, <3>1, <3>2, <3>3, <3>4, <4>1, TableStep
        <3>6. Types'
            BY <1>4, <2>1, <2>5, <2>7, <3>1, <3>5, UsedTypes
        <3> QED
            BY <1>3, <3>5, <3>6
    <2>8. \/ UNCHANGED <<snat, sent>>
          \/ \E p \in Usable(t, f) : snat' = [snat EXCEPT ![e] = Translated(t, f, p)] /\ sent' = Used(e, f, p)
        BY <1>6 DEF ProcessEgressToWG, Usable
    <2> QED
        BY <2>6, <2>7, <2>8
<1> QED
    BY <1>5, <1>6

\* The pairs that a policy blocks are addresses of peers and maps.
LEMMA PolicyFacts ==
    ASSUME NEW g \in Stored
    PROVE  /\ Blocked(g.peers, g.links, g.groups, g.maps) \subseteq Addrs \X Addrs
           /\ VIPs(g) \subseteq Addrs /\ g.listen \subseteq Listen
<1>1. \A p \in g.peers : p.ip \in Addrs
    BY TunAssumption DEF Stored, NoGraph, Addrs
<1>2. VIPs(g) \subseteq Addrs /\ g.listen \subseteq Listen
    BY DEF Stored, NoGraph, Addrs, VIPs, Listen
<1>3. \A m \in g.maps : m.vip \in Addrs
    BY <1>2 DEF VIPs
<1> QED
    BY <1>1, <1>2, <1>3 DEF Blocked, Enabled

\* The control plane: the policy that takes over comes with a table that has no
\* sessions and knows the listeners, and with no connections.
LEMMA PolicyNext ==
    ASSUME TunInv, (\E g \in Graphs : ReserveHubPorts(g)) \/ SetMapVIPs \/ SetAccessPolicy
    PROVE  TunInv'
<1> USE DEF TunInv
<1>1. /\ epoch \in Nat /\ epoch \in Epochs /\ MaxEpoch \in Nat /\ SessionIdle \in Nat
      /\ snat \in [Epochs -> Tables] /\ graph \in Stored
    BY TunAssumption DEF Types, Epochs
<1>2. ASSUME NEW g \in Graphs, ReserveHubPorts(g) PROVE TunInv'
    <2> DEFINE u == [snat[epoch] EXCEPT !.reserved = @ \cup g.listen]
    <2>1. snat' = [snat EXCEPT ![epoch] = u] /\ epoch' = epoch /\ ctl' = "vips" /\ graph' = g
          /\ reservedHubPorts' = g.listen
          /\ UNCHANGED <<access, mapVIPs, flows, recv, reader, netstack, sent>>
        BY <1>2 DEF ReserveHubPorts
    <2>2. g.listen \in SUBSET Listen /\ snat[epoch] \in Tables /\ Owned(snat[epoch])
        BY <1>1, PolicyFacts DEF Stored, TablesOwned
    <2>3. u \in Tables /\ Owned(u) /\ u.byPort = snat[epoch].byPort /\ u.age = snat[epoch].age
        BY <2>2, ReservedTable
    <2> HIDE DEF u
    <2>4. snat' \in [Epochs -> Tables] /\ snat'[epoch] = u /\ \A d \in Epochs \ {epoch} : snat'[d] = snat[d]
        BY <1>1, <2>1, <2>3
    <2>5. Types'
        BY <2>1, <2>2, <2>4 DEF Types, Goroutines, Stored
    <2>6. TablesOwned'
        <3>1. \A d \in Epochs : Owned(snat'[d])
            BY <2>3, <2>4 DEF TablesOwned
        <3> QED
            BY <3>1 DEF TablesOwned, Owned
    <2>7. ListenerInv' /\ SentInv' /\ StaleInv'
        BY <2>1, <2>3, <2>4 DEF ListenerInv, SentInv, Kept, StaleInv, Stale
    <2> QED
        BY <2>5, <2>6, <2>7
<1>3. CASE SetMapVIPs
    <2>1. /\ ctl' = "policy" /\ mapVIPs' = VIPs(graph) /\ VIPs(graph) \subseteq Addrs
          /\ UNCHANGED <<graph, epoch, access, reservedHubPorts, snat, flows, recv, reader, netstack, sent>>
        BY <1>1, <1>3, PolicyFacts DEF SetMapVIPs
    <2>2. Types'
        BY <2>1 DEF Types, Goroutines
    <2>3. TablesOwned' /\ ListenerInv' /\ SentInv' /\ StaleInv'
        BY <2>1 DEF TablesOwned, Owned, ListenerInv, SentInv, Kept, StaleInv, Stale
    <2> QED
        BY <2>2, <2>3
<1>4. CASE SetAccessPolicy
    <2> DEFINE u == InstalledTable
               b == Blocked(graph.peers, graph.links, graph.groups, graph.maps)
    <2>1. /\ u \in Tables /\ Owned(u) /\ u.reserved = reservedHubPorts
          /\ \A p \in HubPorts : u.byPort[p] = NoFlow
        BY <1>1, NewTable, ZenonT(60) DEF InstalledTable, Types
    <2>2. b \in SUBSET (Addrs \X Addrs)
        BY <1>1, PolicyFacts
    <2>3. /\ epoch' = epoch + 1 /\ epoch' \in Epochs /\ epoch' \in Nat /\ ctl' = "idle" /\ flows' = {}
          /\ access' = [access EXCEPT ![epoch + 1] = b] /\ snat' = [snat EXCEPT ![epoch + 1] = u]
          /\ sent' = [f \in Flows |-> Unsent]
          /\ UNCHANGED <<graph, mapVIPs, reservedHubPorts, recv, reader, netstack>>
        BY <1>1, <1>4 DEF SetAccessPolicy, Epochs
    <2> HIDE DEF u, b
    <2>4. snat' \in [Epochs -> Tables] /\ snat'[epoch'] = u /\ \A d \in Epochs \ {epoch'} : snat'[d] = snat[d]
        BY <1>1, <2>1, <2>3
    <2>5. Goroutines \subseteq Goroutines'
        BY <1>1, <2>3 DEF Goroutines
    <2>6. Types'
        <3>1. access' \in [Epochs -> SUBSET (Addrs \X Addrs)]
            BY <2>2, <2>3 DEF Types
        <3>2. sent' \in [Flows -> [port : HubPorts \cup {0}, age : 0 .. SessionIdle]]
            BY <1>1, <2>3, RestFacts
        <3>3. recv' \in [Peers -> Goroutines'] /\ reader' \in Goroutines'
            BY <2>3, <2>5 DEF Types
        <3> QED
            BY <2>3, <2>4, <3>1, <3>2, <3>3 DEF Types
    <2>7. TablesOwned'
        <3>1. \A d \in Epochs : Owned(snat'[d])
            BY <2>1, <2>4 DEF TablesOwned
        <3> QED
            BY <3>1 DEF TablesOwned, Owned
    <2>8. ListenerInv'
        <3>1. reservedHubPorts \subseteq HubPorts
            BY DEF Types, HubPorts
        <3> QED
            BY <2>1, <2>3, <2>4, <3>1 DEF ListenerInv
    <2>9. SentInv' /\ StaleInv'
        BY <1>1, <2>3, RestFacts DEF SentInv, Kept, StaleInv, Stale
    <2> QED
        BY <2>6, <2>7, <2>8, <2>9
<1> QED
    BY <1>2, <1>3, <1>4

\* Time: what was sent ages no more slowly than its session, and is forgotten before
\* the session is idle.
LEMMA TickNext ==
    ASSUME TunInv, Tick
    PROVE  TunInv'
<1> USE DEF TunInv
<1>1. /\ epoch \in Nat /\ epoch \in Epochs /\ SessionIdle \in Nat
      /\ snat \in [Epochs -> Tables]
      /\ sent \in [Flows -> [port : HubPorts \cup {0}, age : 0 .. SessionIdle]]
    BY TunAssumption DEF Types, Epochs
<1>2. UNCHANGED <<conf, recv, reader, netstack>> /\ epoch' = epoch /\ ctl' = ctl
      /\ reservedHubPorts' = reservedHubPorts
    BY DEF Tick, conf
<1>3. \A a \in 0 .. SessionIdle + 1 : Older(a) \in 0 .. SessionIdle + 1 /\ (a <= SessionIdle => Older(a) = a + 1)
    BY <1>1 DEF Older
<1>4. flows' = {[f EXCEPT !.age = Older(@)] : f \in flows}
    BY DEF Tick
<1>5. \A f \in flows : /\ [f EXCEPT !.age = Older(@)] \in Tracked
                       /\ [f EXCEPT !.age = Older(@)].src = f.src
                       /\ [f EXCEPT !.age = Older(@)].from = f.from
    BY <1>3 DEF Types, Tracked
<1>6. flows' \subseteq Tracked
    BY <1>4, <1>5
<1>7. StaleInv'
    <2>1. ASSUME NEW r \in Peers, NEW f \in Stale(r)'
          PROVE  \E g \in Stale(r) : f = [g EXCEPT !.age = Older(@)]
        BY <1>2, <1>4, <1>5, ZenonT(60) DEF Stale
    <2>2. \A r \in Peers : recv'[r] = recv[r]
        BY <1>2
    <2> QED
        BY <1>2, <2>1, <2>2 DEF StaleInv
<1> DEFINE Aged(e) == [p \in HubPorts |-> IF snat[e].byPort[p] = NoFlow THEN 0 ELSE Older(snat[e].age[p])]
<1>8. ASSUME NEW e \in Epochs
      PROVE  /\ Aged(e) \in [HubPorts -> 0 .. SessionIdle + 1]
             /\ [snat[e] EXCEPT !.age = Aged(e)] \in Tables /\ Owned([snat[e] EXCEPT !.age = Aged(e)])
             /\ [snat[e] EXCEPT !.age = Aged(e)].byPort = snat[e].byPort
             /\ [snat[e] EXCEPT !.age = Aged(e)].age = Aged(e)
             /\ [snat[e] EXCEPT !.age = Aged(e)].reserved = snat[e].reserved
    <2>1. snat[e] \in Tables /\ Owned(snat[e]) /\ snat[e].age \in [HubPorts -> 0 .. SessionIdle + 1]
        BY <1>1 DEF Tables, TablesOwned
    <2>2. Aged(e) \in [HubPorts -> 0 .. SessionIdle + 1]
        BY <1>1, <1>3, <2>1
    <2> HIDE DEF Aged
    <2> QED
        BY <2>1, <2>2, AgedTable
<1>9. ASSUME NEW e \in Epochs
      PROVE  \/ snat'[e] = [snat[e] EXCEPT !.age = Aged(e)]
             \/ e # epoch /\ snat'[e] = NewTransparentTable(NoGraph)
    BY DEF Tick
<1>10. DOMAIN snat' = Epochs /\ snat' = [e \in Epochs |-> snat'[e]]
    BY DEF Tick
<1> HIDE DEF Aged
<1>11. \A e \in Epochs : snat'[e] \in Tables /\ Owned(snat'[e])
    BY <1>8, <1>9, EmptyTable
<1>12. snat'[epoch].byPort = snat[epoch].byPort /\ snat'[epoch].age = Aged(epoch)
       /\ snat'[epoch].reserved = snat[epoch].reserved
    BY <1>1, <1>8, <1>9
<1>13. TablesOwned' /\ ListenerInv'
    BY <1>2, <1>11, <1>12 DEF TablesOwned, Owned, ListenerInv
<1>14. sent' = [f \in Flows |-> IF sent[f].port = 0 \/ sent[f].age = SessionIdle
                                THEN Unsent ELSE [sent[f] EXCEPT !.age = @ + 1]]
    BY DEF Tick
<1>15. ASSUME NEW f \in Flows
       PROVE  /\ sent'[f] \in [port : HubPorts \cup {0}, age : 0 .. SessionIdle]
              /\ sent'[f].port # 0 => /\ sent'[f].port = sent[f].port /\ sent[f].age < SessionIdle
                                      /\ sent'[f].age = sent[f].age + 1
    <2>1. sent[f] \in [port : HubPorts \cup {0}, age : 0 .. SessionIdle]
        BY <1>1
    <2>2. CASE sent[f].port = 0 \/ sent[f].age = SessionIdle
        BY <1>1, <1>14, <2>2, RestFacts
    <2>3. CASE ~(sent[f].port = 0 \/ sent[f].age = SessionIdle)
        <3>1. sent'[f] = [sent[f] EXCEPT !.age = @ + 1]
            BY <1>14, <2>3
        <3> QED
            BY <1>1, <2>1, <2>3, <3>1
    <2> QED
        BY <2>2, <2>3
<1>16. SentInv'
    <2> SUFFICES ASSUME NEW f \in Flows, sent'[f].port # 0
                 PROVE  /\ snat'[epoch].byPort[sent'[f].port] = f
                        /\ snat'[epoch].age[sent'[f].port] <= sent'[f].age
        BY <1>2 DEF SentInv, Kept
    <2>1. /\ sent'[f].port = sent[f].port /\ sent[f].age < SessionIdle /\ sent'[f].age = sent[f].age + 1
          /\ sent[f].port \in HubPorts /\ sent[f].age \in Nat
        BY <1>1, <1>15
    <2>2. snat[epoch].byPort[sent[f].port] = f /\ snat[epoch].age[sent[f].port] <= sent[f].age
        BY <2>1 DEF SentInv, Kept
    <2>3. snat[epoch].age[sent[f].port] \in 0 .. SessionIdle + 1
        BY <1>1, <2>1 DEF Tables
    <2>4. Aged(epoch)[sent[f].port] = snat[epoch].age[sent[f].port] + 1
        BY <1>1, <1>3, <2>1, <2>2, <2>3, TunAssumption DEF Aged
    <2> QED
        BY <1>12, <2>1, <2>2, <2>3, <2>4
<1>17. Types'
    <2>1. snat' \in [Epochs -> Tables]
        BY <1>10, <1>11
    <2>2. sent' \in [Flows -> [port : HubPorts \cup {0}, age : 0 .. SessionIdle]]
        BY <1>14, <1>15
    <2>3. Goroutines' = Goroutines
        BY <1>2 DEF Goroutines
    <2> QED
        BY <1>2, <1>6, <2>1, <2>2, <2>3 DEF Types, conf
<1> QED
    BY <1>7, <1>13, <1>16, <1>17

\* Every step preserves the inductive invariant.
LEMMA TunNext == TunInv /\ [Next]_vars => TunInv'
<1> SUFFICES ASSUME TunInv, [Next]_vars PROVE TunInv'
    OBVIOUS
<1>1. ASSUME NEW p \in Traffic, Write(p.src, p) PROVE TunInv'
    <2>1. p.src \in Peers
        BY TunAssumption DEF Packets
    <2> QED
        BY <1>1, <2>1, FilterNext
<1>2. CASE UNCHANGED vars
    <2>1. UNCHANGED <<conf, snat, flows, recv, reader, netstack, sent>> /\ epoch' = epoch
        BY <1>2 DEF vars, conf
    <2>2. Types'
        BY <2>1 DEF TunInv, Types, Goroutines, conf
    <2>3. StaleInv'
        BY <2>1, NoStaleStep DEF TunInv
    <2> QED
        BY <2>1, <2>2, <2>3, NoTableStep DEF TunInv
<1>3. ASSUME NEW r \in Peers, ProcessIngressFromWG(r) \/ Bypass(r) \/ ReadRules(r) \/ Track(r) PROVE TunInv'
    BY <1>3, FilterNext, IngressNext, TrackNext
<1> QED
    BY <1>1, <1>2, <1>3, PolicyNext, ReaderNext, TickNext DEF Next

\* The hub's packet path keeps its types: no goroutine points to a table or to rules
\* that were never installed (vpn/tun/tun.go:46-61, 115-129).
THEOREM PathTypes == Spec => []TypeOK
<1>1. TunInv => TypeOK
    BY TypesFromInv DEF TunInv
<1> QED
    BY <1>1, TunInit, TunNext, PTL DEF Spec

\* No port is leaked and no flow answers on another's port, in the table in force or in
\* one a goroutine still holds (vpn/snat/transparent.go:76-82, 129-164).
THEOREM PortsTheorem == Spec => []PortsOwned
<1>1. TunInv => PortsOwned
    BY PortsFromInv DEF TunInv
<1> QED
    BY <1>1, TunInit, TunNext, PTL DEF Spec

\* Until SessionIdle has passed, the hub port a server saw leads back to the flow
\* (vpn/snat/transparent.go:112-115, 134-164).
THEOREM RepliesTheorem == Spec => []RepliesReturn
<1>1. TunInv => RepliesReturn
    BY RepliesFromInv DEF TunInv
<1> QED
    BY <1>1, TunInit, TunNext, PTL DEF Spec

\* No translated flow takes packets away from a listener (vpn/tun/tun.go:58-61).
THEOREM ListenersTheorem == Spec => []ListenersFree
<1>1. TunInv => ListenersFree
    BY ListenersFromInv DEF TunInv
<1> QED
    BY <1>1, TunInit, TunNext, PTL DEF Spec

\* A policy change leaves each receive goroutine at most one stale connection
\* (vpn/tun/tun.go:55-57, 115-129).
THEOREM StaleTheorem == Spec => []StaleBounded
<1>1. TunInv => StaleBounded
    BY StaleFromInv DEF TunInv
<1> QED
    BY <1>1, TunInit, TunNext, PTL DEF Spec
=============================================================================
