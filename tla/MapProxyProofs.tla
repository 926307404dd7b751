--------------------------- MODULE MapProxyProofs ---------------------------
(***************************************************************************)
(* Proof that the map proxy admits by the rules in force: TypeOK and       *)
(* AdmissionSound are invariants of MapProxy, for any requests, flows,     *)
(* configurations and number of generations.                               *)
(***************************************************************************)
EXTENDS MapProxy, TLAPS

\* Where Apply and Stop stand: the contexts that were cancelled are those before the
\* current one, except that Apply still owes the last; rules of later generations, and
\* of a stopped proxy, are none.
ControlInv ==
    /\ cancelled = 1 .. generation - (IF ctl = "cancel" THEN 2 ELSE 1)
    /\ ctl = "cancel" => generation > 0
    /\ ctl # "stopped" /\ generation > 0 => ctx = generation
    /\ \A g \in 0 .. MaxGeneration :
            g > generation \/ (ctl = "stopped" /\ g = generation) => conf[g] = NoRules

\* What a slot may hold.
Requests == [pc : {"free", "rule", "allowed", "reserve", "endpoint", "dial", "enter", "relay", "half"},
             kind : {"none", "udp", "tcp"}, key : Keys,
             ctx : 1 .. generation \cup {Background}, gen : 0 .. generation,
             client : BOOLEAN, backend : BOOLEAN]

\* A request takes its context before its rule, and its rule before the peer's group:
\* one that passed both with the rule in force passed with the groups in force.  A
\* stopped proxy has no rule for it to have.
Admitted == {"reserve", "endpoint", "dial", "enter", "relay"}
RequestInv(r) ==
    /\ r.pc \in {"reserve", "enter"} => r.kind = "udp"
    /\ r.pc = "rule" /\ ctl # "stopped" => r.ctx \in 1 .. generation
    /\ r.pc \in Admitted \cup {"allowed"} => r.gen \in 1 .. generation /\ r.ctx \in 1 .. r.gen
    /\ r.pc \in Admitted \cup {"allowed"} /\ ctl = "stopped" => r.gen # generation
    /\ r.pc \in Admitted /\ r.gen = generation => peerAllowed(generation, generation, r.key)
    /\ r.pc = "enter" => r.backend

\* A request that the session table may hold for flow k.
Relays(r, k) == r.pc = "relay" /\ r.kind = "udp" /\ r.key = k /\ r.gen = generation /\ r.backend

TablesInv ==
    \A k \in Keys : /\ udpPending[k] \in {0, generation}
                    /\ udpSessions[k] # 0 => Relays(slot[udpSessions[k]], k)

AdmissionInv ==
    /\ TypeOK
    /\ ControlInv
    /\ \A s \in Slots : RequestInv(slot[s])
    /\ TablesInv

\* The inductive invariant says that what was admitted is what the rules admit: a TCP
\* relay of the current context has the current rule.
LEMMA SoundFromInv == AdmissionInv => AdmissionSound
<1> SUFFICES ASSUME AdmissionInv PROVE AdmissionSound
    OBVIOUS
<1> USE DEF AdmissionInv
<1>1. SessionsCurrent
    BY DEF SessionsCurrent, TablesInv, Relays
<1>2. SessionsAllowed
    <2> SUFFICES ASSUME NEW k \in Keys, udpSessions[k] # 0
                 PROVE  peerAllowed(generation, generation, k)
        BY DEF SessionsAllowed
    <2>1. udpSessions[k] \in Slots /\ Relays(slot[udpSessions[k]], k)
        BY DEF TypeOK, TablesInv
    <2> QED
        BY <2>1 DEF RequestInv, Relays, Admitted
<1>3. Revocable
    <2> SUFFICES ASSUME NEW s \in Slots, slot[s].pc \in {"endpoint", "dial", "relay"},
                        ~peerAllowed(generation, generation, slot[s].key)
                 PROVE  slot[s].ctx \in cancelled \/ (ctl = "cancel" /\ slot[s].ctx = generation - 1)
        BY DEF Revocable
    <2>1. /\ slot[s].gen \in 1 .. generation /\ slot[s].gen # generation
          /\ slot[s].ctx \in 1 .. slot[s].gen /\ generation \in Nat
        BY ProxyAssumption DEF RequestInv, Admitted, TypeOK
    <2> QED
        BY <2>1 DEF ControlInv
<1> QED
    BY <1>1, <1>2, <1>3 DEF AdmissionSound

\* A free slot is a request in no state that the invariant restricts.
LEMMA FreeFacts ==
    ASSUME generation \in Nat
    PROVE  Free \in Requests /\ Free.pc = "free" /\ RequestInv(Free)
BY ProxyAssumption DEF Free, Requests, RequestInv, Admitted

\* A proxy that was never given rules has admitted nobody.
LEMMA AdmissionInit == Init => AdmissionInv
<1> SUFFICES ASSUME Init PROVE AdmissionInv
    OBVIOUS
<1>1. TypeOK
    BY ProxyAssumption, FreeFacts DEF Init, TypeOK, Requests
<1>2. ControlInv
    BY ProxyAssumption DEF Init, ControlInv
<1>3. \A s \in Slots : RequestInv(slot[s])
    BY FreeFacts DEF Init
<1> QED
    BY <1>1, <1>2, <1>3 DEF Init, AdmissionInv, TablesInv

\* The steps of one request: what the others hold is left alone, and the session table
\* loses entries or gains the request itself.
LEMMA SlotStep ==
    ASSUME AdmissionInv, UNCHANGED control, NEW s \in Slots,
           slot' \in [Slots -> Requests], RequestInv(slot'[s]),
           \A t \in Slots \ {s} : slot'[t] = slot[t],
           udpPending' \in [Keys -> {0, generation}],
           udpSessions' \in [Keys -> Slots \cup {0}],
           \A k \in Keys : udpSessions'[k] = s => Relays(slot'[s], k),
           \A k \in Keys : udpSessions'[k] \in {0, s, udpSessions[k]}
    PROVE  AdmissionInv'
<1> USE DEF AdmissionInv
<1>1. generation' = generation /\ conf' = conf /\ ctx' = ctx /\ cancelled' = cancelled /\ ctl' = ctl
    BY DEF control
<1>2. generation \in Nat
    BY ProxyAssumption DEF TypeOK
<1>4. TypeOK'
    <2>1. (slot \in [Slots -> Requests])'
        BY <1>1 DEF Requests
    <2>2. udpPending' \in [Keys -> 0 .. generation']
        BY <1>1, <1>2
    <2> QED
        BY <1>1, <2>1, <2>2 DEF TypeOK, Requests
<1>5. ControlInv'
    BY <1>1 DEF ControlInv
<1>6. ASSUME NEW t \in Slots PROVE RequestInv(slot[t])'
    <2>1. RequestInv(slot'[t])
        OBVIOUS
    <2> QED
        BY <2>1, <1>1 DEF RequestInv, peerAllowed, HasRule
<1>7. ASSUME NEW k \in Keys
      PROVE  udpPending'[k] \in {0, generation'} /\ (udpSessions'[k] # 0 => Relays(slot[udpSessions[k]], k)')
    <2>1. CASE udpSessions'[k] = s
        BY <2>1, <1>1 DEF Relays
    <2>2. CASE udpSessions'[k] # s /\ udpSessions'[k] # 0
        <3>1. udpSessions'[k] = udpSessions[k] /\ udpSessions[k] \in Slots
            BY <2>2
        <3>2. Relays(slot[udpSessions[k]], k)
            BY <3>1, <2>2 DEF TablesInv
        <3> QED
            BY <3>1, <3>2, <2>2, <1>1 DEF Relays
    <2> QED
        BY <2>1, <2>2, <1>1
<1> QED
    BY <1>4, <1>5, <1>6, <1>7 DEF TablesInv

\* A slot outside the UDP relays is in no table, so it may go on as any other request.
LEMMA OutsideStep ==
    ASSUME AdmissionInv, UNCHANGED control, NEW s \in Slots,
           slot[s].pc # "relay" \/ slot[s].kind # "udp",
           slot' \in [Slots -> Requests], RequestInv(slot'[s]),
           \A t \in Slots \ {s} : slot'[t] = slot[t],
           udpPending' \in [Keys -> {0, generation}], UNCHANGED udpSessions
    PROVE  AdmissionInv'
<1>1. \A k \in Keys : udpSessions'[k] # s /\ udpSessions'[k] = udpSessions[k]
    BY ProxyAssumption DEF Relays, AdmissionInv, TablesInv
<1> QED
    BY <1>1, SlotStep DEF AdmissionInv, TypeOK

\* The steps of a handler and of its goroutine.  A reservation is entered only by a
\* request of the generation that made it, so the session is the current generation's.
LEMMA RequestNext ==
    ASSUME AdmissionInv, NEW s \in Slots,
           \/ \E kind \in {"udp", "tcp"}, k \in Keys : Request(s, kind, k)
           \/ Handle(s) \/ CloseUDP(s) \/ HalfClose(s) \/ ClientEnds(s) \/ CancelTCP(s)
    PROVE  AdmissionInv'
<1>1. /\ slot[s] \in Requests /\ RequestInv(slot[s]) /\ generation \in Nat
      /\ slot \in [Slots -> Requests]
    BY ProxyAssumption DEF TypeOK, Requests, AdmissionInv
<1>2. Free \in Requests /\ Free.pc = "free" /\ RequestInv(Free)
    BY <1>1, FreeFacts
<1>3. /\ udpPending \in [Keys -> {0, generation}] /\ udpSessions \in [Keys -> Slots \cup {0}]
      /\ \A k \in Keys : udpSessions[k] = s => Relays(slot[s], k)
    BY ProxyAssumption DEF TypeOK, TablesInv, AdmissionInv
<1>4. UNCHANGED control /\ deleteUDPPending(s) \in [Keys -> {0, generation}]
    BY <1>1, <1>3 DEF deleteUDPPending, Request, Handle, LookupRule, CheckPeer, Reserve, CreateEndpoint,
        Dial, EnterSession, CloseUDP, HalfClose, ClientEnds, CancelTCP, Requests
<1>5. ASSUME Done(s)
      PROVE  slot' \in [Slots -> Requests] /\ RequestInv(slot'[s]) /\ \A t \in Slots \ {s} : slot'[t] = slot[t]
    BY <1>1, <1>2, <1>5 DEF Done
<1>6. ASSUME NEW kind \in {"udp", "tcp"}, NEW k \in Keys, Request(s, kind, k) PROVE AdmissionInv'
    <2>1. slot' \in [Slots -> Requests]
        BY <1>1, <1>2, <1>6 DEF Requests, TypeOK, AdmissionInv, Request
    <2>2. /\ slot'[s].pc = "rule" /\ slot'[s].ctx = ctx /\ (ctl # "stopped" => ctx = generation)
          /\ generation > 0
        <3>1. slot'[s].pc = "rule" /\ slot'[s].ctx = ctx
            BY <1>1, <1>6 DEF Request, Free
        <3> QED
            BY <1>6, <3>1 DEF Request, ControlInv, AdmissionInv
    <2>3. RequestInv(slot'[s])
        BY <1>1, <2>2 DEF RequestInv, Admitted
    <2> QED
        BY <1>1, <1>3, <1>4, <1>6, <2>1, <2>3, OutsideStep DEF Request, tables
<1>7. CASE LookupRule(s)
    <2>1. CASE HasRule(generation, slot[s].key)
        <3>1. slot' \in [Slots -> Requests]
            BY <1>1, <1>7, <2>1 DEF LookupRule, Requests
        <3>2. RequestInv(slot'[s])
            BY <1>1, <1>7, <2>1 DEF RequestInv, Admitted, LookupRule, Requests, ControlInv, HasRule, TypeOK,
                AdmissionInv
        <3> QED
            BY <1>1, <1>3, <1>4, <1>7, <2>1, <3>1, <3>2, OutsideStep DEF LookupRule, tables
    <2>2. CASE Done(s)
        BY <1>3, <1>4, <1>5, <1>7, <2>2, OutsideStep DEF LookupRule, tables
    <2> QED
        BY <1>7, <2>1, <2>2 DEF LookupRule
<1>8. CASE CheckPeer(s)
    <2>1. CASE Done(s)
        BY <1>3, <1>4, <1>5, <1>8, <2>1, OutsideStep DEF CheckPeer, tables
    <2>2. CASE ~Done(s)
        <3>1. slot' \in [Slots -> Requests]
            BY <1>1, <1>8, <2>2 DEF CheckPeer, Goto, Requests
        <3>2. RequestInv(slot'[s])
            BY <1>1, <1>4, <1>8, <2>2 DEF RequestInv, Admitted, CheckPeer, GroupsInForce, Goto, Requests, control
        <3> QED
            BY <1>1, <1>3, <1>4, <1>8, <2>2, <3>1, <3>2, OutsideStep DEF CheckPeer, Goto, tables
    <2> QED
        BY <2>1, <2>2
<1>9. CASE Reserve(s)
    <2>1. udpPending' \in [Keys -> {0, generation}] /\ UNCHANGED udpSessions
        BY <1>1, <1>3, <1>9 DEF Reserve, Requests
    <2>2. CASE Done(s)
        BY <1>4, <1>5, <1>9, <2>1, <2>2, OutsideStep DEF Reserve
    <2>3. CASE Goto(s, "endpoint")
        <3>1. slot' \in [Slots -> Requests]
            BY <1>1, <2>3 DEF Goto, Requests
        <3>2. RequestInv(slot'[s])
            BY <1>1, <1>9, <2>3 DEF RequestInv, Admitted, Reserve, Goto, Requests
        <3> QED
            BY <1>1, <1>4, <1>9, <2>1, <2>3, <3>1, <3>2, OutsideStep DEF Reserve, Goto
    <2> QED
        BY <1>9, <2>2, <2>3 DEF Reserve
<1>10. CASE CreateEndpoint(s) \/ Dial(s)
    <2>1. udpPending' \in [Keys -> {0, generation}] /\ UNCHANGED udpSessions
        BY <1>3, <1>4, <1>10 DEF CreateEndpoint, Dial
    <2>2. CASE Done(s)
        BY <1>4, <1>5, <1>10, <2>1, <2>2, OutsideStep DEF CreateEndpoint, Dial
    <2>3. CASE ~Done(s)
        <3>1. slot' \in [Slots -> Requests]
            BY <1>1, <1>10, <2>3 DEF CreateEndpoint, Dial, Requests
        <3>2. RequestInv(slot'[s])
            BY <1>1, <1>10, <2>3 DEF RequestInv, Admitted, CreateEndpoint, Dial, Requests
        <3> QED
            BY <1>1, <1>4, <1>10, <2>1, <2>3, <3>1, <3>2, OutsideStep DEF CreateEndpoint, Dial
    <2> QED
        BY <2>2, <2>3
<1>11. CASE EnterSession(s)
    <2>1. udpPending' \in [Keys -> {0, generation}] /\ slot[s].key \in Keys
        BY <1>1, <1>3, <1>11 DEF EnterSession, tables, Requests
    <2>2. CASE Done(s) /\ UNCHANGED udpSessions
        BY <1>4, <1>5, <1>11, <2>1, <2>2, OutsideStep DEF EnterSession
    <2>3. CASE Goto(s, "relay") /\ udpSessions' = [udpSessions EXCEPT ![slot[s].key] = s]
                   /\ udpPending[slot[s].key] = slot[s].gen
        <3>1. slot' \in [Slots -> Requests]
            BY <1>1, <2>3 DEF Goto, Requests
        <3>2. RequestInv(slot'[s])
            BY <1>1, <1>11, <2>3 DEF RequestInv, Admitted, EnterSession, Goto, Requests
        <3>3. Relays(slot'[s], slot[s].key)
            BY <1>1, <1>3, <1>11, <2>1, <2>3 DEF RequestInv, Admitted, EnterSession, Goto, Requests, Relays
        <3>4. /\ \A k \in Keys : udpSessions'[k] = s => Relays(slot'[s], k)
              /\ \A k \in Keys : udpSessions'[k] \in {0, s, udpSessions[k]}
              /\ udpSessions' \in [Keys -> Slots \cup {0}]
            BY <1>3, <1>11, <2>1, <2>3, <3>3 DEF Relays, EnterSession
        <3> QED
            BY <1>1, <1>4, <2>1, <2>3, <3>1, <3>2, <3>4, SlotStep DEF Goto
    <2> QED
        BY <1>11, <2>2, <2>3 DEF EnterSession, tables
<1>12. CASE CloseUDP(s)
    <2>1. /\ \A k \in Keys : udpSessions'[k] # s /\ udpSessions'[k] \in {0, udpSessions[k]}
          /\ udpSessions' \in [Keys -> Slots \cup {0}]
        BY <1>3, <1>12, ProxyAssumption DEF CloseUDP
    <2> QED
        BY <1>3, <1>4, <1>5, <1>12, <2>1, SlotStep DEF CloseUDP
<1>13. CASE HalfClose(s)
    <2>1. slot' \in [Slots -> Requests]
        BY <1>1, <1>13 DEF HalfClose, Requests
    <2>2. RequestInv(slot'[s])
        BY <1>1, <1>13 DEF RequestInv, Admitted, HalfClose, Requests
    <2> QED
        BY <1>1, <1>3, <1>4, <1>13, <2>1, <2>2, OutsideStep DEF HalfClose, tables
<1>14. CASE ClientEnds(s) \/ CancelTCP(s)
    BY <1>3, <1>4, <1>5, <1>14, OutsideStep DEF ClientEnds, CancelTCP, tables
<1> QED
    BY <1>6, <1>7, <1>8, <1>9, <1>10, <1>11, <1>12, <1>13, <1>14 DEF Handle

\* Apply and Stop begin a generation with empty tables; nothing that was admitted
\* before has the new generation's rule.
LEMMA NewGeneration ==
    ASSUME AdmissionInv, ctl = "idle", generation < MaxGeneration, generation' = generation + 1,
           closeUDPSessions, TypeOK', ControlInv',
           \A g \in 0 .. generation : conf'[g] = conf[g]
    PROVE  AdmissionInv'
<1> USE DEF AdmissionInv
<1>1. generation \in Nat /\ slot \in [Slots -> Requests]
    BY ProxyAssumption DEF TypeOK, Requests
<1>2. TablesInv'
    BY DEF TablesInv, closeUDPSessions
<1>3. ASSUME NEW s \in Slots PROVE RequestInv(slot[s])'
    <2>1. /\ slot'[s].pc = slot[s].pc /\ slot'[s].kind = slot[s].kind /\ slot'[s].ctx = slot[s].ctx
          /\ slot'[s].gen = slot[s].gen
        BY <1>1 DEF closeUDPSessions, Requests
    <2>2. slot[s].pc = "enter" => slot'[s].backend
        <3> SUFFICES ASSUME slot[s].pc = "enter" PROVE slot'[s] = slot[s] /\ slot[s].backend
            OBVIOUS
        <3>1. s \notin Registered
            BY ProxyAssumption DEF Registered, TablesInv, Relays
        <3> QED
            BY <3>1 DEF closeUDPSessions, RequestInv
    <2>3. slot[s].gen \in 0 .. generation /\ slot[s].gen # generation'
        BY <1>1 DEF Requests
    <2> QED
        BY <1>1, <2>1, <2>2, <2>3 DEF RequestInv
<1> QED
    BY <1>2, <1>3

\* Tables that were emptied, and slots whose sessions were closed, are of their type.
LEMMA ClosedTypes ==
    ASSUME TypeOK, closeUDPSessions, generation' = generation + 1
    PROVE  /\ udpSessions' \in [Keys -> Slots \cup {0}] /\ udpPending' \in [Keys -> 0 .. generation']
           /\ (slot \in [Slots -> Requests])'
<1>1. generation \in Nat /\ slot \in [Slots -> Requests]
    BY ProxyAssumption DEF TypeOK, Requests
<1>2. slot' \in [Slots -> Requests]
    BY <1>1, ZenonT(60) DEF closeUDPSessions, Requests
<1>3. Requests \subseteq Requests'
    BY <1>1 DEF Requests
<1> QED
    <2>1. udpPending' = [k \in Keys |-> 0] /\ udpSessions' = [k \in Keys |-> 0]
        BY Zenon DEF closeUDPSessions
    <2>2. generation' \in Nat
        BY <1>1
    <2>3. slot' \in [Slots -> Requests']
        BY <1>2, <1>3
    <2> QED
        BY <2>1, <2>2, <2>3

\* Every step preserves the inductive invariant.
LEMMA AdmissionNext == AdmissionInv /\ [Next]_vars => AdmissionInv'
<1> SUFFICES ASSUME AdmissionInv, [Next]_vars PROVE AdmissionInv'
    OBVIOUS
<1>0. TypeOK /\ ControlInv /\ generation \in Nat /\ MaxGeneration \in Nat
    BY ProxyAssumption DEF AdmissionInv, TypeOK
<1>1. ASSUME NEW c \in Configs, Apply(c) PROVE AdmissionInv'
    <2>1. TypeOK'
        BY <1>0, <1>1, ClosedTypes DEF Apply, TypeOK, Requests
    <2>2. ControlInv'
        BY <1>0, <1>1 DEF Apply, ControlInv, TypeOK
    <2> QED
        BY <1>0, <1>1, <2>1, <2>2, NewGeneration DEF Apply, TypeOK
<1>2. CASE CancelOld
    <2>1. TypeOK'
        BY <1>0, <1>2 DEF CancelOld, TypeOK, ControlInv, tables
    <2>2. ControlInv'
        BY <1>0, <1>2 DEF CancelOld, ControlInv, TypeOK
    <2>3. /\ generation' = generation /\ conf' = conf /\ slot' = slot /\ ctl # "stopped"
          /\ ctl' # "stopped" /\ udpSessions' = udpSessions /\ udpPending' = udpPending
        BY <1>2 DEF CancelOld, tables
    <2>4. ASSUME NEW s \in Slots PROVE RequestInv(slot[s])'
        BY <2>3 DEF AdmissionInv, RequestInv, peerAllowed, HasRule
    <2>5. TablesInv'
        BY <2>3 DEF AdmissionInv, TablesInv, Relays
    <2> QED
        BY <2>1, <2>2, <2>4, <2>5 DEF AdmissionInv
<1>3. CASE Stop
    <2>1. TypeOK'
        BY <1>0, <1>3, ClosedTypes DEF Stop, TypeOK, Requests
    <2>2. ControlInv'
        BY <1>0, <1>3 DEF Stop, ControlInv, TypeOK
    <2> QED
        BY <1>0, <1>3, <2>1, <2>2, NewGeneration DEF Stop
<1>4. CASE UNCHANGED vars
    <2>1. /\ generation' = generation /\ conf' = conf /\ ctx' = ctx /\ cancelled' = cancelled /\ ctl' = ctl
          /\ slot' = slot /\ udpSessions' = udpSessions /\ udpPending' = udpPending
        BY <1>4 DEF vars, control, tables
    <2>2. TypeOK' /\ ControlInv'
        BY <1>0, <2>1 DEF TypeOK, ControlInv
    <2>3. ASSUME NEW s \in Slots PROVE RequestInv(slot[s])'
        BY <2>1 DEF AdmissionInv, RequestInv, peerAllowed, HasRule
    <2>4. TablesInv'
        BY <2>1 DEF AdmissionInv, TablesInv, Relays
    <2> QED
        BY <2>2, <2>3, <2>4 DEF AdmissionInv
<1> QED
    BY <1>1, <1>2, <1>3, <1>4, RequestNext DEF Next

\* The map proxy keeps its types: no table, slot or context refers to a generation that
\* was not begun (vpn/ingress/servicemap.go:112-164).
THEOREM ProxyTypes == Spec => []TypeOK
<1>1. AdmissionInv => TypeOK
    BY DEF AdmissionInv
<1> QED
    BY <1>1, AdmissionInit, AdmissionNext, PTL DEF Spec

\* Every admission is by the rules in force or about to be cancelled: rule, groups and
\* context are read in three critical sections, and still no request ends up with a mix
\* that outlives the next cancel (vpn/ingress/servicemap.go:112-164, 234-375).
THEOREM AdmissionTheorem == Spec => []AdmissionSound
BY AdmissionInit, AdmissionNext, SoundFromInv, PTL DEF Spec
=============================================================================
