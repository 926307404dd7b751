------------------------- MODULE ForwardProxyProofs -------------------------
(***************************************************************************)
(* Proofs about ForwardProxy: its types, that listeners of replaced rules  *)
(* and of a failed Apply are gone, and that the loop and the goroutines    *)
(* that dial agree on who is pending.                                      *)
(***************************************************************************)
EXTENDS ForwardProxy, FiniteSetTheorems, TLAPS

Goroutines == [pc : {"none", "accept", "top", "read", "write"}, kind : {"none", "tcp", "udp"},
               slot : Slots \cup {0}, client : Clients]
Relays == [pc : {"free", "dial", "enter", "first", "relay"}, at : Listeners, client : Clients,
           kind : {"none", "tcp", "udp"}, backend : BOOLEAN, relay : BOOLEAN]

\* The types, with the goroutines' records.  A loop that reads datagrams is a UDP
\* listener's, and it writes only to a session.
Types ==
    /\ ctl \in [pc : {"idle", "wait", "bind"}, rules : RuleSets \cup {NoRules}]
    /\ run \in 0 .. MaxApply /\ cancel \in 0 .. run /\ cancelled \subseteq 1 .. run
    /\ result \in {"none", "ok", "error"}
    /\ ctl.pc # "idle" => run > 0
    /\ socket \in [Listeners -> BOOLEAN]
    /\ serve \in [Listeners -> Goroutines]
    /\ sessions \in [Listeners -> [Clients -> Slots \cup {0}]]
    /\ pending \in [Listeners -> SUBSET Clients]
    /\ slot \in [Slots -> Relays]
    /\ \A l \in Listeners : /\ serve[l].pc = "accept" => serve[l].kind = "tcp"
                            /\ serve[l].pc \in {"top", "read", "write"} => serve[l].kind = "udp"
                            /\ serve[l].pc = "write" => serve[l].slot # 0

\* Outside the binds, a bound socket has a goroutine that will close it; during them
\* no goroutine serves, and only the call's own sockets are bound.
ListenerInv ==
    /\ ctl.pc # "bind" => \A l \in Listeners : socket[l] => serve[l].pc # "none"
    /\ ctl.pc = "bind" => \A l \in Listeners : serve[l].pc = "none" /\ (socket[l] => l[1] = run)
    /\ ctl.pc = "idle" => \A l \in Listeners : serve[l].pc # "none" => l[1] = run
    /\ FailureBindsNothing

\* The goroutines that dial for a client, one at a time, and the pending clients.
Dialling(s) == slot[s].pc \in {"dial", "enter"} /\ slot[s].kind = "udp"
DialInv ==
    /\ \A s \in Slots : Dialling(s) => slot[s].client \in pending[slot[s].at]
    /\ \A l \in Listeners : \A c \in pending[l] :
            \E s \in Slots : Dialling(s) /\ slot[s].at = l /\ slot[s].client = c
    /\ \A s, t \in Slots : Dialling(s) /\ Dialling(t) /\ slot[s].at = slot[t].at
                           /\ slot[s].client = slot[t].client => s = t
    /\ \A s \in Slots : slot[s].pc = "enter" => slot[s].kind = "udp"

ForwardInv == Types /\ ListenerInv /\ DialInv

\* What no goroutine runs and what no slot holds is of its type, and so is a listener.
LEMMA RestFacts ==
    /\ Down \in Goroutines /\ Down.pc = "none" /\ Down.slot = 0
    /\ Free \in Relays /\ Free.pc = "free"
    /\ NoRules \in RuleSets \cup {NoRules} /\ DOMAIN NoRules = {}
    /\ Idle.pc = "idle" /\ Idle \in [pc : {"idle", "wait", "bind"}, rules : RuleSets \cup {NoRules}]
<1>1. \E l : l \in Listeners
    <2>1. PICK p \in Ports : TRUE
        BY ForwardAssumption
    <2>2. <<1, p>> \in Listeners
        BY ForwardAssumption DEF Listeners
    <2> QED
        BY <2>2
<1>2. \E c : c \in Clients
    BY ForwardAssumption
<1> QED
    BY <1>1, <1>2 DEF Down, Free, NoRules, Idle, Goroutines, Relays

\* The listener of port p that the present Apply binds.
LEMMA OwnListener ==
    ASSUME Types, run > 0, NEW p \in Ports
    PROVE  <<run, p>> \in Listeners
BY DEF Types, Listeners

\* The rules that Apply is given name ports and protocols only.
LEMMA RuleFacts ==
    ASSUME NEW r \in RuleSets \cup {NoRules}
    PROVE  DOMAIN r \subseteq Ports /\ \A p \in DOMAIN r : r[p] \in {"tcp", "udp"}
BY ForwardAssumption DEF NoRules

\* The strengthened types say what TypeOK says.
LEMMA TypesFromInv == Types => TypeOK
<1> SUFFICES ASSUME Types PROVE TypeOK
    OBVIOUS
<1>1. DOMAIN ctl.rules \subseteq Ports
    BY RuleFacts DEF Types
<1> QED
    BY <1>1 DEF Types, TypeOK, Goroutines, Relays

\* The three parts give the two invariants that the runs check.
LEMMA ListenersFromInv == ListenerInv => ListenersSound
BY DEF ListenerInv, ListenersSound, OldListenersGone

\* At most one goroutine dials for a client, and one does exactly for a pending one.
LEMMA OneDialFromInv == DialInv => OneDialPerClient
<1> SUFFICES ASSUME DialInv, NEW l \in Listeners, NEW c \in Clients
             PROVE  Cardinality({s \in Slots : slot[s].pc \in {"dial", "enter"} /\ slot[s].kind = "udp"
                                               /\ slot[s].at = l /\ slot[s].client = c})
                        = IF c \in pending[l] THEN 1 ELSE 0
    BY DEF OneDialPerClient
<1> DEFINE D == {s \in Slots : slot[s].pc \in {"dial", "enter"} /\ slot[s].kind = "udp"
                               /\ slot[s].at = l /\ slot[s].client = c}
<1>1. CASE c \in pending[l]
    <2>1. PICK s \in Slots : Dialling(s) /\ slot[s].at = l /\ slot[s].client = c
        BY <1>1 DEF DialInv
    <2>2. D = {s}
        BY <2>1 DEF DialInv, Dialling
    <2> QED
        BY <1>1, <2>2, FS_Singleton
<1>2. CASE c \notin pending[l]
    <2>1. D = {}
        BY <1>2 DEF DialInv, Dialling
    <2> QED
        BY <1>2, <2>1, FS_EmptySet
<1> QED
    BY <1>1, <1>2

\* A proxy without rules binds nothing and dials for nobody.
LEMMA ForwardInit == Init => ForwardInv
<1> SUFFICES ASSUME Init PROVE ForwardInv
    OBVIOUS
<1>1. Types
    BY RestFacts, ForwardAssumption DEF Init, Types
<1>2. ListenerInv
    BY RestFacts DEF Init, ListenerInv, FailureBindsNothing
<1>3. DialInv
    BY RestFacts DEF Init, DialInv, Dialling
<1> QED
    BY <1>1, <1>2, <1>3 DEF ForwardInv

\* Where a listener's goroutine takes a step, the types of what it changes are left.
LEMMA ServeFrame ==
    ASSUME Types, UNCHANGED control, NEW l \in Listeners,
           NEW g \in Goroutines, serve' = [serve EXCEPT ![l] = g],
           g.pc = "accept" => g.kind = "tcp", g.pc \in {"top", "read", "write"} => g.kind = "udp",
           g.pc = "write" => g.slot # 0,
           socket' \in [Listeners -> BOOLEAN], pending' \in [Listeners -> SUBSET Clients],
           sessions' \in [Listeners -> [Clients -> Slots \cup {0}]], slot' \in [Slots -> Relays]
    PROVE  Types'
<1>1. serve' \in [Listeners -> Goroutines]
    BY DEF Types
<1>2. ASSUME NEW m \in Listeners
      PROVE  /\ serve'[m].pc = "accept" => serve'[m].kind = "tcp"
             /\ serve'[m].pc \in {"top", "read", "write"} => serve'[m].kind = "udp"
             /\ serve'[m].pc = "write" => serve'[m].slot # 0
    <2>1. CASE m = l
        BY <2>1 DEF Types
    <2>2. CASE m # l
        BY <2>2 DEF Types
    <2> QED
        BY <2>1, <2>2
<1> QED
    BY <1>1, <1>2 DEF Types, control

\* Goroutines that start, and sessions that are closed, are of the slots' type.
LEMMA SlotTypes ==
    ASSUME Types
    PROVE  /\ \A set : Closed(set) \in [Slots -> Relays]
           /\ \A s \in Slots, l \in Listeners, c \in Clients : Spawn(s, l, c) => slot' \in [Slots -> Relays]
<1>1. ASSUME NEW set PROVE Closed(set) \in [Slots -> Relays]
    BY ZenonT(60) DEF Closed, Types, Relays
<1>2. ASSUME NEW s \in Slots, NEW l \in Listeners, NEW c \in Clients, Spawn(s, l, c)
      PROVE  slot' \in [Slots -> Relays]
    <2>1. serve[l].kind \in {"none", "tcp", "udp"}
        BY DEF Types, Goroutines
    <2>2. [Free EXCEPT !.pc = "dial", !.at = l, !.client = c, !.kind = serve[l].kind] \in Relays
        BY <2>1, RestFacts DEF Relays
    <2> QED
        BY <1>2, <2>2 DEF Spawn, Types
<1> QED
    BY <1>1, <1>2

\* The steps of a listener's goroutine keep the types.
LEMMA ServeTypes ==
    ASSUME Types, NEW l \in Listeners, NEW c \in Clients,
           AcceptFails(l) \/ ServeError(l) \/ CheckContext(l) \/ ReadTimeout(l) \/ WriteBackend(l)
           \/ Datagram(l, c) \/ \E s \in Slots : Accept(l, c, s)
    PROVE  Types'
<1>1. /\ socket \in [Listeners -> BOOLEAN] /\ pending \in [Listeners -> SUBSET Clients]
      /\ sessions \in [Listeners -> [Clients -> Slots \cup {0}]] /\ slot \in [Slots -> Relays]
      /\ serve \in [Listeners -> Goroutines] /\ serve[l] \in Goroutines
      /\ serve[l].pc = "accept" => serve[l].kind = "tcp"
      /\ serve[l].pc \in {"top", "read", "write"} => serve[l].kind = "udp"
      /\ serve[l].pc = "write" => serve[l].slot # 0
    BY DEF Types
<1>2. ASSUME Return(l), UNCHANGED <<control, pending>>, sessions' = sessions, slot' \in [Slots -> Relays]
      PROVE  Types'
    <2>1. socket' \in [Listeners -> BOOLEAN] /\ serve' = [serve EXCEPT ![l] = Down]
        BY <1>1, <1>2 DEF Return
    <2> QED
        BY <1>1, <1>2, <2>1, RestFacts, ServeFrame
<1>3. ASSUME NEW q \in {"top", "read"}, serve' = [serve EXCEPT ![l] = [serve[l] EXCEPT !.pc = q]],
             serve[l].pc \in {"top", "read"}, UNCHANGED <<control, socket>>,
             pending' \in [Listeners -> SUBSET Clients],
             sessions' \in [Listeners -> [Clients -> Slots \cup {0}]], slot' \in [Slots -> Relays]
      PROVE  Types'
    <2> DEFINE g == [serve[l] EXCEPT !.pc = q]
    <2>1. g \in Goroutines /\ g.pc = q /\ g.kind = "udp"
        BY <1>1, <1>3 DEF Goroutines
    <2> QED
        BY <1>1, <1>3, <2>1, ServeFrame
<1>4. CASE AcceptFails(l) \/ ServeError(l)
    BY <1>1, <1>2, <1>4 DEF AcceptFails, ServeError
<1>5. CASE CheckContext(l)
    BY <1>1, <1>2, <1>3, <1>5, SlotTypes DEF CheckContext
<1>6. CASE ReadTimeout(l)
    <2>1. CASE Cancelled(l)
        BY <1>1, <1>2, <1>6, <2>1 DEF ReadTimeout
    <2>2. CASE ~Cancelled(l)
        <3>1. sessions' \in [Listeners -> [Clients -> Slots \cup {0}]]
            BY <1>1, <1>6, <2>2 DEF ReadTimeout
        <3>2. slot' \in [Slots -> Relays]
            BY <1>6, <2>2, SlotTypes DEF ReadTimeout
        <3>3. serve' = [serve EXCEPT ![l] = [serve[l] EXCEPT !.pc = "top"]]
            BY <1>6, <2>2 DEF ReadTimeout
        <3> QED
            BY <1>1, <1>3, <1>6, <2>2, <3>1, <3>2, <3>3 DEF ReadTimeout
    <2> QED
        BY <2>1, <2>2
<1>7. CASE WriteBackend(l)
    <2> DEFINE g == [serve[l] EXCEPT !.pc = "top", !.slot = 0]
    <2>1. g \in Goroutines /\ g.pc = "top" /\ g.kind = "udp"
        BY <1>1, <1>7 DEF Goroutines, WriteBackend
    <2>2. serve' = [serve EXCEPT ![l] = g]
        BY <1>7, <1>1 DEF WriteBackend
    <2>3. sessions' \in [Listeners -> [Clients -> Slots \cup {0}]]
        BY <1>1, <1>7 DEF WriteBackend, Goroutines
    <2>4. slot' \in [Slots -> Relays]
        BY <1>1, <1>7, SlotTypes DEF WriteBackend
    <2> QED
        BY <1>1, <1>7, <2>1, <2>2, <2>3, <2>4, ServeFrame, ZenonT(60) DEF WriteBackend
<1>8. CASE Datagram(l, c)
    <2>1. CASE sessions[l][c] # 0
        <3> DEFINE g == [serve[l] EXCEPT !.pc = "write", !.slot = sessions[l][c], !.client = c]
        <3>1. g \in Goroutines /\ g.pc = "write" /\ g.kind = "udp" /\ g.slot # 0
            BY <1>1, <1>8, <2>1, ZenonT(60) DEF Goroutines, Datagram
        <3>2. serve' = [serve EXCEPT ![l] = g] /\ UNCHANGED <<control, socket, sessions, pending, slot>>
            BY <1>8, <2>1 DEF Datagram
        <3> QED
            BY <1>1, <3>1, <3>2, ServeFrame
    <2>2. CASE sessions[l][c] = 0
        <3>1. serve' = [serve EXCEPT ![l] = [serve[l] EXCEPT !.pc = "top"]]
            BY <1>8, <2>2 DEF Datagram
        <3>2. pending' \in [Listeners -> SUBSET Clients]
            BY <1>1, <1>8, <2>2 DEF Datagram
        <3>3. slot' \in [Slots -> Relays]
            BY <1>1, <1>8, <2>2, SlotTypes DEF Datagram
        <3> QED
            BY <1>1, <1>3, <1>8, <3>1, <3>2, <3>3 DEF Datagram
    <2> QED
        BY <2>1, <2>2
<1>9. ASSUME NEW s \in Slots, Accept(l, c, s) PROVE Types'
    <2>1. slot' \in [Slots -> Relays] /\ UNCHANGED <<control, socket, serve, sessions, pending>>
        BY <1>9, SlotTypes DEF Accept
    <2> QED
        BY <2>1 DEF Types, control
<1> QED
    BY <1>4, <1>5, <1>6, <1>7, <1>8, <1>9

\* The steps of a session's or connection's goroutine keep the types.
LEMMA DialTypes ==
    ASSUME Types, NEW s \in Slots, Dials(s) \/ CloseUDP(s) \/ HalfClose(s) \/ CloseTCP(s)
    PROVE  Types'
<1>1. /\ slot \in [Slots -> Relays] /\ slot[s].at \in Listeners /\ slot[s].client \in Clients
      /\ sessions \in [Listeners -> [Clients -> Slots \cup {0}]] /\ pending \in [Listeners -> SUBSET Clients]
    BY DEF Types, Relays
<1>2. slot' \in [Slots -> Relays]
    <2>1. CASE slot' = [slot EXCEPT ![s] = Free]
        BY <1>1, <2>1, RestFacts
    <2>2. \A q \in {"enter", "first", "relay"} : \A b, r \in BOOLEAN :
            /\ [slot[s] EXCEPT !.pc = q, !.backend = b, !.relay = r] \in Relays
            /\ [slot[s] EXCEPT !.pc = q, !.backend = b] \in Relays
            /\ [slot[s] EXCEPT !.pc = q, !.relay = r] \in Relays
            /\ [slot[s] EXCEPT !.pc = q] \in Relays
        BY <1>1, ZenonT(60) DEF Relays
    <2>3. CASE Dial(s) /\ slot' # [slot EXCEPT ![s] = Free]
        <3>1. slot'[s] = [slot[s] EXCEPT !.pc = IF slot[s].kind = "udp" THEN "enter" ELSE "relay",
                                        !.backend = TRUE, !.relay = (slot[s].kind = "tcp")]
            BY <1>1, <2>3 DEF Dial
        <3>2. slot'[s] \in Relays
            BY <2>2, <3>1
        <3> QED
            BY <1>1, <2>3, <3>2 DEF Dial
    <2>4. CASE EnterSession(s) /\ slot' # [slot EXCEPT ![s] = Free]
        <3>1. slot'[s] = [slot[s] EXCEPT !.pc = "first", !.relay = TRUE]
            BY <1>1, <2>4 DEF EnterSession
        <3> QED
            BY <1>1, <2>2, <2>4, <3>1 DEF EnterSession
    <2>5. CASE WriteFirst(s)
        <3>1. slot'[s] \in {[slot[s] EXCEPT !.pc = "relay", !.backend = FALSE], [slot[s] EXCEPT !.pc = "relay"]}
            BY <1>1, <2>5 DEF WriteFirst
        <3> QED
            BY <1>1, <2>2, <2>5, <3>1 DEF WriteFirst
    <2>6. CASE HalfClose(s)
        BY <1>1, <2>6, ZenonT(60) DEF HalfClose, Relays
    <2>7. CASE CloseUDP(s)
        BY <1>1, <2>7, ZenonT(60) DEF CloseUDP, Relays
    <2> QED
        BY <2>1, <2>3, <2>4, <2>5, <2>6, <2>7 DEF Dials, CloseTCP
<1>3. sessions' \in [Listeners -> [Clients -> Slots \cup {0}]] /\ pending' \in [Listeners -> SUBSET Clients]
    <2>1. CASE Dial(s)
        <3>1. NotPending(slot[s].at, slot[s].client) \in [Listeners -> SUBSET Clients]
            BY <1>1 DEF NotPending
        <3> QED
            BY <1>1, <2>1, <3>1 DEF Dial
    <2>2. CASE EnterSession(s)
        <3>1. [pending EXCEPT ![slot[s].at] = @ \ {slot[s].client}] \in [Listeners -> SUBSET Clients]
            BY <1>1
        <3>2. [sessions EXCEPT ![slot[s].at][slot[s].client] = s] \in [Listeners -> [Clients -> Slots \cup {0}]]
            BY <1>1
        <3> QED
            BY <1>1, <2>2, <3>1, <3>2 DEF EnterSession
    <2>3. CASE WriteFirst(s)
        <3>1. [sessions EXCEPT ![slot[s].at][slot[s].client] = 0] \in [Listeners -> [Clients -> Slots \cup {0}]]
            BY <1>1
        <3> QED
            BY <1>1, <2>3, <3>1 DEF WriteFirst
    <2>4. CASE CloseUDP(s) \/ HalfClose(s) \/ CloseTCP(s)
        BY <1>1, <2>4 DEF CloseUDP, HalfClose, CloseTCP
    <2> QED
        BY <2>1, <2>2, <2>3, <2>4 DEF Dials
<1>4. UNCHANGED <<control, socket, serve>>
    BY DEF Dials, Dial, EnterSession, WriteFirst, CloseUDP, HalfClose, CloseTCP
<1> QED
    BY <1>2, <1>3, <1>4 DEF Types, control

\* The types, action by action.
LEMMA TypesNext == Types /\ [Next]_vars => Types'
<1> SUFFICES ASSUME Types, [Next]_vars PROVE Types'
    OBVIOUS
<1>1. ASSUME NEW r \in RuleSets \cup {NoRules}, Apply(r) PROVE Types'
    BY <1>1, ForwardAssumption DEF Apply, Types
<1>2. CASE WaitServers
    BY <1>2, RestFacts DEF WaitServers, Types
<1>3. ASSUME NEW p \in Ports, Bind(p) \/ BindFails(p) PROVE Types'
    <2>1. socket' \in [Listeners -> BOOLEAN]
        BY <1>3 DEF Bind, BindFails, Rollback, Types
    <2> QED
        BY <1>3, <2>1, RestFacts DEF Bind, BindFails, Types, control
<1>4. CASE StartServing
    <2>1. Bound = DOMAIN ctl.rules /\ ctl.rules \in RuleSets \cup {NoRules}
        BY <1>4 DEF StartServing, Types
    <2>2. ASSUME NEW l \in Listeners
          PROVE  /\ serve'[l] \in Goroutines
                 /\ serve'[l].pc = "accept" => serve'[l].kind = "tcp"
                 /\ serve'[l].pc \in {"top", "read", "write"} => serve'[l].kind = "udp"
                 /\ serve'[l].pc = "write" => serve'[l].slot # 0
        <3>1. CASE l[1] = run /\ l[2] \in Bound
            <4>1. ctl.rules[l[2]] \in {"tcp", "udp"}
                BY <2>1, <3>1, RuleFacts
            <4>2. serve'[l] = [Down EXCEPT !.kind = ctl.rules[l[2]],
                                          !.pc = IF ctl.rules[l[2]] = "tcp" THEN "accept" ELSE "top"]
                BY <1>4, <3>1 DEF StartServing
            <4> QED
                BY <4>1, <4>2, RestFacts DEF Goroutines
        <3>2. CASE ~(l[1] = run /\ l[2] \in Bound)
            BY <1>4, <3>2 DEF StartServing, Types
        <3> QED
            BY <3>1, <3>2
    <2>3. serve' \in [Listeners -> Goroutines]
        BY <1>4, <2>2 DEF StartServing
    <2>4. UNCHANGED <<run, cancelled, socket, sessions, pending, slot>> /\ cancel' = run /\ ctl' = Idle
            /\ result' = "ok"
        BY <1>4 DEF StartServing
    <2> QED
        BY <2>2, <2>3, <2>4, RestFacts DEF Types
<1>5. ASSUME NEW l \in Listeners, NEW c \in Clients,
             AcceptFails(l) \/ ServeError(l) \/ CheckContext(l) \/ ReadTimeout(l) \/ WriteBackend(l)
             \/ Datagram(l, c) \/ \E s \in Slots : Accept(l, c, s)
      PROVE  Types'
    BY <1>5, ServeTypes
<1>6. ASSUME NEW s \in Slots, Dials(s) \/ CloseUDP(s) \/ HalfClose(s) \/ CloseTCP(s) PROVE Types'
    BY <1>6, DialTypes
<1>7. CASE UNCHANGED vars
    BY <1>7 DEF vars, control, Types
<1>8. Clients # {}
    BY ForwardAssumption
<1> QED
    BY <1>1, <1>2, <1>3, <1>4, <1>5, <1>6, <1>7, <1>8 DEF Next, Controls, Serves

\* A socket is bound only between the wait and the start, and closed by the goroutine
\* that serves it, so a wait for all goroutines is a wait for all sockets.
LEMMA ListenersNext == Types /\ ListenerInv /\ [Next]_vars => ListenerInv'
<1> SUFFICES ASSUME Types, ListenerInv, [Next]_vars PROVE ListenerInv'
    OBVIOUS
<1> USE DEF ListenerInv, FailureBindsNothing
<1>1. /\ socket \in [Listeners -> BOOLEAN] /\ serve \in [Listeners -> Goroutines]
      /\ \A l \in Listeners : l[1] \in Nat /\ l[2] \in Ports /\ l = <<l[1], l[2]>>
    BY ForwardAssumption DEF Types, Listeners
<1>2. ASSUME NEW r \in RuleSets \cup {NoRules}, Apply(r) PROVE ListenerInv'
    BY <1>2 DEF Apply
<1>3. CASE WaitServers
    <2>1. \A l \in Listeners : ~socket[l] /\ serve[l].pc = "none"
        BY <1>3 DEF WaitServers, Serving
    <2>2. socket' = socket /\ serve' = serve /\ ctl'.pc \in {"idle", "bind"}
        BY <1>3, RestFacts DEF WaitServers, Types
    <2> QED
        BY <2>1, <2>2
<1>4. ASSUME NEW p \in Ports, Bind(p) PROVE ListenerInv'
    <2>1. \A l \in Listeners : socket'[l] => l[1] = run
        BY <1>1, <1>4 DEF Bind
    <2> QED
        BY <1>4, <2>1 DEF Bind, control
<1>5. ASSUME NEW p \in Ports, BindFails(p) PROVE ListenerInv'
    <2>1. \A l \in Listeners : ~socket'[l]
        BY <1>1, <1>5 DEF BindFails, Rollback
    <2> QED
        BY <1>5, <2>1, RestFacts DEF BindFails
<1>6. CASE StartServing
    <2>1. ASSUME NEW l \in Listeners, socket[l] PROVE serve'[l].pc # "none" /\ l[1] = run
        <3>1. l[1] = run /\ l[2] \in Bound
            BY <1>1, <1>6, <2>1, ZenonT(60) DEF StartServing, Bound
        <3> QED
            BY <1>6, <3>1, RestFacts DEF StartServing, Goroutines
    <2>2. ASSUME NEW l \in Listeners, serve'[l].pc # "none" PROVE l[1] = run
        BY <1>6, <2>2 DEF StartServing
    <2>3. ctl'.pc = "idle" /\ result' = "ok" /\ socket' = socket /\ run' = run
        BY <1>6, RestFacts DEF StartServing
    <2> QED
        BY <2>1, <2>2, <2>3
<1>7. ASSUME NEW l \in Listeners, Return(l), UNCHANGED control PROVE ListenerInv'
    <2>1. /\ ~socket'[l] /\ serve'[l].pc = "none"
          /\ \A m \in Listeners \ {l} : socket'[m] = socket[m] /\ serve'[m] = serve[m]
        BY <1>1, <1>7, RestFacts DEF Return
    <2>2. ctl' = ctl /\ run' = run /\ result' = result
        BY <1>7 DEF control
    <2> QED
        BY <2>1, <2>2
<1>8. ASSUME NEW l \in Listeners, UNCHANGED <<control, socket>>, serve[l].pc # "none", serve'[l].pc # "none",
             \A m \in Listeners \ {l} : serve'[m] = serve[m]
      PROVE  ListenerInv'
    BY <1>8 DEF control
<1>9. ASSUME NEW l \in Listeners, NEW c \in Clients,
             AcceptFails(l) \/ ServeError(l) \/ CheckContext(l) \/ ReadTimeout(l) \/ WriteBackend(l) \/ Datagram(l, c)
      PROVE  ListenerInv'
    <2>1. CASE Return(l)
        BY <1>7, <1>9, <2>1 DEF AcceptFails, ServeError, CheckContext, ReadTimeout, WriteBackend, Datagram
    <2>2. CASE ~Return(l)
        <3>1. UNCHANGED <<control, socket>> /\ serve[l].pc # "none" /\ serve'[l].pc # "none"
                  /\ \A m \in Listeners \ {l} : serve'[m] = serve[m]
            BY <1>1, <1>9, <2>2, ZenonT(60) DEF AcceptFails, ServeError, CheckContext, ReadTimeout,
                WriteBackend, Datagram, Goroutines
        <3> QED
            BY <1>8, <3>1
    <2> QED
        BY <2>1, <2>2
<1>10. CASE UNCHANGED <<control, socket, serve>>
    BY <1>10 DEF control
<1>11. ASSUME NEW l \in Listeners, NEW c \in Clients, NEW s \in Slots, Accept(l, c, s) PROVE ListenerInv'
    BY <1>10, <1>11 DEF Accept
<1>12. ASSUME NEW s \in Slots, Dials(s) \/ CloseUDP(s) \/ HalfClose(s) \/ CloseTCP(s) PROVE ListenerInv'
    BY <1>10, <1>12 DEF Dials, Dial, EnterSession, WriteFirst, CloseUDP, HalfClose, CloseTCP
<1>13. Clients # {} /\ (UNCHANGED vars => UNCHANGED <<control, socket, serve>>)
    BY ForwardAssumption DEF vars
<1> QED
    BY <1>2, <1>3, <1>4, <1>5, <1>6, <1>9, <1>10, <1>11, <1>12, <1>13 DEF Next, Controls, Serves

\* Steps that start no dial and end none.
LEMMA SameDials ==
    ASSUME DialInv, UNCHANGED pending,
           \A s \in Slots : /\ Dialling(s)' <=> Dialling(s)
                            /\ Dialling(s) => slot'[s].at = slot[s].at /\ slot'[s].client = slot[s].client
                            /\ slot'[s].pc = "enter" => slot'[s].kind = "udp"
    PROVE  DialInv'
<1>1. \A s \in Slots : Dialling(s)' => slot'[s].client \in pending'[slot'[s].at]
    BY DEF DialInv
<1>2. ASSUME NEW l \in Listeners, NEW c \in pending'[l]
      PROVE  \E s \in Slots : Dialling(s)' /\ slot'[s].at = l /\ slot'[s].client = c
    BY DEF DialInv
<1>3. \A s, t \in Slots : Dialling(s)' /\ Dialling(t)' /\ slot'[s].at = slot'[t].at
                           /\ slot'[s].client = slot'[t].client => s = t
    BY DEF DialInv
<1> QED
    BY <1>1, <1>2, <1>3 DEF DialInv

\* The goroutine of slot s is done dialling: it was the only one for its client.
LEMMA DialEnds ==
    ASSUME Types, DialInv, NEW s \in Slots, Dialling(s), ~Dialling(s)', slot'[s].pc # "enter",
           \A t \in Slots \ {s} : slot'[t] = slot[t],
           pending' = [pending EXCEPT ![slot[s].at] = @ \ {slot[s].client}]
    PROVE  DialInv'
<1> DEFINE l == slot[s].at
           c == slot[s].client
<1>1. /\ l \in Listeners /\ pending \in [Listeners -> SUBSET Clients]
      /\ \A t \in Slots : slot[t].at \in Listeners
    BY DEF Types, Relays
<1>2. \A t \in Slots : Dialling(t)' => t # s /\ Dialling(t)
    BY DEF Dialling
<1>3. ASSUME NEW t \in Slots, Dialling(t)' PROVE slot'[t].client \in pending'[slot'[t].at]
    <2>1. t # s /\ slot'[t] = slot[t] /\ Dialling(t) /\ ~(slot[t].at = l /\ slot[t].client = c)
        BY <1>2, <1>3 DEF DialInv
    <2> QED
        BY <1>1, <2>1 DEF DialInv
<1>4. ASSUME NEW m \in Listeners, NEW d \in pending'[m]
      PROVE  \E t \in Slots : Dialling(t)' /\ slot'[t].at = m /\ slot'[t].client = d
    <2>1. d \in pending[m] /\ ~(m = l /\ d = c)
        BY <1>1
    <2>2. PICK t \in Slots : Dialling(t) /\ slot[t].at = m /\ slot[t].client = d
        BY <2>1 DEF DialInv
    <2>3. t # s /\ slot'[t] = slot[t]
        BY <2>1, <2>2
    <2> QED
        BY <2>2, <2>3 DEF Dialling
<1>5. \A t, u \in Slots : Dialling(t)' /\ Dialling(u)' /\ slot'[t].at = slot'[u].at
                           /\ slot'[t].client = slot'[u].client => t = u
    BY <1>2 DEF DialInv
<1>6. \A t \in Slots : slot'[t].pc = "enter" => slot'[t].kind = "udp"
    BY DEF DialInv
<1> QED
    BY <1>3, <1>4, <1>5, <1>6 DEF DialInv

\* The loop sends out a goroutine for a client that was not pending.
LEMMA DialStarts ==
    ASSUME Types, DialInv, NEW l \in Listeners, NEW c \in Clients, NEW s \in Slots, c \notin pending[l],
           Unused(s), Spawn(s, l, c), serve[l].kind = "udp", pending' = [pending EXCEPT ![l] = @ \cup {c}]
    PROVE  DialInv'
<1>1. /\ pending \in [Listeners -> SUBSET Clients] /\ slot \in [Slots -> Relays]
      /\ \A t \in Slots : slot[t].at \in Listeners
    BY DEF Types, Relays
<1>2. /\ slot'[s].pc = "dial" /\ slot'[s].at = l /\ slot'[s].client = c /\ slot'[s].kind = "udp"
      /\ \A t \in Slots \ {s} : slot'[t] = slot[t]
    BY <1>1 DEF Spawn, Free
<1>3. Dialling(s)' /\ ~Dialling(s) /\ \A t \in Slots \ {s} : Dialling(t)' <=> Dialling(t)
    BY <1>2 DEF Dialling, Unused
<1>4. ASSUME NEW t \in Slots, Dialling(t)' PROVE slot'[t].client \in pending'[slot'[t].at]
    BY <1>1, <1>2, <1>3, <1>4 DEF DialInv
<1>5. ASSUME NEW m \in Listeners, NEW d \in pending'[m]
      PROVE  \E t \in Slots : Dialling(t)' /\ slot'[t].at = m /\ slot'[t].client = d
    <2>1. CASE m = l /\ d = c
        BY <1>2, <1>3, <2>1
    <2>2. CASE d \in pending[m]
        <3>1. PICK t \in Slots : Dialling(t) /\ slot[t].at = m /\ slot[t].client = d
            BY <2>2 DEF DialInv
        <3> QED
            BY <1>2, <1>3, <3>1
    <2> QED
        BY <1>1, <2>1, <2>2
<1>6. \A t \in Slots \ {s} : Dialling(t)' => ~(slot'[t].at = l /\ slot'[t].client = c)
    BY <1>2, <1>3 DEF DialInv
<1>7. \A t, u \in Slots : Dialling(t)' /\ Dialling(u)' /\ slot'[t].at = slot'[u].at
                           /\ slot'[t].client = slot'[u].client => t = u
    BY <1>2, <1>3, <1>6 DEF DialInv
<1>8. \A t \in Slots : slot'[t].pc = "enter" => slot'[t].kind = "udp"
    BY <1>2 DEF DialInv
<1> QED
    BY <1>4, <1>5, <1>7, <1>8 DEF DialInv

\* Only the three steps above touch the pending clients: the loop's new client, the
\* dial that fails and the session that is entered or dropped.
LEMMA DialsNext == Types /\ DialInv /\ [Next]_vars => DialInv'
<1> SUFFICES ASSUME Types, DialInv, [Next]_vars PROVE DialInv'
    OBVIOUS
<1>1. slot \in [Slots -> Relays] /\ \A s \in Slots : slot[s].pc = "enter" => slot[s].kind = "udp"
    BY DEF Types, DialInv
<1>2. CASE UNCHANGED <<pending, slot>>
    BY <1>1, <1>2, SameDials DEF Dialling
<1>3. ASSUME NEW set, slot' = Closed(set), UNCHANGED pending PROVE DialInv'
    <2>1. \A s \in Slots : /\ slot'[s].pc = slot[s].pc /\ slot'[s].kind = slot[s].kind
                           /\ slot'[s].at = slot[s].at /\ slot'[s].client = slot[s].client
        BY <1>1, <1>3 DEF Closed, Relays
    <2> QED
        BY <1>1, <1>3, <2>1, SameDials DEF Dialling
<1>4. CASE (\E r \in RuleSets \cup {NoRules} : Apply(r)) \/ Controls \/ UNCHANGED vars
    BY <1>2, <1>4 DEF Apply, Controls, WaitServers, Bind, BindFails, StartServing, vars
<1>5. ASSUME NEW l \in Listeners, AcceptFails(l) \/ ServeError(l) \/ CheckContext(l) \/ ReadTimeout(l) \/ WriteBackend(l)
      PROVE  DialInv'
    BY <1>2, <1>3, <1>5 DEF AcceptFails, ServeError, CheckContext, ReadTimeout, WriteBackend
<1>6. ASSUME NEW l \in Listeners, NEW c \in Clients, Datagram(l, c) PROVE DialInv'
    <2>1. CASE UNCHANGED <<pending, slot>>
        BY <1>2, <2>1
    <2>2. CASE ~UNCHANGED <<pending, slot>>
        <3>1. PICK s \in Slots : c \notin pending[l] /\ Unused(s) /\ Spawn(s, l, c)
                                 /\ pending' = [pending EXCEPT ![l] = @ \cup {c}]
            BY <1>6, <2>2 DEF Datagram
        <3>2. serve[l].kind = "udp"
            BY <1>6 DEF Datagram, Types
        <3> QED
            BY <3>1, <3>2, DialStarts
    <2> QED
        BY <2>1, <2>2
<1>7. ASSUME NEW s \in Slots, UNCHANGED pending, \A t \in Slots \ {s} : slot'[t] = slot[t],
             ~Dialling(s), ~Dialling(s)', slot'[s].pc # "enter"
      PROVE  DialInv'
    <2>1. \A t \in Slots \ {s} : Dialling(t)' <=> Dialling(t)
        BY <1>7 DEF Dialling
    <2> QED
        BY <1>1, <1>7, <2>1, SameDials
<1>8. ASSUME NEW l \in Listeners, NEW c \in Clients, NEW s \in Slots, Accept(l, c, s) PROVE DialInv'
    <2>1. /\ serve[l].kind = "tcp" /\ UNCHANGED pending /\ slot[s].pc \in {"free", "relay"}
          /\ \A t \in Slots \ {s} : slot'[t] = slot[t]
        BY <1>1, <1>8 DEF Accept, Types, Unused, Spawn
    <2>2. slot'[s].kind = "tcp" /\ slot'[s].pc = "dial"
        BY <1>1, <1>8, <2>1 DEF Accept, Spawn, Free
    <2> QED
        BY <1>7, <2>1, <2>2 DEF Dialling
<1>9. ASSUME NEW s \in Slots, Dial(s) PROVE DialInv'
    <2>1. \A t \in Slots \ {s} : slot'[t] = slot[t]
        BY <1>1, <1>9 DEF Dial
    <2>2. CASE slot[s].kind # "udp"
        <3>1. slot'[s].pc # "enter" /\ UNCHANGED pending /\ (slot'[s].kind = slot[s].kind \/ slot'[s].pc = "free")
            BY <1>1, <1>9, <2>2, RestFacts DEF Dial, Relays
        <3> QED
            BY <1>7, <2>1, <2>2, <3>1 DEF Dialling
    <2>3. CASE slot[s].kind = "udp" /\ slot' = [slot EXCEPT ![s] = Free]
              /\ pending' = NotPending(slot[s].at, slot[s].client)
        BY <1>1, <1>9, <2>1, <2>3, RestFacts, DialEnds DEF Dial, Dialling, NotPending
    <2>4. CASE slot[s].kind = "udp" /\ UNCHANGED pending /\ slot'[s].pc = "enter" /\ slot'[s].kind = "udp"
              /\ slot'[s].at = slot[s].at /\ slot'[s].client = slot[s].client
        BY <1>1, <1>9, <2>1, <2>4, SameDials DEF Dial, Dialling
    <2> QED
        BY <1>1, <1>9, <2>2, <2>3, <2>4 DEF Dial, Relays
<1>10. ASSUME NEW s \in Slots, EnterSession(s) PROVE DialInv'
    <2>1. /\ \A t \in Slots \ {s} : slot'[t] = slot[t]
          /\ slot'[s].pc \in {"free", "first"}
        BY <1>1, <1>10, RestFacts DEF EnterSession, Relays
    <2>2. Dialling(s) /\ ~Dialling(s)'
        BY <1>1, <1>10, <2>1 DEF EnterSession, Dialling
    <2> QED
        BY <1>10, <2>1, <2>2, DialEnds DEF EnterSession
<1>11. ASSUME NEW s \in Slots, WriteFirst(s) \/ HalfClose(s) \/ CloseTCP(s) PROVE DialInv'
    <2>1. /\ \A t \in Slots \ {s} : slot'[t] = slot[t]
          /\ slot'[s].pc \in {"free", "relay"} /\ slot[s].pc \in {"first", "relay"} /\ UNCHANGED pending
        BY <1>1, <1>11, RestFacts DEF WriteFirst, HalfClose, CloseTCP, Relays
    <2> QED
        BY <1>7, <2>1 DEF Dialling
<1>12. ASSUME NEW s \in Slots, CloseUDP(s) PROVE DialInv'
    <2>1. \A t \in Slots : /\ slot'[t].pc = slot[t].pc /\ slot'[t].kind = slot[t].kind
                           /\ slot'[t].at = slot[t].at /\ slot'[t].client = slot[t].client
        BY <1>1, <1>12 DEF CloseUDP, Relays
    <2> QED
        BY <1>1, <1>12, <2>1, SameDials DEF Dialling, CloseUDP
<1> QED
    BY <1>4, <1>5, <1>6, <1>8, <1>9, <1>10, <1>11, <1>12 DEF Next, Serves, Dials

\* Every step preserves the inductive invariant.
LEMMA ForwardNext == ForwardInv /\ [Next]_vars => ForwardInv'
BY TypesNext, ListenersNext, DialsNext DEF ForwardInv

\* The forward proxy keeps its types: a loop writes only to a slot that was entered, and
\* a listener serves only what its rules name (vpn/ingress/forward.go:103-138, 250-330).
THEOREM ForwardTypes == Spec => []TypeOK
<1>1. ForwardInv => TypeOK
    BY TypesFromInv DEF ForwardInv
<1> QED
    BY <1>1, ForwardInit, ForwardNext, PTL DEF Spec

\* When Apply binds no listener of earlier rules is left, and one that failed left no
\* socket (vpn/ingress/forward.go:96, 103-121, 140-149).
THEOREM ListenersTheorem == Spec => []ListenersSound
<1>1. ForwardInv => ListenersSound
    BY ListenersFromInv DEF ForwardInv
<1> QED
    BY <1>1, ForwardInit, ForwardNext, PTL DEF Spec

\* A client is pending exactly while one goroutine dials for it
\* (vpn/ingress/forward.go:304-309, 339-348).
THEOREM OneDialTheorem == Spec => []OneDialPerClient
<1>1. ForwardInv => OneDialPerClient
    BY OneDialFromInv DEF ForwardInv
<1> QED
    BY <1>1, ForwardInit, ForwardNext, PTL DEF Spec
=============================================================================
