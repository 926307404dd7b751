------------------------------ MODULE MapProxy ------------------------------
(***************************************************************************)
(* The service map proxy (vpn/ingress/servicemap.go): handlers of the      *)
(* network stack's forwarders admit a client by the rules of a generation, *)
(* resolve and dial on a goroutine of their own, and relay, while Apply    *)
(* and Stop replace rules, contexts and tables.                            *)
(*                                                                         *)
(* A handler takes MapProxy.mu four times and udpMu once or twice, and     *)
(* other threads run in between.  Rule objects are made anew by every      *)
(* Apply, so a rule is known by its generation.  A slot is one request,    *)
(* from the packet that reaches the forwarder to the end of its relay.     *)
(***************************************************************************)
EXTENDS Integers, FiniteSets

CONSTANTS
    Slots,          \* requests under way at a time
    Keys,           \* flows, as [peer, vip]
    Configs,        \* what Apply may be given: [allowed : vip -> groups, group : peer -> group]
    NoRules,        \* the configuration without rules
    MaxGeneration,  \* bound on Apply and Stop
    Background      \* the context that is never cancelled

ASSUME ProxyAssumption ==
    /\ MaxGeneration \in Nat /\ Background \notin 1 .. MaxGeneration
    /\ NoRules \notin Configs /\ Keys # {} /\ 0 \notin Slots
    /\ \A c \in Configs : \A k \in Keys : k.vip \in DOMAIN c.allowed => c.allowed[k.vip] # {}

VARIABLES
    generation,
    conf,           \* conf[g]: rules and peer groups of generation g
    ctx,            \* the current context, by its generation
    cancelled,      \* contexts whose cancel function has run
    ctl,            \* Apply is at its call of oldCancel, or idle, or the proxy was stopped
    udpSessions,    \* flow -> slot, or 0
    udpPending,     \* flow -> generation, or 0
    slot

control == <<generation, conf, ctx, cancelled, ctl>>
tables == <<udpSessions, udpPending>>
vars == <<control, tables, slot>>

Free == [pc |-> "free", kind |-> "none", key |-> CHOOSE k \in Keys : TRUE, ctx |-> Background,
         gen |-> 0, client |-> FALSE, backend |-> FALSE]

Init ==
    /\ generation = 0 /\ ctx = Background /\ cancelled = {} /\ ctl = "idle"
    /\ conf = [g \in 0 .. MaxGeneration |-> NoRules]
    /\ udpSessions = [k \in Keys |-> 0] /\ udpPending = [k \in Keys |-> 0]
    /\ slot = [s \in Slots |-> Free]

Goto(s, pc) == slot' = [slot EXCEPT ![s].pc = pc]
Done(s) == slot' = [slot EXCEPT ![s] = Free]

HasRule(g, k) == conf[g] # NoRules /\ k.vip \in DOMAIN conf[g].allowed

\* peerAllowed, with the rule of one generation and the groups of another.
peerAllowed(rules, peers, k) ==
    /\ HasRule(rules, k)
    /\ conf[peers] # NoRules /\ k.peer \in DOMAIN conf[peers].group
    /\ conf[peers].group[k.peer] \in conf[rules].allowed[k.vip]

-----------------------------------------------------------------------------
(* Apply and Stop, one at a time under Stack.mu.                           *)

\* closeUDPSessions: both ends of every session, and the tables.
Registered == {s \in Slots : \E k \in Keys : udpSessions[k] = s}
closeUDPSessions ==
    /\ slot' = [s \in Slots |-> IF s \in Registered
                                THEN [slot[s] EXCEPT !.client = FALSE, !.backend = FALSE]
                                ELSE slot[s]]
    /\ udpSessions' = [k \in Keys |-> 0]
    /\ udpPending' = [k \in Keys |-> 0]

\* Mutant: the generation stays.
BugApplySameGeneration(c) ==
    /\ ctl = "idle" /\ generation < MaxGeneration
    /\ generation' = generation
    /\ conf' = [conf EXCEPT ![generation + 1] = c]
    /\ ctx' = generation + 1
    /\ closeUDPSessions
    /\ ctl' = "cancel"
    /\ UNCHANGED cancelled

\* The critical section of Apply: new generation, context and rules, sessions closed.
Apply(c) ==
    /\ ctl = "idle" /\ generation < MaxGeneration
    /\ generation' = generation + 1
    /\ conf' = [conf EXCEPT ![generation + 1] = c]
    /\ ctx' = generation + 1
    /\ closeUDPSessions
    /\ ctl' = "cancel"
    /\ UNCHANGED cancelled

\* Mutant: the old context is dropped, not cancelled.
BugCancelNothing ==
    /\ ctl = "cancel"
    /\ ctl' = "idle"
    /\ UNCHANGED <<generation, conf, ctx, cancelled, tables, slot>>

\* oldCancel, after the lock was released.
CancelOld ==
    /\ ctl = "cancel"
    /\ cancelled' = cancelled \cup ({generation - 1} \ {0})
    /\ ctl' = "idle"
    /\ UNCHANGED <<generation, conf, ctx, tables, slot>>

\* Stop, all of it under the lock.  The stack drops the proxy after it.
Stop ==
    /\ ctl = "idle" /\ generation \in 1 .. MaxGeneration - 1
    /\ cancelled' = cancelled \cup {generation}
    /\ ctx' = Background
    /\ generation' = generation + 1
    /\ closeUDPSessions
    /\ ctl' = "stopped"
    /\ UNCHANGED conf

-----------------------------------------------------------------------------
(* A request: handleTCPForwarderRequest, handleUDPForwarderRequest.        *)

\* A packet that no endpoint takes; the handler is called with currentContext().
Request(s, kind, k) ==
    /\ slot[s].pc = "free" /\ generation > 0
    /\ kind = "udp" => \A t \in Slots : ~(slot[t].kind = "udp" /\ slot[t].key = k /\ slot[t].client)
    /\ slot' = [slot EXCEPT ![s] = [Free EXCEPT !.pc = "rule", !.kind = kind, !.key = k, !.ctx = ctx]]
    /\ UNCHANGED <<control, tables>>

\* The rule and its generation.
LookupRule(s) ==
    /\ slot[s].pc = "rule"
    /\ IF HasRule(generation, slot[s].key)
       THEN slot' = [slot EXCEPT ![s].pc = "allowed", ![s].gen = generation]
       ELSE Done(s)
    /\ UNCHANGED <<control, tables>>

\* The peers' groups, which Stop does not clear as it clears the rules.
GroupsInForce == IF ctl = "stopped" THEN generation - 1 ELSE generation

\* The peer's group, as it is by now.
CheckPeer(s) ==
    /\ slot[s].pc = "allowed"
    /\ IF peerAllowed(slot[s].gen, GroupsInForce, slot[s].key)
       THEN Goto(s, IF slot[s].kind = "udp" THEN "reserve" ELSE "endpoint")
       ELSE Done(s)
    /\ UNCHANGED <<control, tables>>

\* Under both locks: still the same generation, and the flow is not taken.
Reserve(s) ==
    LET k == slot[s].key
    IN  /\ slot[s].pc = "reserve"
        /\ IF slot[s].gen = generation /\ udpSessions[k] = 0 /\ udpPending[k] = 0
           THEN udpPending' = [udpPending EXCEPT ![k] = slot[s].gen] /\ Goto(s, "endpoint")
           ELSE Done(s) /\ UNCHANGED udpPending
        /\ UNCHANGED <<control, udpSessions>>

\* Mutant: another generation's reservation is left, and so is one's own.
BugKeepPending(s) == udpPending

\* deleteUDPPending, which spares another generation's reservation.
deleteUDPPending(s) ==
    IF slot[s].kind = "udp" /\ udpPending[slot[s].key] = slot[s].gen
    THEN [udpPending EXCEPT ![slot[s].key] = 0] ELSE udpPending

\* CreateEndpoint may fail, as it must when the flow has an endpoint already.
CreateEndpoint(s) ==
    /\ slot[s].pc = "endpoint"
    /\ \/ /\ slot[s].kind = "udp" => \A t \in Slots :
                 ~(slot[t].kind = "udp" /\ slot[t].key = slot[s].key /\ slot[t].client)
          /\ slot' = [slot EXCEPT ![s].pc = "dial", ![s].client = TRUE]
          /\ UNCHANGED udpPending
       \/ Done(s) /\ udpPending' = deleteUDPPending(s)
    /\ UNCHANGED <<control, udpSessions>>

-----------------------------------------------------------------------------
(* The goroutine of a request.                                             *)

\* Resolve the target and dial its addresses in turn, each with a timeout.
Dial(s) ==
    /\ slot[s].pc = "dial"
    /\ \/ slot' = [slot EXCEPT ![s].pc = IF slot[s].kind = "udp" THEN "enter" ELSE "relay",
                               ![s].backend = TRUE]
          /\ UNCHANGED udpPending
       \/ Done(s) /\ udpPending' = deleteUDPPending(s)
    /\ UNCHANGED <<control, udpSessions>>

\* Mutant: only the session table is looked at.
BugEnterUnchecked(s) ==
    LET k == slot[s].key
    IN  /\ slot[s].pc = "enter"
        /\ udpPending' = [udpPending EXCEPT ![k] = 0]
        /\ IF slot[s].ctx \notin cancelled /\ udpSessions[k] = 0
           THEN udpSessions' = [udpSessions EXCEPT ![k] = s] /\ Goto(s, "relay")
           ELSE Done(s) /\ UNCHANGED udpSessions
        /\ UNCHANGED control

\* createMapUDPSession, under udpMu: the reservation must still be this generation's.
EnterSession(s) ==
    LET k == slot[s].key
    IN  /\ slot[s].pc = "enter"
        /\ IF udpPending[k] # slot[s].gen
           THEN Done(s) /\ UNCHANGED tables
           ELSE /\ udpPending' = [udpPending EXCEPT ![k] = 0]
                /\ IF slot[s].ctx \notin cancelled /\ udpSessions[k] = 0
                   THEN udpSessions' = [udpSessions EXCEPT ![k] = s] /\ Goto(s, "relay")
                   ELSE Done(s) /\ UNCHANGED udpSessions
        /\ UNCHANGED control

\* The relay loops find their context cancelled or their connections closed.
Ended(s) == slot[s].ctx \in cancelled \/ ~slot[s].backend

\* mapUDPBackendToClient returns: it closes both ends and deletes its own session.
\* The read deadline brings it to its loop condition.  The other direction returns
\* without touching anything.
CloseUDP(s) ==
    /\ slot[s].pc = "relay" /\ slot[s].kind = "udp"
    /\ Done(s)
    /\ udpSessions' = [k \in Keys |-> IF udpSessions[k] = s THEN 0 ELSE udpSessions[k]]
    /\ UNCHANGED <<control, udpPending>>

\* proxyTCP: one direction ended, the backend is closed; the goroutine then waits for
\* the other direction only.
HalfClose(s) ==
    /\ slot[s].pc = "relay" /\ slot[s].kind = "tcp"
    /\ slot' = [slot EXCEPT ![s].pc = "half", ![s].backend = FALSE]
    /\ UNCHANGED <<control, tables>>

\* ... which returns once the client sends or closes.
ClientEnds(s) == slot[s].pc = "half" /\ Done(s) /\ UNCHANGED <<control, tables>>

\* proxyTCP: the context was cancelled while both directions ran.
CancelTCP(s) ==
    /\ slot[s].pc = "relay" /\ slot[s].kind = "tcp"
    /\ slot[s].ctx \in cancelled
    /\ Done(s)
    /\ UNCHANGED <<control, tables>>

-----------------------------------------------------------------------------
Handle(s) ==
    \/ LookupRule(s) \/ CheckPeer(s) \/ Reserve(s) \/ CreateEndpoint(s)
    \/ Dial(s) \/ EnterSession(s)

Next ==
    \/ \E c \in Configs : Apply(c)
    \/ CancelOld
    \/ Stop
    \/ \E s \in Slots : \E kind \in {"udp", "tcp"}, k \in Keys : Request(s, kind, k)
    \/ \E s \in Slots : \/ Handle(s) \/ CloseUDP(s)
                        \/ HalfClose(s) \/ ClientEnds(s) \/ CancelTCP(s)

Spec == Init /\ [][Next]_vars

\* Goroutines that can run do run, dials and reads have deadlines.  An idle relay
\* with a live context, and a client that is silent, may stay as they are.
FairSpec ==
    /\ Spec
    /\ WF_vars(CancelOld)
    /\ \A s \in Slots : WF_vars(Handle(s)) /\ WF_vars(Ended(s) /\ CloseUDP(s)) /\ WF_vars(CancelTCP(s))

-----------------------------------------------------------------------------
(* Properties.                                                             *)

TypeOK ==
    /\ generation \in 0 .. MaxGeneration
    /\ ctx \in 1 .. generation \cup {Background} /\ cancelled \subseteq 1 .. generation
    /\ ctl \in {"idle", "cancel", "stopped"}
    /\ conf \in [0 .. MaxGeneration -> Configs \cup {NoRules}]
    /\ udpSessions \in [Keys -> Slots \cup {0}]
    /\ udpPending \in [Keys -> 0 .. generation]
    /\ slot \in [Slots -> [pc : {"free", "rule", "allowed", "reserve", "endpoint", "dial",
                                 "enter", "relay", "half"},
                           kind : {"none", "udp", "tcp"}, key : Keys,
                           ctx : 1 .. generation \cup {Background}, gen : 0 .. generation,
                           client : BOOLEAN, backend : BOOLEAN]]

\* Every session and reservation in the tables is the current generation's: a dial
\* that Apply or Stop overtook is not entered (vpn/ingress/servicemap.go:301-319, 353-375).
SessionsCurrent ==
    \A k \in Keys : /\ udpSessions[k] # 0 => /\ slot[udpSessions[k]].gen = generation
                                             /\ slot[udpSessions[k]].backend
                    /\ udpPending[k] \in {0, generation}

\* "Only allowed groups may connect; access is enforced in the map proxy." (README.md:158):
\* every registered flow is allowed by the rules and groups in force, although they
\* were read one after the other (vpn/ingress/servicemap.go:277-306).
SessionsAllowed ==
    \A k \in Keys : udpSessions[k] # 0 => peerAllowed(generation, generation, k)

\* A relay that the current rules would refuse hangs on a context that is cancelled or
\* about to be: whoever was admitted by a mix of old rules and new groups took its
\* context before either (vpn/ingress/servicemap.go:157-164, 234-268).
Revocable ==
    \A s \in Slots : slot[s].pc \in {"endpoint", "dial", "relay"} /\ slot[s].kind = "tcp"
                     /\ ~peerAllowed(generation, generation, slot[s].key)
        => \/ slot[s].ctx \in cancelled
           \/ ctl = "cancel" /\ slot[s].ctx = generation - 1

\* What was admitted, in the tables or outside them, is what the rules in force would
\* admit, or is about to be cancelled (vpn/ingress/servicemap.go:112-164, 234-375).
AdmissionSound == SessionsCurrent /\ SessionsAllowed /\ Revocable

\* What the rules in force refuse loses its backend, TCP or UDP
\* (vpn/ingress/servicemap.go:151-153, 417-419, 473-478).
RevokedEnds ==
    \A s \in Slots : (slot[s].backend /\ ~peerAllowed(generation, generation, slot[s].key))
                        ~> (~slot[s].backend \/ peerAllowed(generation, generation, slot[s].key))

\* No reservation keeps a client out for good: it becomes a session or is taken back,
\* on every error path (vpn/ingress/servicemap.go:314-317, 324, 336, 350, 380-386).
ReservationsEnd == \A k \in Keys : udpPending[k] # 0 ~> udpPending[k] = 0
=============================================================================
