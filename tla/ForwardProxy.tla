---------------------------- MODULE ForwardProxy ----------------------------
(***************************************************************************)
(* The port forward proxy (vpn/ingress/forward.go): Apply stops the old    *)
(* listeners, waits for their goroutines, binds the new ones and serves.   *)
(* A TCP listener starts a relay per connection.  A UDP listener keeps     *)
(* sessions and pending clients in tables of its own, which its loop and   *)
(* the goroutines that resolve and dial share under one mutex.             *)
(*                                                                         *)
(* A listener is known by the Apply that bound it and its port, a session  *)
(* by the slot of its goroutine.                                           *)
(***************************************************************************)
EXTENDS Integers, FiniteSets

CONSTANTS
    Ports,          \* listen ports on the hub address
    Clients,        \* addresses datagrams and connections come from
    RuleSets,       \* rules that validateForwardRules accepts: from ports to "tcp" or "udp"
    Slots,          \* connections and sessions under way at a time
    MaxApply        \* bound on Apply and Stop

ASSUME ForwardAssumption ==
    /\ MaxApply \in Nat \ {0} /\ Ports # {} /\ Clients # {}
    /\ 0 \notin Slots
    /\ \A r \in RuleSets : DOMAIN r \subseteq Ports /\ \A p \in DOMAIN r : r[p] \in {"tcp", "udp"}

VARIABLES
    ctl,        \* the thread in Apply or Stop: [pc, rules, bound]
    run,        \* number of Apply calls so far
    cancel,     \* the Apply whose context ForwardProxy.cancel cancels, or 0
    cancelled,  \* contexts that were cancelled
    result,     \* of the last Apply
    socket,     \* socket[l]: the listener is bound
    serve,      \* serve[l]: its goroutine
    sessions,   \* sessions[l][c]: a slot, or 0
    pending,    \* pending[l]: clients that a goroutine dials for
    slot

control == <<ctl, run, cancel, cancelled, result>>
vars == <<control, socket, serve, sessions, pending, slot>>

Listeners == (1 .. MaxApply) \X Ports
NoRules == [p \in {} |-> "udp"]
Idle == [pc |-> "idle", rules |-> NoRules]
Down == [pc |-> "none", kind |-> "none", slot |-> 0, client |-> CHOOSE c \in Clients : TRUE]
Free == [pc |-> "free", at |-> CHOOSE l \in Listeners : TRUE, client |-> CHOOSE c \in Clients : TRUE,
         kind |-> "none", backend |-> FALSE, relay |-> FALSE]

Init ==
    /\ ctl = Idle /\ run = 0 /\ cancel = 0 /\ cancelled = {} /\ result = "none"
    /\ socket = [l \in Listeners |-> FALSE]
    /\ serve = [l \in Listeners |-> Down]
    /\ sessions = [l \in Listeners |-> [c \in Clients |-> 0]]
    /\ pending = [l \in Listeners |-> {}]
    /\ slot = [s \in Slots |-> Free]

Cancelled(l) == l[1] \in cancelled
Serving == {l \in Listeners : serve[l].pc # "none"}

-----------------------------------------------------------------------------
(* Apply and Stop, under Stack.mu.                                         *)

\* Mutant: the cancel function is called also where there is none.
BugApplyCancelsNil(rules) ==
    /\ ctl.pc = "idle" /\ run < MaxApply
    /\ run' = run + 1
    /\ cancel' = 0
    /\ cancelled' = cancelled \cup {cancel}
    /\ ctl' = [pc |-> "wait", rules |-> rules]
    /\ UNCHANGED <<result, socket, serve, sessions, pending, slot>>

\* Stop cancels the old context and waits; Apply goes on from there.
Apply(rules) ==
    /\ ctl.pc = "idle" /\ run < MaxApply
    /\ run' = run + 1
    /\ cancel' = 0
    /\ cancelled' = cancelled \cup ({cancel} \ {0})
    /\ ctl' = [pc |-> "wait", rules |-> rules]
    /\ UNCHANGED <<result, socket, serve, sessions, pending, slot>>

\* Mutant: the goroutines are not waited for.
BugWaitServers ==
    /\ ctl.pc = "wait"
    /\ IF ctl.rules = NoRules
       THEN ctl' = Idle /\ result' = "ok"
       ELSE ctl' = [ctl EXCEPT !.pc = "bind"] /\ UNCHANGED result
    /\ UNCHANGED <<run, cancel, cancelled, socket, serve, sessions, pending, slot>>

\* wg.Wait: every serving goroutine has returned.
WaitServers ==
    /\ ctl.pc = "wait"
    /\ Serving = {}
    /\ IF ctl.rules = NoRules
       THEN ctl' = Idle /\ result' = "ok"
       ELSE ctl' = [ctl EXCEPT !.pc = "bind"] /\ UNCHANGED result
    /\ UNCHANGED <<run, cancel, cancelled, socket, serve, sessions, pending, slot>>

Bound == {p \in Ports : socket[<<run, p>>]}

\* A bind fails when another socket has the port, and may fail for other reasons.
Taken(p) == \E l \in Listeners : l[2] = p /\ socket[l]

Bind(p) ==
    /\ ctl.pc = "bind" /\ p \in DOMAIN ctl.rules \ Bound
    /\ ~Taken(p)
    /\ socket' = [socket EXCEPT ![<<run, p>>] = TRUE]
    /\ UNCHANGED <<control, serve, sessions, pending, slot>>

Rollback == [l \in Listeners |-> socket[l] /\ l[1] # run]

BindFails(p) ==
    /\ ctl.pc = "bind" /\ p \in DOMAIN ctl.rules \ Bound
    /\ socket' = Rollback
    /\ ctl' = Idle /\ result' = "error"
    /\ UNCHANGED <<run, cancel, cancelled, serve, sessions, pending, slot>>

\* All binds succeeded: a context, and a goroutine for every listener.
StartServing ==
    /\ ctl.pc = "bind" /\ Bound = DOMAIN ctl.rules
    /\ cancel' = run
    /\ serve' = [l \in Listeners |->
                    IF l[1] = run /\ l[2] \in Bound
                    THEN [Down EXCEPT !.kind = ctl.rules[l[2]],
                                      !.pc = IF ctl.rules[l[2]] = "tcp" THEN "accept" ELSE "top"]
                    ELSE serve[l]]
    /\ ctl' = Idle /\ result' = "ok"
    /\ UNCHANGED <<run, cancelled, socket, sessions, pending, slot>>

-----------------------------------------------------------------------------
(* The serving goroutines.                                                 *)

\* The goroutine returns: deferred, the socket is closed, then wg.Done.
Return(l) ==
    /\ serve' = [serve EXCEPT ![l] = Down]
    /\ socket' = [socket EXCEPT ![l] = FALSE]

\* A slot that nobody refers to.
Unused(s) == /\ slot[s].pc = "free" \/ (slot[s].pc = "relay" /\ ~slot[s].relay)
             /\ \A l \in Listeners : serve[l].slot # s /\ \A c \in Clients : sessions[l][c] # s

Spawn(s, l, c) ==
    slot' = [slot EXCEPT ![s] = [Free EXCEPT !.pc = "dial", !.at = l, !.client = c, !.kind = serve[l].kind]]

Accept(l, c, s) ==
    /\ serve[l].pc = "accept" /\ Unused(s)
    /\ Spawn(s, l, c)
    /\ UNCHANGED <<control, socket, serve, sessions, pending>>

\* The goroutine beside serveTCP closes the listener, Accept fails.
AcceptFails(l) ==
    /\ serve[l].pc = "accept" /\ Cancelled(l)
    /\ Return(l)
    /\ UNCHANGED <<control, sessions, pending, slot>>

\* Accept or ReadFrom fails although nothing was cancelled: the rule is in force, and
\* nobody serves its port any more; its sessions are left as they are.
ServeError(l) ==
    /\ serve[l].pc \in {"accept", "read"} /\ ~Cancelled(l)
    /\ Return(l)
    /\ UNCHANGED <<control, sessions, pending, slot>>

Closed(set) == [s \in Slots |-> IF s \in set THEN [slot[s] EXCEPT !.backend = FALSE] ELSE slot[s]]
SessionsOf(l) == {s \in Slots : \E c \in Clients : sessions[l][c] = s}

\* serveUDP, the top of the loop.
CheckContext(l) ==
    /\ serve[l].pc = "top"
    /\ IF Cancelled(l)
       THEN Return(l) /\ slot' = Closed(SessionsOf(l))
       ELSE serve' = [serve EXCEPT ![l].pc = "read"] /\ UNCHANGED <<socket, slot>>
    /\ UNCHANGED <<control, sessions, pending>>

\* Nothing came for readWait.  After a cancel the loop is left, sessions or not;
\* otherwise sessions that were idle for long are closed.
ReadTimeout(l) ==
    /\ serve[l].pc = "read"
    /\ IF Cancelled(l)
       THEN Return(l) /\ UNCHANGED <<sessions, slot>>
       ELSE \E old \in SUBSET SessionsOf(l) :
            /\ slot' = Closed(old)
            /\ sessions' = [sessions EXCEPT ![l] = [c \in Clients |-> IF @[c] \in old THEN 0 ELSE @[c]]]
            /\ serve' = [serve EXCEPT ![l].pc = "top"]
            /\ UNCHANGED socket
    /\ UNCHANGED <<control, pending>>

\* A datagram of a client with a session, of one that is being dialled for, or of a
\* new one.
Datagram(l, c) ==
    /\ serve[l].pc = "read"
    /\ \/ /\ sessions[l][c] # 0
          /\ serve' = [serve EXCEPT ![l] = [@ EXCEPT !.pc = "write", !.slot = sessions[l][c], !.client = c]]
          /\ UNCHANGED <<pending, slot>>
       \/ /\ sessions[l][c] = 0 /\ c \in pending[l]
          /\ serve' = [serve EXCEPT ![l].pc = "top"]
          /\ UNCHANGED <<pending, slot>>
       \/ /\ sessions[l][c] = 0 /\ c \notin pending[l]
          /\ pending' = [pending EXCEPT ![l] = @ \cup {c}]
          /\ \E s \in Slots : Unused(s) /\ Spawn(s, l, c)
          /\ serve' = [serve EXCEPT ![l].pc = "top"]
    /\ UNCHANGED <<control, socket, sessions>>

\* The write to the session's backend, outside the mutex; it fails on a closed one.
WriteBackend(l) ==
    LET s == serve[l].slot
    IN  /\ serve[l].pc = "write"
        /\ serve' = [serve EXCEPT ![l].pc = "top", ![l].slot = 0]
        /\ \/ slot[s].backend /\ UNCHANGED <<sessions, slot>>
           \/ /\ slot' = Closed({s})
              /\ sessions' = [sessions EXCEPT ![l][serve[l].client] = 0]
        /\ UNCHANGED <<control, socket, pending>>

-----------------------------------------------------------------------------
(* The goroutines of sessions and connections.                             *)

\* Mutant: a client whose target cannot be dialled stays pending.
BugNotPending(l, c) == pending

NotPending(l, c) == [pending EXCEPT ![l] = @ \ {c}]

\* Resolve and dial, outside the loop and outside the mutex.
Dial(s) ==
    /\ slot[s].pc = "dial"
    /\ \/ /\ slot' = [slot EXCEPT ![s].pc = IF slot[s].kind = "udp" THEN "enter" ELSE "relay",
                                  ![s].backend = TRUE, ![s].relay = (slot[s].kind = "tcp")]
          /\ UNCHANGED pending
       \/ /\ slot' = [slot EXCEPT ![s] = Free]
          /\ pending' = IF slot[s].kind = "udp" THEN NotPending(slot[s].at, slot[s].client) ELSE pending
    /\ UNCHANGED <<control, socket, serve, sessions>>

\* The session is entered, unless its context was cancelled; its relay starts.
EnterSession(s) ==
    LET l == slot[s].at
        c == slot[s].client
    IN  /\ slot[s].pc = "enter"
        /\ pending' = [pending EXCEPT ![l] = @ \ {c}]
        /\ IF Cancelled(l)
           THEN slot' = [slot EXCEPT ![s] = Free] /\ UNCHANGED sessions
           ELSE /\ sessions' = [sessions EXCEPT ![l][c] = s]
                /\ slot' = [slot EXCEPT ![s].pc = "first", ![s].relay = TRUE]
        /\ UNCHANGED <<control, socket, serve>>

\* The first datagram; when it cannot be written, the client's entry goes, whoever
\* made it.
WriteFirst(s) ==
    /\ slot[s].pc = "first"
    /\ \/ /\ slot[s].backend
          /\ slot' = [slot EXCEPT ![s].pc = "relay"]
          /\ UNCHANGED sessions
       \/ /\ slot' = [slot EXCEPT ![s].pc = "relay", ![s].backend = FALSE]
          /\ sessions' = [sessions EXCEPT ![slot[s].at][slot[s].client] = 0]
    /\ UNCHANGED <<control, socket, serve, pending>>

\* Mutant: the relay only notices a closed backend.
BugEnds(s) == ~slot[s].backend

\* What makes a relay return at its next deadline, datagram or write.
Ends(s) == ~slot[s].backend \/ Cancelled(slot[s].at)

\* The relay returns, also on an error or after SessionIdle, and closes its backend;
\* the table keeps the entry.
CloseUDP(s) ==
    /\ slot[s].relay /\ slot[s].kind = "udp"
    /\ slot' = [slot EXCEPT ![s].relay = FALSE, ![s].backend = FALSE]
    /\ UNCHANGED <<control, socket, serve, sessions, pending>>

\* proxyTCP, as in the map proxy: one direction ends and the backend is closed, ...
HalfClose(s) ==
    /\ slot[s].pc = "relay" /\ slot[s].kind = "tcp" /\ slot[s].backend
    /\ slot' = [slot EXCEPT ![s].backend = FALSE]
    /\ UNCHANGED <<control, socket, serve, sessions, pending>>

\* ... then the other, or the context is cancelled while both are open.
CloseTCP(s) ==
    /\ slot[s].pc = "relay" /\ slot[s].kind = "tcp" /\ slot[s].relay
    /\ slot[s].backend => Cancelled(slot[s].at)
    /\ slot' = [slot EXCEPT ![s] = Free]
    /\ UNCHANGED <<control, socket, serve, sessions, pending>>

-----------------------------------------------------------------------------
Controls == WaitServers \/ (\E p \in Ports : Bind(p) \/ BindFails(p)) \/ StartServing
Serves(l) == \/ AcceptFails(l) \/ CheckContext(l) \/ ReadTimeout(l) \/ WriteBackend(l)
             \/ \E c \in Clients : Datagram(l, c)
Dials(s) == Dial(s) \/ EnterSession(s) \/ WriteFirst(s)

Next ==
    \/ \E r \in RuleSets \cup {NoRules} : Apply(r)
    \/ Controls
    \/ \E l \in Listeners : \/ Serves(l) \/ ServeError(l)
                           \/ \E c \in Clients, s \in Slots : Accept(l, c, s)
    \/ \E s \in Slots : Dials(s) \/ CloseUDP(s) \/ HalfClose(s) \/ CloseTCP(s)

Spec == Init /\ [][Next]_vars

\* Goroutines run, reads of the loop have a deadline of half a second, reads of a
\* relay one of SessionIdle; whether a relay with a live context ends is up to its peers.
FairSpec ==
    /\ Spec
    /\ WF_vars(Controls)
    /\ \A l \in Listeners : WF_vars(Serves(l))
    /\ \A s \in Slots : /\ WF_vars(Dials(s)) /\ WF_vars(Ends(s) /\ CloseUDP(s))
                        /\ WF_vars(slot[s].backend /\ CloseTCP(s))

-----------------------------------------------------------------------------
(* Properties.                                                             *)

TypeOK ==
    /\ ctl.pc \in {"idle", "wait", "bind"} /\ DOMAIN ctl.rules \subseteq Ports
    /\ run \in 0 .. MaxApply /\ cancel \in 0 .. run /\ cancelled \subseteq 1 .. run
    /\ result \in {"none", "ok", "error"}
    /\ socket \in [Listeners -> BOOLEAN]
    /\ sessions \in [Listeners -> [Clients -> Slots \cup {0}]]
    /\ pending \in [Listeners -> SUBSET Clients]
    /\ \A l \in Listeners : serve[l].pc \in {"none", "accept", "top", "read", "write"}
    /\ \A l \in Listeners : serve[l].pc = "write" => serve[l].slot \in Slots
    /\ slot \in [Slots -> [pc : {"free", "dial", "enter", "first", "relay"}, at : Listeners,
                           client : Clients, kind : {"none", "tcp", "udp"},
                           backend : BOOLEAN, relay : BOOLEAN]]

\* When Apply binds, and when it is done, no listener of an earlier Apply is left: a
\* rule never collides with its own former self, and no datagram is still served by
\* rules that were replaced (vpn/ingress/forward.go:103-121, 140-149).
OldListenersGone ==
    ctl.pc \in {"bind", "idle"} => \A l \in Listeners :
        socket[l] \/ serve[l].pc # "none" => l[1] = run

\* "On failure, any successfully pre-bound listeners are closed (rollback)."
\* (vpn/ingress/forward.go:96): an Apply that could not bind has left no socket.
FailureBindsNothing ==
    ctl.pc = "idle" /\ result = "error" => \A l \in Listeners : ~socket[l]

\* Ports are free when they are bound again, and after a failure
\* (vpn/ingress/forward.go:103-121).
ListenersSound == OldListenersGone /\ FailureBindsNothing

\* Every goroutine that may enter a session is known to the table: a client is pending
\* exactly while one dials for it, so that no two dial for the same client
\* (vpn/ingress/forward.go:304-309, 339-348).
OneDialPerClient ==
    \A l \in Listeners, c \in Clients :
        Cardinality({s \in Slots : slot[s].pc \in {"dial", "enter"} /\ slot[s].kind = "udp"
                                   /\ slot[s].at = l /\ slot[s].client = c})
            = IF c \in pending[l] THEN 1 ELSE 0

\* Apply and Stop return, although they wait for goroutines that wait for datagrams
\* (vpn/ingress/forward.go:148, 188-191, 256-267).
ApplyReturns == ctl.pc # "idle" ~> ctl.pc = "idle"

\* No backend outlives the rules it was dialled for, also where the loop returned
\* without closing the sessions (vpn/ingress/forward.go:259-272, 342-345, 353-355).
BackendsEnd ==
    \A s \in Slots : (slot[s].backend /\ Cancelled(slot[s].at)) ~> ~slot[s].backend

\* Replacing the rules ends, for the caller and for what the old rules served
\* (vpn/ingress/forward.go:140-149, 349-365).
OldRulesEnd == ApplyReturns /\ BackendsEnd
=============================================================================
