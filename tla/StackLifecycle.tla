--------------------------- MODULE StackLifecycle ---------------------------
(***************************************************************************)
(* The locks around the VPN stack: Stack.mu, Stack.lifecycleMu, the        *)
(* generation and stopping fields (vpn/runtime/stack.go), Hub.dpMu and the *)
(* status poller (service/hub.go), App.controlMu (service).                *)
(*                                                                         *)
(* Threads are HTTP handlers that mutate the hub and the boot goroutine,   *)
(* whose Start runs outside controlMu while the tunnel web server already  *)
(* answers.  A step is what happens between two points at which another    *)
(* thread can interfere: taking a lock, waiting for a channel, releasing a *)
(* lock that others wait for.  The store is a version number, and so is    *)
(* what the device and the filter were last given.                         *)
(***************************************************************************)
EXTENDS Integers, FiniteSets

CONSTANTS
    Callers,     \* handler goroutines
    Boot,        \* the goroutine of bootstrap.Run
    Nobody,      \* a free mutex
    BootStates,  \* whether the hub may be configured when the process starts
    MaxVersion,  \* bound on store writes
    MaxPollers   \* slots for pollers, those that are exiting included

ASSUME LifecycleAssumption ==
    /\ Boot \notin Callers /\ Nobody \notin Callers \cup {Boot}
    /\ BootStates \subseteq BOOLEAN
    /\ MaxVersion \in Nat
    /\ MaxPollers \in Nat /\ MaxPollers > Cardinality(Callers)

VARIABLES
    th,             \* th[t]: the thread's point of execution and locals
    controlMu, mu, lifecycleMu,     \* holders
    tunnelMgr,      \* the running manager, by number, or 0
    issued,         \* managers created so far
    generation, stopping,
    liveDP,         \* Hub.liveDP # nil
    dpReaders,      \* pollers that hold dpMu for reading
    statusRunning,
    statusDone,     \* the poller whose done channel Hub.statusDone is, or 0
    poll,           \* poll[i]: where poller i is
    stopCh,         \* pollers whose stop channel is closed
    db, device, filter,     \* versions: the store, the device, the TUN policy
    configured,
    web             \* the tunnel web server answers

locks == <<controlMu, mu, lifecycleMu>>
stack == <<tunnelMgr, issued, generation, stopping, device, filter, web>>
pollVars == <<dpReaders, statusRunning, statusDone, poll, stopCh>>
store == <<db, configured>>
vars == <<th, locks, stack, liveDP, pollVars, store>>

Threads == Callers \cup {Boot}
Pollers == 1 .. MaxPollers
Ops == {"mutate", "retune", "restart", "reset", "setup"}

Idle == [pc |-> "idle", op |-> "none", bundle |-> 0, mgr |-> 0, gen |-> 0, done |-> 0, ret |-> "none"]

Init ==
    /\ configured \in BootStates
    /\ th = [t \in Threads |->
                IF t = Boot /\ configured THEN [Idle EXCEPT !.pc = "start", !.op = "boot"] ELSE Idle]
    /\ controlMu = Nobody /\ mu = Nobody /\ lifecycleMu = Nobody
    /\ tunnelMgr = 0 /\ issued = 0 /\ generation = 0 /\ stopping = FALSE
    /\ liveDP = FALSE
    /\ dpReaders = {} /\ statusRunning = FALSE /\ statusDone = 0
    /\ poll = [i \in Pollers |-> "none"] /\ stopCh = {}
    /\ db = 0 /\ device = 0 /\ filter = 0 /\ web = FALSE

At(t, pc) == th[t].pc = pc
Goto(t, pc) == th' = [th EXCEPT ![t].pc = pc]

\* Handlers run once the main listener is up, or over the tunnel web server.
Reachable == th[Boot].pc = "idle" \/ web

-----------------------------------------------------------------------------
(* The service calls.                                                      *)

\* A handler waits for controlMu.  Setup and import need an unconfigured hub, the
\* others a configured one.
Call(t, op) ==
    /\ At(t, "idle")
    /\ Reachable
    /\ th' = [th EXCEPT ![t] = [Idle EXCEPT !.pc = "control", !.op = op]]
    /\ UNCHANGED <<locks, stack, liveDP, pollVars, store>>

\* Under controlMu: write the store and load the bundle, or turn the request down.
\* Without a bundle the stack is stopped and the call has nothing to start it with.
Enter(t) ==
    /\ At(t, "control")
    /\ controlMu = Nobody
    /\ IF configured = (th[t].op = "setup") \/ db = MaxVersion
       THEN Goto(t, "idle") /\ UNCHANGED <<controlMu, store>>
       ELSE /\ controlMu' = t
            /\ IF th[t].op = "reset"
               THEN Goto(t, "stop") /\ UNCHANGED store
               ELSE /\ db' = db + 1
                    /\ configured' = TRUE
                    /\ \/ th' = [th EXCEPT ![t].bundle = db + 1,
                                           ![t].pc = CASE th[t].op = "setup"   -> "start"
                                                       [] th[t].op = "restart" -> "stop"
                                                       [] OTHER                -> "sync"]
                       \/ Goto(t, "stop")
    /\ UNCHANGED <<mu, lifecycleMu, stack, liveDP, pollVars>>

\* syncRuntimeBundle reads liveDP under dpMu; without a dataplane it is done.
ReadLive(t) ==
    /\ At(t, "sync")
    /\ Goto(t, IF liveDP THEN "full" ELSE IF th[t].op = "retune" THEN "upstream" ELSE "leave")
    /\ UNCHANGED <<locks, stack, liveDP, pollVars, store>>

\* Mutant: FullSync forgets the filter.
BugSyncDeviceOnly(t) ==
    /\ At(t, "full")
    /\ mu = Nobody
    /\ \/ /\ device' = IF tunnelMgr = 0 THEN device ELSE th[t].bundle
          /\ Goto(t, IF th[t].op = "retune" THEN "upstream" ELSE "leave")
       \/ tunnelMgr # 0 /\ Goto(t, "stop") /\ UNCHANGED device
    /\ UNCHANGED <<locks, tunnelMgr, issued, generation, stopping, filter, web, liveDP, pollVars, store>>

\* FullSync, all of it under Stack.mu; an error leads to restartAfterRuntimeFailure.
FullSync(t) ==
    /\ At(t, "full")
    /\ mu = Nobody
    /\ \/ /\ IF tunnelMgr = 0 THEN UNCHANGED <<device, filter>>
                              ELSE device' = th[t].bundle /\ filter' = th[t].bundle
          /\ Goto(t, IF th[t].op = "retune" THEN "upstream" ELSE "leave")
       \/ /\ tunnelMgr # 0
          /\ Goto(t, "stop")
          /\ UNCHANGED <<device, filter>>
    /\ UNCHANGED <<locks, tunnelMgr, issued, generation, stopping, web, liveDP, pollVars, store>>

\* updateMutableSettings: SetDNSUpstream takes Stack.mu, then the poller is replaced.
SetUpstream(t) ==
    /\ At(t, "upstream")
    /\ mu = Nobody
    /\ th' = [th EXCEPT ![t].pc = "halt", ![t].ret = "repoll"]
    /\ UNCHANGED <<locks, stack, liveDP, pollVars, store>>

\* ResetAll empties the store once the stack has stopped.
Wipe(t) ==
    /\ At(t, "wipe")
    /\ configured' = FALSE
    /\ Goto(t, "leave")
    /\ UNCHANGED <<locks, stack, liveDP, pollVars, db>>

Leave(t) ==
    /\ At(t, "leave")
    /\ controlMu' = Nobody
    /\ th' = [th EXCEPT ![t] = Idle]
    /\ UNCHANGED <<mu, lifecycleMu, stack, liveDP, pollVars, store>>

-----------------------------------------------------------------------------
(* Stack.Stop.                                                             *)

\* What Stop's caller does next: reset wipes the store, a restart runs onStopped
\* once more and starts, a failed start or a call without a bundle runs it and gives up.
AfterStop(t) ==
    IF th[t].op = "reset"
    THEN Goto(t, "wipe")
    ELSE th' = [th EXCEPT ![t].pc = "halt",
                          ![t].ret = IF th[t].ret = "giveup" \/ th[t].bundle = 0
                                     THEN "giveup" ELSE "start"]

\* Mutant: Stop keeps Stack.mu while it waits for the poller.
BugStopKeepsLock(t) ==
    /\ At(t, "stop")
    /\ mu = Nobody
    /\ IF tunnelMgr = 0 \/ stopping
       THEN AfterStop(t) /\ UNCHANGED <<mu, stopping, generation>>
       ELSE /\ mu' = t
            /\ stopping' = TRUE
            /\ generation' = generation + 1
            /\ Goto(t, "stopLife")
    /\ UNCHANGED <<controlMu, lifecycleMu, tunnelMgr, issued, device, filter, web, liveDP, pollVars, store>>

StopBegin(t) ==
    /\ At(t, "stop")
    /\ mu = Nobody
    /\ IF tunnelMgr = 0 \/ stopping
       THEN AfterStop(t) /\ UNCHANGED <<stopping, generation>>
       ELSE /\ stopping' = TRUE
            /\ generation' = generation + 1
            /\ Goto(t, "stopLife")
    /\ UNCHANGED <<locks, tunnelMgr, issued, device, filter, web, liveDP, pollVars, store>>

StopLife(t) ==
    /\ At(t, "stopLife")
    /\ lifecycleMu = Nobody
    /\ lifecycleMu' = t
    /\ th' = [th EXCEPT ![t].pc = "halt", ![t].ret = "teardown"]
    /\ UNCHANGED <<controlMu, mu, stack, liveDP, pollVars, store>>

\* The done channel of poller i is closed.
Closed(i) == poll[i] \in {"closed", "none"}

\* Where stopStatusPoller returns to: settings start a poller, onStopped goes on.
Halted(t) == IF th[t].ret = "repoll" THEN "poller" ELSE "unpublish"

\* Mutant: the poller is told to stop, and nobody waits for it.
BugHaltWithoutWait(t) ==
    /\ At(t, "halt")
    /\ Goto(t, Halted(t))
    /\ statusRunning' = FALSE /\ statusDone' = 0
    /\ stopCh' = IF statusRunning THEN stopCh \cup {statusDone} ELSE stopCh
    /\ UNCHANGED <<locks, stack, liveDP, dpReaders, poll, store>>

\* stopStatusPoller, the part under statusMu: close the stop channel and wait.
HaltPoller(t) ==
    /\ At(t, "halt")
    /\ th' = [th EXCEPT ![t].done = statusDone,
                        ![t].pc = IF statusDone = 0 THEN Halted(t) ELSE "haltWait"]
    /\ statusRunning' = FALSE
    /\ stopCh' = IF statusRunning THEN stopCh \cup {statusDone} ELSE stopCh
    /\ UNCHANGED <<locks, stack, liveDP, dpReaders, statusDone, poll, store>>

HaltWait(t) ==
    /\ At(t, "haltWait")
    /\ Closed(th[t].done)
    /\ th' = [th EXCEPT ![t].pc = Halted(t), ![t].done = 0]
    /\ UNCHANGED <<locks, stack, liveDP, pollVars, store>>

\* The end of onStopped: the dataplane goes, under dpMu.
Unpublish(t) ==
    /\ At(t, "unpublish")
    /\ dpReaders = {}
    /\ liveDP' = FALSE
    /\ Goto(t, IF th[t].ret = "giveup" THEN "leave" ELSE th[t].ret)
    /\ lifecycleMu' = IF lifecycleMu = t THEN Nobody ELSE lifecycleMu
    /\ UNCHANGED <<controlMu, mu, stack, pollVars, store>>

\* The second critical section of Stop; its waits are bounded by a timeout.
Teardown(t) ==
    /\ At(t, "teardown")
    /\ mu = Nobody
    /\ tunnelMgr' = 0 /\ stopping' = FALSE /\ web' = FALSE
    /\ AfterStop(t)
    /\ UNCHANGED <<locks, issued, generation, device, filter, liveDP, pollVars, store>>

-----------------------------------------------------------------------------
(* Stack.Start.                                                            *)

\* Start returns without an error; the thread remembers how new the store was.
Returns(t) ==
    th' = [th EXCEPT ![t].bundle = db,
                     ![t].pc = CASE th[t].op = "boot" -> "idle"
                                 [] th[t].op \in {"retune", "restart"} -> "upstream"
                                 [] OTHER -> "leave"]

StartLock(t) ==
    /\ At(t, "start")
    /\ mu = Nobody
    /\ IF tunnelMgr # 0
       THEN Returns(t) /\ UNCHANGED mu
       ELSE Goto(t, "build") /\ mu' = t
    /\ UNCHANGED <<controlMu, lifecycleMu, stack, liveDP, pollVars, store>>

\* Start returned an error, with nothing left running: Stop and onStopped follow.
\* At boot the process ends instead.
StartFails(t) ==
    /\ th[t].op # "boot"
    /\ mu' = Nobody
    /\ th' = [th EXCEPT ![t].pc = "stop", ![t].ret = "giveup"]

\* Mutant: a new manager under the old number.
BugBuildUnnumbered(t) ==
    /\ At(t, "build")
    /\ \/ /\ tunnelMgr' = issued + 1
          /\ generation' = generation + 1
          /\ web' = TRUE
          /\ th' = [th EXCEPT ![t].pc = "ingress", ![t].mgr = issued + 1, ![t].gen = generation + 1]
          /\ UNCHANGED mu
       \/ StartFails(t) /\ UNCHANGED <<tunnelMgr, generation, web>>
    /\ UNCHANGED <<controlMu, lifecycleMu, issued, stopping, device, filter, liveDP, pollVars, store>>

\* The device, forwarding, DNS and the tunnel web server.
Build(t) ==
    /\ At(t, "build")
    /\ \/ /\ tunnelMgr' = issued + 1 /\ issued' = issued + 1
          /\ generation' = generation + 1
          /\ web' = TRUE
          /\ th' = [th EXCEPT ![t].pc = "ingress", ![t].mgr = issued + 1, ![t].gen = generation + 1]
          /\ UNCHANGED mu
       \/ StartFails(t) /\ UNCHANGED <<tunnelMgr, issued, generation, web>>
    /\ UNCHANGED <<controlMu, lifecycleMu, stopping, device, filter, liveDP, pollVars, store>>

\* applyIngressLocked and SetAccessPolicy, or rollbackStart.
Ingress(t) ==
    /\ At(t, "ingress")
    /\ \/ /\ device' = th[t].bundle /\ filter' = th[t].bundle
          /\ mu' = Nobody
          /\ Goto(t, "startLife")
          /\ UNCHANGED <<tunnelMgr, web>>
       \/ StartFails(t) /\ tunnelMgr' = 0 /\ web' = FALSE /\ UNCHANGED <<device, filter>>
    /\ UNCHANGED <<controlMu, lifecycleMu, issued, generation, stopping, liveDP, pollVars, store>>

StartLife(t) ==
    /\ At(t, "startLife")
    /\ lifecycleMu = Nobody
    /\ lifecycleMu' = t
    /\ Goto(t, "check")
    /\ UNCHANGED <<controlMu, mu, stack, liveDP, pollVars, store>>

\* Mutant: no second look before OnStarted.
BugAlwaysValid(t) == TRUE

\* A Stop that came in between makes this start void.
StillValid(t) == tunnelMgr = th[t].mgr /\ generation = th[t].gen /\ ~stopping

Check(t) ==
    /\ At(t, "check")
    /\ mu = Nobody
    /\ IF StillValid(t)
       THEN Goto(t, "publish") /\ UNCHANGED lifecycleMu
       ELSE Returns(t) /\ lifecycleMu' = Nobody
    /\ UNCHANGED <<controlMu, mu, stack, liveDP, pollVars, store>>

\* Hub.onStarted: the dataplane under dpMu, then the poller, then the filter.  The
\* poller is left out when the bundle cannot be loaded.
Publish(t) ==
    /\ At(t, "publish")
    /\ dpReaders = {}
    /\ liveDP' = TRUE
    /\ \/ th' = [th EXCEPT ![t].pc = "poller", ![t].ret = "spec"]
       \/ Goto(t, "spec")
    /\ UNCHANGED <<locks, stack, pollVars, store>>

\* Where startStatusPoller returns to.
Polling(t) == IF th[t].ret = "repoll" THEN "leave" ELSE th[t].ret

\* A poller nobody waits for any more.
FreeSlot(i) == poll[i] = "none" /\ \A t \in Threads : th[t].done # i

\* startStatusPoller, one round under statusMu.
StartPoller(t) ==
    /\ At(t, "poller")
    /\ IF statusRunning
       THEN Goto(t, Polling(t)) /\ UNCHANGED <<statusRunning, statusDone, poll>>
       ELSE IF statusDone # 0
       THEN /\ th' = [th EXCEPT ![t].pc = "pollerWait", ![t].done = statusDone]
            /\ UNCHANGED <<statusRunning, statusDone, poll>>
       ELSE \E i \in Pollers :
            /\ FreeSlot(i) /\ \A j \in Pollers : FreeSlot(j) => i <= j
            /\ poll' = [poll EXCEPT ![i] = "wait"]
            /\ statusDone' = i
            /\ statusRunning' = TRUE
            /\ Goto(t, Polling(t))
    /\ UNCHANGED <<locks, stack, liveDP, dpReaders, stopCh, store>>

PollerWait(t) ==
    /\ At(t, "pollerWait")
    /\ Closed(th[t].done)
    /\ th' = [th EXCEPT ![t].pc = "poller", ![t].done = 0]
    /\ UNCHANGED <<locks, stack, liveDP, pollVars, store>>

\* SyncAccessFilter: build the rules from the store (or fail) ...
BuildSpec(t) ==
    /\ At(t, "spec")
    /\ \/ th' = [th EXCEPT ![t].bundle = db, ![t].pc = "apply"]
       \/ Goto(t, "endLife")
    /\ UNCHANGED <<locks, stack, liveDP, pollVars, store>>

\* ... and hand them to the running stack, under Stack.mu.
ApplySpec(t) ==
    /\ At(t, "apply")
    /\ mu = Nobody
    /\ filter' = IF liveDP /\ tunnelMgr # 0 THEN th[t].bundle ELSE filter
    /\ Goto(t, "endLife")
    /\ UNCHANGED <<locks, tunnelMgr, issued, generation, stopping, device, web, liveDP, pollVars, store>>

EndLife(t) ==
    /\ At(t, "endLife")
    /\ lifecycleMu' = Nobody
    /\ Returns(t)
    /\ UNCHANGED <<controlMu, mu, stack, liveDP, pollVars, store>>

-----------------------------------------------------------------------------
(* The status poller goroutine: pollPeerStats on a tick, or exit.          *)

Moves(i, from, to) == poll[i] = from /\ poll' = [poll EXCEPT ![i] = to]

\* Reads liveDP under dpMu, which it keeps while it asks for the statistics.
Tick(i) ==
    /\ liveDP
    /\ Moves(i, "wait", "stats")
    /\ dpReaders' = dpReaders \cup {i}
    /\ UNCHANGED <<th, locks, stack, liveDP, statusRunning, statusDone, stopCh, store>>

GetStats(i) ==
    /\ mu = Nobody
    /\ Moves(i, "stats", IF tunnelMgr = 0 THEN "wait" ELSE "save")
    /\ dpReaders' = dpReaders \ {i}
    /\ UNCHANGED <<th, locks, stack, liveDP, statusRunning, statusDone, stopCh, store>>

\* UpdatePeerStats and Publish, with no lock held.
SaveStats(i) ==
    /\ Moves(i, "save", "wait")
    /\ UNCHANGED <<th, locks, stack, liveDP, dpReaders, statusRunning, statusDone, stopCh, store>>

PollerStops(i) ==
    /\ i \in stopCh
    /\ Moves(i, "wait", "closed")
    /\ UNCHANGED <<th, locks, stack, liveDP, dpReaders, statusRunning, statusDone, stopCh, store>>

PollerExits(i) ==
    /\ Moves(i, "closed", "none")
    /\ statusDone' = IF statusDone = i THEN 0 ELSE statusDone
    /\ stopCh' = stopCh \ {i}
    /\ UNCHANGED <<th, locks, stack, liveDP, dpReaders, statusRunning, store>>

-----------------------------------------------------------------------------
Step(t) ==
    \/ Enter(t) \/ ReadLive(t) \/ FullSync(t) \/ SetUpstream(t) \/ Wipe(t) \/ Leave(t)
    \/ StopBegin(t) \/ StopLife(t) \/ HaltPoller(t) \/ HaltWait(t) \/ Unpublish(t) \/ Teardown(t)
    \/ StartLock(t) \/ Build(t) \/ Ingress(t) \/ StartLife(t) \/ Check(t) \/ Publish(t)
    \/ StartPoller(t) \/ PollerWait(t) \/ BuildSpec(t) \/ ApplySpec(t) \/ EndLife(t)

Poller(i) == Tick(i) \/ GetStats(i) \/ SaveStats(i) \/ PollerStops(i) \/ PollerExits(i)

Next ==
    \/ \E t \in Callers, op \in Ops : Call(t, op)
    \/ \E t \in Threads : Step(t)
    \/ \E i \in Pollers : Poller(i)

Spec == Init /\ [][Next]_vars

\* Go's mutexes do not starve a waiter and select picks among ready cases at random,
\* so a thread or a poller that can go on again and again does go on.  Handlers need
\* not be called, tickers need not fire.
FairSpec ==
    /\ Spec
    /\ \A t \in Threads : SF_vars(Step(t))
    /\ \A i \in Pollers : SF_vars(GetStats(i) \/ SaveStats(i)) /\ SF_vars(PollerStops(i) \/ PollerExits(i))

-----------------------------------------------------------------------------
(* Properties.                                                             *)

TypeOK ==
    /\ th \in [Threads -> [pc : {"idle", "control", "sync", "full", "upstream", "wipe", "leave",
                                 "stop", "stopLife", "halt", "haltWait", "unpublish", "teardown",
                                 "start", "build", "ingress", "startLife", "check", "publish",
                                 "poller", "pollerWait", "spec", "apply", "endLife"},
                           op : Ops \cup {"none", "boot"}, bundle : Nat, mgr : Nat, gen : Nat,
                           done : Pollers \cup {0},
                           ret : {"none", "repoll", "start", "giveup", "teardown", "spec"}]]
    /\ {controlMu, mu, lifecycleMu} \subseteq Threads \cup {Nobody}
    /\ tunnelMgr \in 0 .. issued /\ issued \in Nat /\ generation \in Nat
    /\ stopping \in BOOLEAN /\ liveDP \in BOOLEAN /\ statusRunning \in BOOLEAN
    /\ configured \in BOOLEAN /\ web \in BOOLEAN
    /\ dpReaders \subseteq Pollers /\ stopCh \subseteq Pollers
    /\ statusDone \in Pollers \cup {0}
    /\ poll \in [Pollers -> {"none", "wait", "stats", "save", "closed"}]
    /\ {db, device, filter} \subseteq 0 .. MaxVersion

\* The service never holds a dataplane whose stack is gone, although starts and
\* stops overlap: a start that a stop overtook publishes nothing
\* (vpn/runtime/stack.go:117-131, 293-312).
LiveMeansRunning == liveDP => tunnelMgr # 0

\* "a restart cannot overlap the previous poller's final publication"
\* (service/hub.go:147): at most one poller is between a tick and its exit.
OnePoller == Cardinality({i \in Pollers : poll[i] \in {"wait", "stats", "save"}}) <= 1

\* No poller reads statistics from a stack whose OnStopped has returned, so that a
\* stopped stack is not written back as live traffic (service/hub.go:69-74).
NoStatsAfterStop ==
    \A i \in Pollers : poll[i] \in {"stats", "save"} =>
        liveDP \/ \E t \in Threads : th[t].pc \in {"haltWait", "unpublish"}

\* The status poller: one at a time, and none that outlives its stack.
PollerSound == OnePoller /\ NoStatsAfterStop

Quiet == \A t \in Threads : th[t].pc = "idle"

\* When no call is under way, the hub serves exactly the stack that runs.
QuietLive == Quiet => liveDP = (tunnelMgr # 0)

\* What the service publishes: never a stack that is gone, and in the end always the
\* one that runs (service/hub.go:59-74, vpn/runtime/stack.go:117-131).
LiveSound == LiveMeansRunning /\ QuietLive

\* What boot's start outside controlMu may leave behind - rules older than the store's,
\* or a write that found no dataplane - is gone after the next write: when no call is
\* under way, a hub whose store is newer than at the end of that start runs a device and
\* a filter at the stored version, whatever failed, was restarted or reset in between
\* (service/access.go:76-86, service/mutation.go:60-104, internal/bootstrap/bootstrap.go:143).
BootDriftEnds ==
    Quiet /\ tunnelMgr # 0 /\ db > th[Boot].bundle => device = db /\ filter = db

\* When no call is under way, a running hub has the stored state, boot or not:
\* "CreatePeer provisions a peer in the database and on the live network stack when
\* running." (service/peers.go:11).
Provisioned == Quiet /\ tunnelMgr # 0 => device = db

\* No call hangs: not on a lock, not on a poller that waits for a lock it holds
\* (service/hub.go:143-147, vpn/runtime/stack.go:294-295).
CallsReturn == \A t \in Threads : th[t].pc # "idle" ~> th[t].pc = "idle"

\* A poller that was told to stop ends.
PollersEnd == \A i \in Pollers : i \in stopCh ~> i \notin stopCh

\* Calls and pollers wait for one another, and none for ever (service/hub.go:128-150).
NoneHangs == CallsReturn /\ PollersEnd
=============================================================================
