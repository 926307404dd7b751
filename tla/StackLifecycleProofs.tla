----------------------- MODULE StackLifecycleProofs -----------------------
(***************************************************************************)
(* Proofs about StackLifecycle: who holds which lock where, and what of    *)
(* the stack, the dataplane and the poller follows from it.                *)
(***************************************************************************)
EXTENDS StackLifecycle, FiniteSetTheorems, TLAPS

Points == {"idle", "control", "sync", "full", "upstream", "wipe", "leave",
           "stop", "stopLife", "halt", "haltWait", "unpublish", "teardown",
           "start", "build", "ingress", "startLife", "check", "publish",
           "poller", "pollerWait", "spec", "apply", "endLife"}
Starting == {"start", "build", "ingress", "startLife", "check", "publish",
             "poller", "pollerWait", "spec", "apply", "endLife"}
Halting == {"halt", "haltWait", "unpublish"}
Records == [pc : Points, op : Ops \cup {"none", "boot"}, bundle : Nat, mgr : Nat, gen : Nat,
            done : Pollers \cup {0}, ret : {"none", "repoll", "start", "giveup", "teardown", "spec"}]

\* A start that found itself valid, until it ends; it holds lifecycleMu.
Published(q) == q.pc \in {"publish", "spec", "apply", "endLife"}
                \/ (q.pc \in {"poller", "pollerWait"} /\ q.ret = "spec")
\* OnStopped of a running stack, under lifecycleMu, and of one that is gone.
Tearing(q) == q.pc \in Halting /\ q.ret = "teardown"
Ending(q) == q.pc \in Halting /\ q.ret \in {"start", "giveup"}
\* A caller that holds controlMu.
Active(q) == q.pc \notin {"idle", "control"}

Types ==
    /\ th \in [Threads -> Records]
    /\ {controlMu, mu, lifecycleMu} \subseteq Threads \cup {Nobody}
    /\ tunnelMgr \in Nat /\ issued \in Nat /\ tunnelMgr <= issued /\ generation \in Nat
    /\ stopping \in BOOLEAN /\ liveDP \in BOOLEAN /\ statusRunning \in BOOLEAN
    /\ configured \in BOOLEAN /\ web \in BOOLEAN
    /\ dpReaders \subseteq Pollers /\ stopCh \subseteq Pollers
    /\ statusDone \in Pollers \cup {0}
    /\ poll \in [Pollers -> {"none", "wait", "stats", "save", "closed"}]
    /\ db \in 0 .. MaxVersion /\ device \in 0 .. MaxVersion /\ filter \in 0 .. MaxVersion

\* Where a call goes next is in ret; what it carries was issued.
Frame(q) ==
    /\ q.pc \in {"halt", "haltWait"} => q.ret \in {"repoll", "start", "giveup", "teardown"}
    /\ q.pc = "unpublish" => q.ret \in {"start", "giveup", "teardown"}
    /\ q.pc \in {"poller", "pollerWait"} => q.ret \in {"repoll", "spec"}
    /\ q.bundle <= db /\ q.mgr <= issued
    /\ q.pc \in {"ingress", "startLife", "check"} => q.mgr # 0

\* The boot goroutine only starts; nobody calls before it has built the stack.
BootInv ==
    /\ th[Boot].op \in {"boot", "none"} /\ th[Boot].ret \in {"none", "spec"}
    /\ th[Boot].pc \in Starting \cup {"idle"}
    /\ th[Boot].pc # "idle" => th[Boot].op = "boot"
    /\ th[Boot].pc \in {"start", "build"} =>
            ~web /\ configured /\ \A c \in Callers : th[c].pc = "idle"

CallerInv == \A c \in Callers :
    /\ th[c].op # "boot" /\ (th[c].pc # "idle" => th[c].op \in Ops)
    /\ Active(th[c]) => controlMu = c
    /\ Active(th[c]) /\ th[c].pc # "leave" => configured
    /\ th[c].op = "reset" => th[c].pc \in {"idle", "control", "stop", "stopLife", "teardown", "wipe", "leave"}
                                    \/ Tearing(th[c])

LockInv == \A t \in Threads :
    /\ th[t].pc \in {"build", "ingress"} => mu = t
    /\ th[t].pc = "check" \/ Published(th[t]) \/ Tearing(th[t]) => lifecycleMu = t

\* The stack as each point of execution finds it.
StackInv ==
    /\ liveDP => tunnelMgr # 0
    /\ ~configured => tunnelMgr = 0
    /\ stopping => \E c \in Callers : th[c].pc \in {"stopLife", "teardown"} \/ Tearing(th[c])
    /\ \A t \in Threads :
        /\ th[t].pc \in {"build", "wipe"} \/ Ending(th[t]) => tunnelMgr = 0
        /\ th[t].pc = "ingress" => tunnelMgr = th[t].mgr /\ ~liveDP /\ \A u \in Threads : ~Published(th[u])
        /\ Published(th[t]) => tunnelMgr # 0
        /\ th[t].pc \in {"stopLife", "teardown"} \/ Tearing(th[t]) => stopping
        /\ th[t].pc = "teardown" => ~liveDP /\ \A u \in Threads : ~Published(th[u])
        /\ th[t].pc \in {"ingress", "startLife", "check"} /\ th[t].mgr = tunnelMgr
                => th[t].gen = generation \/ stopping

\* A stack that runs unpublished is about to be published or to be stopped.
Owed == tunnelMgr # 0 /\ ~liveDP =>
    \/ stopping
    \/ \E t \in Threads : \/ th[t].pc \in {"ingress", "startLife", "check"} /\ th[t].mgr = tunnelMgr
                          \/ th[t].pc = "publish"

\* The one poller that has not exited is the one Hub.statusDone names.
PollInv ==
    /\ \A i \in Pollers : poll[i] # "none" <=> statusDone = i
    /\ statusRunning => statusDone # 0 /\ poll[statusDone] # "closed"
    /\ \A i \in stopCh : statusDone = i /\ ~statusRunning
    /\ \A i \in Pollers : poll[i] = "closed" => i \in stopCh
    /\ \A i \in Pollers : poll[i] \in {"stats", "save"} => liveDP
    /\ \A t \in Threads :
        /\ th[t].pc = "unpublish" =>
                ~statusRunning /\ \A i \in Pollers : poll[i] \in {"none", "closed"}
        /\ th[t].pc = "haltWait" /\ th[t].ret # "repoll" =>
                ~statusRunning /\ statusDone \in {0, th[t].done}

\* What a call carries is what the store holds, unless it could not load it and is to
\* stop the stack.  Once boot's start is over, a stack older than the last write since is
\* in the hands of a call that is about to bring it up to date, or to stop it.
CurrentInv ==
    /\ \A c \in Callers :
        /\ th[c].pc = "control" => th[c].bundle = 0
        /\ Active(th[c]) /\ th[c].op # "reset" =>
            /\ th[c].bundle \in {0, db}
            /\ th[c].bundle = 0 => \/ th[c].pc \in {"stop", "stopLife", "teardown", "leave"}
                                   \/ th[c].pc \in Halting /\ th[c].ret \in {"giveup", "teardown"}
    /\ th[Boot].pc = "idle" /\ tunnelMgr # 0 /\ db > th[Boot].bundle =>
            \/ device = db /\ filter = db
            \/ stopping
            \/ \E c \in Callers : th[c].pc \in {"sync", "full", "stop", "ingress"}

LifeInv ==
    /\ Types /\ (\A t \in Threads : Frame(th[t])) /\ BootInv /\ CallerInv /\ LockInv
    /\ StackInv /\ Owed /\ PollInv /\ CurrentInv

-----------------------------------------------------------------------------
(* What a step does to the thread that takes it. *)

\* Only thread t moves, to pc; op stays.
Went(t, pc) ==
    /\ th' \in [Threads -> Records]
    /\ \A u \in Threads \ {t} : th'[u] = th[u]
    /\ th'[t].pc = pc /\ th'[t].op = th[t].op

\* It goes on with what it had.
Same(t) == /\ th'[t].ret = th[t].ret /\ th'[t].bundle = th[t].bundle
           /\ th'[t].mgr = th[t].mgr /\ th'[t].gen = th[t].gen /\ th'[t].done = th[t].done
\* It has a new return point.
Back(t, ret) == /\ th'[t].ret = ret /\ th'[t].bundle = th[t].bundle
                /\ th'[t].mgr = th[t].mgr /\ th'[t].gen = th[t].gen /\ th'[t].done = th[t].done

LEMMA GotoMoves ==
  ASSUME Types, NEW t \in Threads, NEW pc \in Points, Goto(t, pc)
  PROVE  Went(t, pc) /\ Same(t)
  BY DEF Types, Records, Goto, Went, Same

LEMMA ReturnMoves ==
  ASSUME Types, NEW t \in Threads, NEW pc \in Points,
         NEW ret \in {"none", "repoll", "start", "giveup", "teardown", "spec"},
         th' = [th EXCEPT ![t].pc = pc, ![t].ret = ret]
  PROVE  Went(t, pc) /\ Back(t, ret)
  BY ZenonT(90) DEF Types, Records, Went, Back

LEMMA AfterStopMoves ==
  ASSUME Types, NEW t \in Threads, AfterStop(t)
  PROVE  \/ th[t].op = "reset" /\ Went(t, "wipe") /\ Same(t)
         \/ /\ th[t].op # "reset" /\ Went(t, "halt")
            /\ \/ Back(t, "start") /\ th[t].bundle # 0
               \/ Back(t, "giveup")
  <1>1. CASE th[t].op = "reset"
    BY <1>1, GotoMoves DEF AfterStop, Points
  <1>2. CASE th[t].op # "reset"
    BY <1>2, ReturnMoves DEF AfterStop, Points
  <1> QED
    BY <1>1, <1>2

LEMMA InitLife == Init => LifeInv
  <1> SUFFICES ASSUME Init PROVE LifeInv
    OBVIOUS
  <1> DEFINE first == [Idle EXCEPT !.pc = "start", !.op = "boot"]
  <1>a. /\ Idle \in Records /\ first \in Records
        /\ first.pc = "start" /\ first.op = "boot" /\ first.ret = "none" /\ first.bundle = 0 /\ first.mgr = 0
        /\ Idle.ret = "none"
    BY DEF Records, Idle, Points, Ops
  <1>b. th = [t \in Threads |-> IF t = Boot /\ configured THEN first ELSE Idle]
    BY Zenon DEF Init
  <1> HIDE DEF first
  <1>1. Idle.pc = "idle" /\ Idle.op = "none" /\ Idle.bundle = 0 /\ Idle.mgr = 0
    BY DEF Idle
  <1>2. /\ th \in [Threads -> Records] /\ \A c \in Callers : th[c] = Idle
        /\ th[Boot].pc \in {"idle", "start"} /\ th[Boot].op \in {"none", "boot"} /\ th[Boot].ret = "none"
        /\ th[Boot].bundle = 0 /\ th[Boot].mgr = 0
        /\ (th[Boot].pc = "start" => configured) /\ (th[Boot].pc # "idle" => th[Boot].op = "boot")
    BY <1>a, <1>b, <1>1, LifecycleAssumption DEF Threads
  <1>c. /\ configured \in BOOLEAN /\ stopping \in BOOLEAN /\ liveDP \in BOOLEAN
        /\ statusRunning \in BOOLEAN /\ web \in BOOLEAN
    BY Zenon, LifecycleAssumption DEF Init
  <1>3. Types
    BY <1>c, <1>2, LifecycleAssumption DEF Init, Types, Pollers
  <1>4. \A t \in Threads : th[t].pc \in {"idle", "start"} /\ th[t].bundle = 0 /\ th[t].mgr = 0
    BY <1>2, <1>1 DEF Threads
  <1>5. (\A t \in Threads : Frame(th[t])) /\ BootInv /\ CallerInv /\ LockInv
    BY <1>2, <1>1, <1>4, LifecycleAssumption
       DEF Init, Frame, BootInv, CallerInv, LockInv, Active, Published, Tearing, Halting, Starting
  <1>6. StackInv /\ Owed /\ CurrentInv
    BY <1>2, <1>1, <1>4
       DEF Init, StackInv, Owed, CurrentInv, Active, Published, Tearing, Ending, Halting
  <1>7. PollInv
    BY <1>4 DEF Init, PollInv, Pollers
  <1> QED
    BY <1>3, <1>5, <1>6, <1>7 DEF LifeInv

\* An active caller holds controlMu, so there is one; once boot's start is over there is no other thread.
LEMMA Alone ==
  ASSUME BootInv, CallerInv, NEW t \in Callers, Active(th[t])
  PROVE  /\ \A c \in Callers : Active(th[c]) => c = t
         /\ th[Boot].pc = "idle" => \A u \in Threads : Active(th[u]) => u = t
  BY DEF BootInv, CallerInv, Threads, Active, Starting

\* Points that the boot goroutine never reaches.
LEMMA NotBoot ==
  ASSUME BootInv, NEW t \in Threads, th[t].pc \notin Starting \cup {"idle"}
  PROVE  t \in Callers
  BY DEF BootInv, Threads

LEMMA Carries ==
  ASSUME Types, NEW t \in Threads, Frame(th[t])
  PROVE  th[t].bundle \in 0 .. MaxVersion
  BY LifecycleAssumption DEF Types, Frame, Records

\* A stop under way belongs to the caller that holds controlMu.
LEMMA StopOwned ==
  ASSUME BootInv, CallerInv, StackInv, NEW t \in Callers, Active(th[t]), stopping
  PROVE  th[t].pc \in {"stopLife", "teardown"} \/ Tearing(th[t])
  <1>1. PICK c \in Callers : th[c].pc \in {"stopLife", "teardown"} \/ Tearing(th[c])
    BY DEF StackInv
  <1>2. Active(th[c])
    BY <1>1 DEF Active, Tearing, Halting
  <1> QED
    BY <1>1, <1>2, Alone

\* It waits for poller d, or no longer waits.
Waits(t, d) == /\ th'[t].ret = th[t].ret /\ th'[t].bundle = th[t].bundle
               /\ th'[t].mgr = th[t].mgr /\ th'[t].gen = th[t].gen /\ th'[t].done = d

LEMMA WaitMoves ==
  ASSUME Types, NEW t \in Threads, NEW pc \in Points, NEW d \in Pollers \cup {0},
         \/ th' = [th EXCEPT ![t].pc = pc, ![t].done = d]
         \/ th' = [th EXCEPT ![t].done = d, ![t].pc = pc]
  PROVE  Went(t, pc) /\ Waits(t, d)
  BY DEF Types, Records, Went, Waits

\* Once boot's start is over, an active thread is the only one.
LEMMA Unbooted ==
  ASSUME BootInv, CallerInv, th[Boot].pc = "idle", NEW t \in Threads, Active(th[t])
  PROVE  t \in Callers /\ \A u \in Threads : Active(th[u]) => u = t
  BY DEF BootInv, CallerInv, Threads, Active, Starting

\* It saw the store as it is.
Seen(t) == /\ th'[t].ret = th[t].ret /\ th'[t].bundle = db
           /\ th'[t].mgr = th[t].mgr /\ th'[t].gen = th[t].gen /\ th'[t].done = th[t].done

\* Where Start returns to.
LEMMA ReturnsMoves ==
  ASSUME Types, NEW t \in Threads, Returns(t)
  PROVE  /\ Seen(t)
         /\ \/ th[t].op = "boot" /\ Went(t, "idle")
            \/ th[t].op # "boot" /\ (Went(t, "upstream") \/ Went(t, "leave"))
  <1>1. PICK pc \in {"idle", "upstream", "leave"} :
            /\ th' = [th EXCEPT ![t].bundle = db, ![t].pc = pc]
            /\ pc = "idle" <=> th[t].op = "boot"
    BY DEF Returns
  <1>2. db \in Nat
    BY LifecycleAssumption DEF Types
  <1>3. Went(t, pc) /\ Seen(t)
    BY <1>1, <1>2 DEF Types, Records, Points, Went, Seen
  <1> QED
    BY <1>1, <1>3

\* What a thread carries is a version; a caller that is back from Start carries the last one.
LEMMA Versions ==
  ASSUME Types, CurrentInv, CallerInv
  PROVE  /\ db \in Nat /\ \A u \in Threads : th[u].bundle \in Nat
         /\ \A c \in Callers : th[c].pc \in Starting => th[c].bundle = db /\ db # 0
  <1>1. db \in Nat /\ \A u \in Threads : th[u].bundle \in Nat
    BY LifecycleAssumption DEF Types, Records
  <1>2. ASSUME NEW c \in Callers, th[c].pc \in Starting
        PROVE  th[c].bundle = db /\ db # 0
    <2>1. Active(th[c]) /\ th[c].op # "reset"
      BY <1>2 DEF CallerInv, Active, Starting, Tearing, Halting
    <2> QED
      BY <1>2, <2>1 DEF CurrentInv, Starting, Halting
  <1> QED
    BY <1>1, <1>2

\* syncRuntimeBundle finds the dataplane, or a stack that is stopped anyway.
LEMMA ReadLiveKeeps ==
  ASSUME LifeInv, NEW t \in Threads, ReadLive(t)
  PROVE  LifeInv'
  <1> USE DEF ReadLive, At, locks, stack, pollVars, store, Went, Same, Back
  <1>1. /\ Types /\ (\A u \in Threads : Frame(th[u])) /\ BootInv /\ CallerInv /\ LockInv
        /\ StackInv /\ Owed /\ PollInv /\ CurrentInv
    BY DEF LifeInv
  <1>2. t \in Callers
    BY <1>1, NotBoot DEF Starting
  <1>3. PICK pc \in {"full", "upstream", "leave"} : Went(t, pc) /\ Same(t) /\ (pc = "full" <=> liveDP)
    BY <1>1, GotoMoves DEF Points
  <1>4. Types' /\ (\A u \in Threads : Frame(th[u]))'
    BY <1>1, <1>2, <1>3 DEF Types, Frame
  <1>5. BootInv' /\ CallerInv'
    BY <1>1, <1>2, <1>3, LifecycleAssumption
       DEF BootInv, CallerInv, Active, Tearing, Halting, Starting, Threads
  <1>6. LockInv'
    BY <1>1, <1>2, <1>3, LifecycleAssumption DEF LockInv, Published, Tearing, Halting, Threads
  <1>7. StackInv'
    BY <1>1, <1>2, <1>3 DEF StackInv, Published, Tearing, Ending, Halting, Threads
  <1>8. Owed'
    BY <1>1, <1>2, <1>3 DEF Owed
  <1>9. PollInv'
    BY <1>1, <1>2, <1>3 DEF PollInv
  <1>10. CurrentInv'
    BY <1>1, <1>2, <1>3, Alone DEF CurrentInv, Active, Halting, Threads, Owed
  <1> QED
    BY <1>4, <1>5, <1>6, <1>7, <1>8, <1>9, <1>10 DEF LifeInv

\* ResetAll comes after the stop.
LEMMA WipeKeeps ==
  ASSUME LifeInv, NEW t \in Threads, Wipe(t)
  PROVE  LifeInv'
  <1> USE DEF Wipe, At, locks, stack, pollVars, store, Went, Same, Back
  <1>1. /\ Types /\ (\A u \in Threads : Frame(th[u])) /\ BootInv /\ CallerInv /\ LockInv
        /\ StackInv /\ Owed /\ PollInv /\ CurrentInv
    BY DEF LifeInv
  <1>2. t \in Callers
    BY <1>1, NotBoot DEF Starting
  <1>3. Went(t, "leave") /\ Same(t)
    BY <1>1, GotoMoves DEF Points
  <1>4. Types' /\ (\A u \in Threads : Frame(th[u]))'
    BY <1>1, <1>2, <1>3, ZenonT(90) DEF Types, Frame
  <1>5. BootInv' /\ CallerInv'
    BY <1>1, <1>2, <1>3, LifecycleAssumption
       DEF BootInv, CallerInv, Active, Tearing, Halting, Starting, Threads
  <1>6. LockInv'
    BY <1>1, <1>2, <1>3, LifecycleAssumption DEF LockInv, Published, Tearing, Halting, Threads
  <1>7. StackInv'
    BY <1>1, <1>2, <1>3 DEF StackInv, Published, Tearing, Ending, Halting, Threads
  <1>8. Owed'
    BY <1>1, <1>2, <1>3 DEF Owed
  <1>9. PollInv'
    BY <1>1, <1>2, <1>3 DEF PollInv
  <1>10. CurrentInv'
    BY <1>1, <1>2, <1>3, Alone DEF CurrentInv, Active, Halting, Threads
  <1> QED
    BY <1>4, <1>5, <1>6, <1>7, <1>8, <1>9, <1>10 DEF LifeInv

\* The settings go on to replace the poller.
LEMMA SetUpstreamKeeps ==
  ASSUME LifeInv, NEW t \in Threads, SetUpstream(t)
  PROVE  LifeInv'
  <1> USE DEF SetUpstream, At, locks, stack, pollVars, store, Went, Same, Back
  <1>1. /\ Types /\ (\A u \in Threads : Frame(th[u])) /\ BootInv /\ CallerInv /\ LockInv
        /\ StackInv /\ Owed /\ PollInv /\ CurrentInv
    BY DEF LifeInv
  <1>2. t \in Callers
    BY <1>1, NotBoot DEF Starting
  <1>3. Went(t, "halt") /\ Back(t, "repoll")
    BY <1>1, ReturnMoves DEF Points
  <1>4. Types' /\ (\A u \in Threads : Frame(th[u]))'
    BY <1>1, <1>2, <1>3 DEF Types, Frame
  <1>5. BootInv' /\ CallerInv'
    BY <1>1, <1>2, <1>3, LifecycleAssumption
       DEF BootInv, CallerInv, Active, Tearing, Halting, Starting, Threads
  <1>6. LockInv'
    BY <1>1, <1>2, <1>3, LifecycleAssumption DEF LockInv, Published, Tearing, Halting, Threads
  <1>7. StackInv'
    BY <1>1, <1>2, <1>3 DEF StackInv, Published, Tearing, Ending, Halting, Threads
  <1>8. Owed'
    BY <1>1, <1>2, <1>3 DEF Owed
  <1>9. PollInv'
    BY <1>1, <1>2, <1>3 DEF PollInv
  <1>10. CurrentInv'
    BY <1>1, <1>2, <1>3, Alone DEF CurrentInv, Active, Halting, Threads
  <1> QED
    BY <1>4, <1>5, <1>6, <1>7, <1>8, <1>9, <1>10 DEF LifeInv

\* FullSync brings the stack to the store, or leads to a restart.
LEMMA FullSyncKeeps ==
  ASSUME LifeInv, NEW t \in Threads, FullSync(t)
  PROVE  LifeInv'
  <1> USE DEF FullSync, At, locks, stack, pollVars, store, Went, Same, Back
  <1>1. /\ Types /\ (\A u \in Threads : Frame(th[u])) /\ BootInv /\ CallerInv /\ LockInv
        /\ StackInv /\ Owed /\ PollInv /\ CurrentInv
    BY DEF LifeInv
  <1>2. t \in Callers
    BY <1>1, NotBoot DEF Starting
  <1>3. \/ /\ \/ Went(t, "upstream") /\ Same(t)
              \/ Went(t, "leave") /\ Same(t)
           /\ \/ tunnelMgr = 0 /\ device' = device /\ filter' = filter
              \/ device' = th[t].bundle /\ filter' = th[t].bundle
        \/ Went(t, "stop") /\ Same(t) /\ device' = device /\ filter' = filter
    BY <1>1, GotoMoves DEF Points
  <1>a. th[t].bundle = db
    BY <1>1, <1>2 DEF CurrentInv, CallerInv, Active, Tearing, Halting
  <1>4. Types' /\ (\A u \in Threads : Frame(th[u]))'
    BY <1>1, <1>2, <1>3, Carries DEF Types, Frame
  <1>5. BootInv' /\ CallerInv'
    BY <1>1, <1>2, <1>3, LifecycleAssumption
       DEF BootInv, CallerInv, Active, Tearing, Halting, Starting, Threads
  <1>6. LockInv'
    BY <1>1, <1>2, <1>3, LifecycleAssumption DEF LockInv, Published, Tearing, Halting, Threads
  <1>7. StackInv'
    BY <1>1, <1>2, <1>3 DEF StackInv, Published, Tearing, Ending, Halting, Threads
  <1>8. Owed'
    BY <1>1, <1>2, <1>3 DEF Owed
  <1>9. PollInv'
    BY <1>1, <1>2, <1>3 DEF PollInv
  <1>10. CurrentInv'
    BY <1>1, <1>2, <1>3, Alone, <1>a DEF CurrentInv, Active, Halting, Threads
  <1> QED
    BY <1>4, <1>5, <1>6, <1>7, <1>8, <1>9, <1>10 DEF LifeInv

\* Stop takes lifecycleMu before it runs onStopped.
LEMMA StopLifeKeeps ==
  ASSUME LifeInv, NEW t \in Threads, StopLife(t)
  PROVE  LifeInv'
  <1> USE DEF StopLife, At, locks, stack, pollVars, store, Went, Same, Back
  <1>1. /\ Types /\ (\A u \in Threads : Frame(th[u])) /\ BootInv /\ CallerInv /\ LockInv
        /\ StackInv /\ Owed /\ PollInv /\ CurrentInv
    BY DEF LifeInv
  <1>2. t \in Callers
    BY <1>1, NotBoot DEF Starting
  <1>3. Went(t, "halt") /\ Back(t, "teardown")
    BY <1>1, ReturnMoves DEF Points
  <1>4. Types' /\ (\A u \in Threads : Frame(th[u]))'
    BY <1>1, <1>2, <1>3 DEF Types, Frame
  <1>5. BootInv' /\ CallerInv'
    BY <1>1, <1>2, <1>3, LifecycleAssumption
       DEF BootInv, CallerInv, Active, Tearing, Halting, Starting, Threads
  <1>6. LockInv'
    BY <1>1, <1>2, <1>3, LifecycleAssumption DEF LockInv, Published, Tearing, Halting, Threads
  <1>7. StackInv'
    BY <1>1, <1>2, <1>3 DEF StackInv, Published, Tearing, Ending, Halting, Threads
  <1>8. Owed'
    BY <1>1, <1>2, <1>3 DEF Owed
  <1>9. PollInv'
    BY <1>1, <1>2, <1>3 DEF PollInv
  <1>10. CurrentInv'
    BY <1>1, <1>2, <1>3, Alone DEF CurrentInv, Active, Halting, Threads
  <1> QED
    BY <1>4, <1>5, <1>6, <1>7, <1>8, <1>9, <1>10 DEF LifeInv

\* Stop begins, or finds nothing to stop.
LEMMA StopBeginKeeps ==
  ASSUME LifeInv, NEW t \in Threads, StopBegin(t)
  PROVE  LifeInv'
  <1> USE DEF StopBegin, At, locks, stack, pollVars, store, Went, Same, Back
  <1>1. /\ Types /\ (\A u \in Threads : Frame(th[u])) /\ BootInv /\ CallerInv /\ LockInv
        /\ StackInv /\ Owed /\ PollInv /\ CurrentInv
    BY DEF LifeInv
  <1>2. t \in Callers
    BY <1>1, NotBoot DEF Starting
  <1>a. ~stopping
    BY <1>1, <1>2, StopOwned DEF Active, Tearing, Halting
  <1>3. \/ tunnelMgr # 0 /\ Went(t, "stopLife") /\ Same(t) /\ stopping' = TRUE /\ generation' = generation + 1
        \/ /\ tunnelMgr = 0 /\ UNCHANGED <<stopping, generation>>
           /\ \/ th[t].op = "reset" /\ Went(t, "wipe") /\ Same(t)
              \/ /\ th[t].op # "reset" /\ Went(t, "halt")
                 /\ \/ Back(t, "start") /\ th[t].bundle # 0
                    \/ Back(t, "giveup")
    <2>1. CASE tunnelMgr = 0
      BY <1>1, <1>a, <2>1, AfterStopMoves
    <2>2. CASE tunnelMgr # 0
      BY <1>1, <1>a, <2>2, GotoMoves DEF Points
    <2> QED
      BY <2>1, <2>2
  <1>4. Types' /\ (\A u \in Threads : Frame(th[u]))'
    <2>1. stopping' \in BOOLEAN /\ web' \in BOOLEAN
      BY <1>1, Zenon DEF Types
    <2>2. Types'
      BY <1>1, <1>2, <1>3, <2>1 DEF Types
    <2>3. (\A u \in Threads : Frame(th[u]))'
      BY <1>1, <1>2, <1>3 DEF Frame
    <2> QED
      BY <2>2, <2>3
  <1>5. BootInv' /\ CallerInv'
    BY <1>1, <1>2, <1>3, LifecycleAssumption
       DEF BootInv, CallerInv, Active, Tearing, Halting, Starting, Threads
  <1>6. LockInv'
    BY <1>1, <1>2, <1>3, LifecycleAssumption DEF LockInv, Published, Tearing, Halting, Threads
  <1>7. StackInv'
    BY <1>1, <1>2, <1>3, <1>a DEF StackInv, Published, Tearing, Ending, Halting, Threads
  <1>8. Owed'
    BY <1>1, <1>2, <1>3, <1>a DEF Owed
  <1>9. PollInv'
    BY <1>1, <1>2, <1>3 DEF PollInv
  <1>10. CurrentInv'
    BY <1>1, <1>2, <1>3, Alone DEF CurrentInv, Active, Halting, Threads
  <1> QED
    BY <1>4, <1>5, <1>6, <1>7, <1>8, <1>9, <1>10 DEF LifeInv

\* A handler waits for controlMu; while the stack is not up yet there is none.
LEMMA CallKeeps ==
  ASSUME LifeInv, NEW t \in Callers, NEW op \in Ops, Call(t, op)
  PROVE  LifeInv'
  <1> USE DEF Call, At, locks, stack, pollVars, store, Went, Same, Back
  <1>1. /\ Types /\ (\A u \in Threads : Frame(th[u])) /\ BootInv /\ CallerInv /\ LockInv
        /\ StackInv /\ Owed /\ PollInv /\ CurrentInv
    BY DEF LifeInv
  <1> DEFINE q == [Idle EXCEPT !.pc = "control", !.op = op]
  <1>2. q \in Records /\ q.pc = "control" /\ q.op = op /\ q.bundle = 0 /\ q.mgr = 0
    BY DEF Idle, Records, Points, Ops
  <1>a. th' = [th EXCEPT ![t] = q]
    OBVIOUS
  <1> HIDE DEF q
  <1>3. /\ th' \in [Threads -> Records] /\ \A u \in Threads \ {t} : th'[u] = th[u]
        /\ th'[t].pc = "control" /\ th'[t].op = op /\ th'[t].bundle = 0 /\ th'[t].mgr = 0 /\ t # Boot
    BY <1>1, <1>2, <1>a, LifecycleAssumption, ZenonT(90) DEF Types, Threads
  <1> HIDE DEF Call
  <1>b. /\ UNCHANGED <<locks, stack, liveDP, pollVars, store>> /\ th[t].pc = "idle"
        /\ th[Boot].pc = "idle" \/ web
    BY DEF Call, Reachable
  <1>4. Types' /\ (\A u \in Threads : Frame(th[u]))'
    BY <1>1, <1>3, <1>b DEF Types, Frame, Threads, Ops
  <1>5. BootInv' /\ CallerInv'
    BY <1>1, <1>3, <1>b, LifecycleAssumption
       DEF BootInv, CallerInv, Active, Tearing, Halting, Starting, Threads, Ops
  <1>6. LockInv'
    BY <1>1, <1>3, <1>b, LifecycleAssumption
       DEF LockInv, Published, Tearing, Halting, Threads, Ops
  <1>7. StackInv'
    BY <1>1, <1>3, <1>b DEF StackInv, Published, Tearing, Ending, Halting, Threads, Threads, Ops
  <1>8. Owed'
    BY <1>1, <1>3, <1>b DEF Owed, Threads, Ops
  <1>9. PollInv'
    BY <1>1, <1>3, <1>b DEF PollInv, Threads, Ops
  <1>10. CurrentInv'
    BY <1>1, <1>3, <1>b DEF CurrentInv, Active, Halting, Threads, Threads, Ops
  <1> QED
    BY <1>4, <1>5, <1>6, <1>7, <1>8, <1>9, <1>10 DEF LifeInv

\* The call returns and controlMu is free.
LEMMA LeaveKeeps ==
  ASSUME LifeInv, NEW t \in Threads, Leave(t)
  PROVE  LifeInv'
  <1> USE DEF Leave, At, locks, stack, pollVars, store, Went, Same, Back
  <1>1. /\ Types /\ (\A u \in Threads : Frame(th[u])) /\ BootInv /\ CallerInv /\ LockInv
        /\ StackInv /\ Owed /\ PollInv /\ CurrentInv
    BY DEF LifeInv
  <1>2. t \in Callers
    BY <1>1, NotBoot DEF Starting
  <1>a. Idle \in Records /\ Idle.pc = "idle" /\ Idle.op = "none" /\ Idle.bundle = 0 /\ Idle.mgr = 0
    BY DEF Idle, Records, Points
  <1>3. /\ th' \in [Threads -> Records] /\ \A u \in Threads \ {t} : th'[u] = th[u]
        /\ th'[t].pc = "idle" /\ th'[t].op = "none" /\ th'[t].bundle = 0 /\ th'[t].mgr = 0 /\ t # Boot
    BY <1>1, <1>2, <1>a, LifecycleAssumption DEF Types
  <1>4. Types' /\ (\A u \in Threads : Frame(th[u]))'
    BY <1>1, <1>2, <1>3 DEF Types, Frame
  <1>5. BootInv' /\ CallerInv'
    BY <1>1, <1>2, <1>3, LifecycleAssumption
       DEF BootInv, CallerInv, Active, Tearing, Halting, Starting, Threads
  <1>6. LockInv'
    BY <1>1, <1>2, <1>3, LifecycleAssumption DEF LockInv, Published, Tearing, Halting, Threads
  <1>7. StackInv'
    BY <1>1, <1>2, <1>3 DEF StackInv, Published, Tearing, Ending, Halting, Threads
  <1>8. Owed'
    BY <1>1, <1>2, <1>3 DEF Owed
  <1>9. PollInv'
    BY <1>1, <1>2, <1>3 DEF PollInv
  <1>10. CurrentInv'
    BY <1>1, <1>2, <1>3, Alone DEF CurrentInv, Active, Halting, Threads
  <1> QED
    BY <1>4, <1>5, <1>6, <1>7, <1>8, <1>9, <1>10 DEF LifeInv

\* The dataplane goes, when no poller reads through it and none ever will.
LEMMA UnpublishKeeps ==
  ASSUME LifeInv, NEW t \in Threads, Unpublish(t)
  PROVE  LifeInv'
  <1> USE DEF Unpublish, At, locks, stack, pollVars, store, Went, Same, Back
  <1>1. /\ Types /\ (\A u \in Threads : Frame(th[u])) /\ BootInv /\ CallerInv /\ LockInv
        /\ StackInv /\ Owed /\ PollInv /\ CurrentInv
    BY DEF LifeInv
  <1>2. t \in Callers
    BY <1>1, NotBoot DEF Starting
  <1>3. \/ Went(t, th[t].ret) /\ Same(t) /\ th[t].ret \in {"start", "teardown"}
        \/ Went(t, "leave") /\ Same(t) /\ th[t].ret = "giveup"
    BY <1>1, GotoMoves DEF Points, Frame
  <1>4. Types' /\ (\A u \in Threads : Frame(th[u]))'
    BY <1>1, <1>2, <1>3, ZenonT(90) DEF Types, Frame
  <1>5. BootInv' /\ CallerInv'
    BY <1>1, <1>2, <1>3, LifecycleAssumption
       DEF BootInv, CallerInv, Active, Tearing, Halting, Starting, Threads
  <1>6. LockInv'
    BY <1>1, <1>2, <1>3, LifecycleAssumption DEF LockInv, Published, Tearing, Halting, Threads
  <1>7. StackInv'
    BY <1>1, <1>2, <1>3 DEF StackInv, Published, Tearing, Ending, Halting, Threads, LockInv
  <1>8. Owed'
    BY <1>1, <1>2, <1>3 DEF Owed, StackInv, Tearing, Ending, Halting, LockInv
  <1>9. PollInv'
    BY <1>1, <1>2, <1>3 DEF PollInv
  <1>10. CurrentInv'
    BY <1>1, <1>2, <1>3, Alone DEF CurrentInv, Active, Halting, Threads
  <1> QED
    BY <1>4, <1>5, <1>6, <1>7, <1>8, <1>9, <1>10 DEF LifeInv

\* The stack is gone, after its dataplane.
LEMMA TeardownKeeps ==
  ASSUME LifeInv, NEW t \in Threads, Teardown(t)
  PROVE  LifeInv'
  <1> USE DEF Teardown, At, locks, stack, pollVars, store, Went, Same, Back
  <1>1. /\ Types /\ (\A u \in Threads : Frame(th[u])) /\ BootInv /\ CallerInv /\ LockInv
        /\ StackInv /\ Owed /\ PollInv /\ CurrentInv
    BY DEF LifeInv
  <1>2. t \in Callers
    BY <1>1, NotBoot DEF Starting
  <1>3. \/ th[t].op = "reset" /\ Went(t, "wipe") /\ Same(t)
        \/ /\ th[t].op # "reset" /\ Went(t, "halt")
           /\ \/ Back(t, "start") /\ th[t].bundle # 0
              \/ Back(t, "giveup")
    BY <1>1, AfterStopMoves
  <1>a. /\ \A u \in Threads : th[u].pc # "ingress" /\ ~Published(th[u])
        /\ \A u \in Threads \ {t} : th[u].pc \notin {"stopLife", "teardown"} /\ ~Tearing(th[u])
        /\ \A u \in Threads : th[u].pc \in {"startLife", "check"} => th[u].mgr # 0
        /\ ~liveDP
    <2>1. \A u \in Threads : th[u].pc # "ingress" /\ ~Published(th[u])
      BY <1>1, LifecycleAssumption DEF LockInv, StackInv, Threads
    <2>2. \A u \in Threads \ {t} : th[u].pc \notin {"stopLife", "teardown"} /\ ~Tearing(th[u])
      BY <1>1, <1>2, Alone, NotBoot DEF Active, Tearing, Halting, Starting
    <2> QED
      BY <1>1, <2>1, <2>2 DEF StackInv, Frame
  <1>4. Types' /\ (\A u \in Threads : Frame(th[u]))'
    <2>1. stopping' \in BOOLEAN /\ web' \in BOOLEAN
      BY <1>1, Zenon DEF Types
    <2>2. Types'
      BY <1>1, <1>2, <1>3, <2>1 DEF Types
    <2>3. (\A u \in Threads : Frame(th[u]))'
      BY <1>1, <1>2, <1>3 DEF Frame
    <2> QED
      BY <2>2, <2>3
  <1>5. BootInv' /\ CallerInv'
    BY <1>1, <1>2, <1>3, LifecycleAssumption
       DEF BootInv, CallerInv, Active, Tearing, Halting, Starting, Threads
  <1>6. LockInv'
    BY <1>1, <1>2, <1>3, LifecycleAssumption DEF LockInv, Published, Tearing, Halting, Threads
  <1>7. StackInv'
    BY <1>1, <1>2, <1>3, <1>a DEF StackInv, Published, Tearing, Ending, Halting, Threads
  <1>8. Owed'
    BY <1>1, <1>2, <1>3, <1>a DEF Owed
  <1>9. PollInv'
    BY <1>1, <1>2, <1>3 DEF PollInv
  <1>10. CurrentInv'
    BY <1>1, <1>2, <1>3, Alone DEF CurrentInv, Active, Halting, Threads
  <1> QED
    BY <1>4, <1>5, <1>6, <1>7, <1>8, <1>9, <1>10 DEF LifeInv

\* The poller has ended.
LEMMA HaltWaitKeeps ==
  ASSUME LifeInv, NEW t \in Threads, HaltWait(t)
  PROVE  LifeInv'
  <1> USE DEF HaltWait, At, locks, stack, pollVars, store, Went, Same, Back, Waits
  <1>1. /\ Types /\ (\A u \in Threads : Frame(th[u])) /\ BootInv /\ CallerInv /\ LockInv
        /\ StackInv /\ Owed /\ PollInv /\ CurrentInv
    BY DEF LifeInv
  <1>2. t \in Callers
    BY <1>1, NotBoot DEF Starting
  <1>3. Went(t, IF th[t].ret = "repoll" THEN "poller" ELSE "unpublish") /\ Waits(t, 0)
    <2>1. CASE th[t].ret = "repoll"
      <3>1. th' = [th EXCEPT ![t].pc = "poller", ![t].done = 0]
        BY <2>1 DEF Halted
      <3> QED
        BY <1>1, <2>1, <3>1, WaitMoves, ZenonT(90) DEF Points
    <2>2. CASE th[t].ret # "repoll"
      BY <1>1, <2>2, WaitMoves, ZenonT(90) DEF Points, Halted
    <2> QED
      BY <2>1, <2>2
  <1>4. Types' /\ (\A u \in Threads : Frame(th[u]))'
    BY <1>1, <1>2, <1>3 DEF Types, Frame
  <1>5. BootInv' /\ CallerInv'
    BY <1>1, <1>2, <1>3, LifecycleAssumption
       DEF BootInv, CallerInv, Active, Tearing, Halting, Starting, Threads
  <1>6. LockInv'
    BY <1>1, <1>2, <1>3, LifecycleAssumption DEF LockInv, Published, Tearing, Halting, Threads
  <1>7. StackInv'
    <2>1. /\ th[t].pc = "haltWait" /\ th'[t].ret = th[t].ret /\ th'[t].mgr = th[t].mgr /\ th'[t].gen = th[t].gen
          /\ Went(t, "unpublish") \/ (Went(t, "poller") /\ th[t].ret = "repoll")
          /\ UNCHANGED <<stack, liveDP, configured>>
      BY <1>3
    <2> HIDE DEF HaltWait
    <2> QED
      BY <1>1, <1>2, <2>1 DEF StackInv, Published, Tearing, Ending, Halting, Threads
  <1>8. Owed'
    BY <1>1, <1>2, <1>3 DEF Owed
  <1>9. PollInv'
    BY <1>1, <1>2, <1>3 DEF PollInv, Closed, Pollers
  <1>10. CurrentInv'
    BY <1>1, <1>2, <1>3, Alone DEF CurrentInv, Active, Halting, Threads
  <1> QED
    BY <1>4, <1>5, <1>6, <1>7, <1>8, <1>9, <1>10 DEF LifeInv

\* Under controlMu nobody else is active, and the store and the bundle move together.
LEMMA EnterKeeps ==
  ASSUME LifeInv, NEW t \in Threads, Enter(t)
  PROVE  LifeInv'
  <1> USE DEF Enter, At, locks, stack, pollVars, store, Went, Same, Back
  <1>1. /\ Types /\ (\A u \in Threads : Frame(th[u])) /\ BootInv /\ CallerInv /\ LockInv
        /\ StackInv /\ Owed /\ PollInv /\ CurrentInv
    BY DEF LifeInv
  <1>2. t \in Callers
    BY <1>1, NotBoot DEF Starting
  <1>3. /\ t # Boot
        /\ \/ Went(t, "idle") /\ Same(t) /\ UNCHANGED <<controlMu, store>>
           \/ /\ controlMu' = t
              /\ \/ /\ Went(t, "stop") /\ Same(t) /\ configured /\ th[t].op = "reset" /\ UNCHANGED store
                 \/ /\ th[t].op # "reset" /\ db # MaxVersion /\ db' = db + 1 /\ configured' = TRUE
                    /\ th'[t].ret = th[t].ret /\ th'[t].mgr = th[t].mgr
                    /\ \/ th'[t].bundle = db + 1 /\ Went(t, "start") /\ ~configured
                       \/ th'[t].bundle = db + 1 /\ Went(t, "stop") /\ configured
                       \/ th'[t].bundle = db + 1 /\ Went(t, "sync") /\ configured
                       \/ th'[t].bundle = th[t].bundle /\ Went(t, "stop")
    <2>1. t # Boot
      BY <1>2, LifecycleAssumption
    <2>2. CASE configured = (th[t].op = "setup") \/ db = MaxVersion
      BY <1>1, <2>1, <2>2, GotoMoves DEF Points
    <2>3. CASE ~(configured = (th[t].op = "setup") \/ db = MaxVersion) /\ th[t].op = "reset"
      BY <1>1, <2>1, <2>3, GotoMoves DEF Points, Types
    <2>4. CASE ~(configured = (th[t].op = "setup") \/ db = MaxVersion) /\ th[t].op # "reset"
      <3>4. db # MaxVersion /\ db' = db + 1 /\ configured' = TRUE /\ controlMu' = t
        BY <2>4
      <3>5. CASE Goto(t, "stop")
        BY <1>1, <2>1, <2>4, <3>4, <3>5, GotoMoves DEF Points
      <3>6. CASE ~Goto(t, "stop")
       <4>1. PICK pc \in {"start", "stop", "sync"} :
                /\ th' = [th EXCEPT ![t].bundle = db + 1, ![t].pc = pc]
                /\ pc = "start" <=> th[t].op = "setup"
        BY <2>4, <3>6
       <4>2. Went(t, pc) /\ th'[t].bundle = db + 1 /\ th'[t].ret = th[t].ret /\ th'[t].mgr = th[t].mgr
        BY <1>1, <4>1 DEF Types, Records, Points
       <4>3. pc = "start" <=> ~configured
        BY <1>1, <2>4, <4>1 DEF Types
       <4> QED
        BY <2>1, <2>4, <3>4, <4>1, <4>2, <4>3
      <3> QED
        BY <3>5, <3>6
    <2> QED
      BY <2>2, <2>3, <2>4
  <1>a. controlMu = Nobody /\ \A c \in Callers : ~Active(th[c])
    BY <1>1, LifecycleAssumption DEF CallerInv
  <1>4. Types' /\ (\A u \in Threads : Frame(th[u]))'
    <2>1. configured' \in BOOLEAN
      BY <1>1, <1>3, Zenon DEF Types
    <2>2. db' \in 0 .. MaxVersion /\ db' >= db
      BY <1>1, <1>3, LifecycleAssumption DEF Types
    <2>3. Types'
      BY <1>1, <1>2, <1>3, <2>1, <2>2 DEF Types
    <2>4. (\A u \in Threads : Frame(th[u]))'
      BY <1>1, <1>2, <1>3, <2>2, LifecycleAssumption DEF Types, Records, Frame
    <2> QED
      BY <2>3, <2>4
  <1>5. BootInv' /\ CallerInv'
    BY <1>1, <1>2, <1>3, <1>a, LifecycleAssumption
       DEF BootInv, CallerInv, Active, Tearing, Halting, Starting, Threads
  <1>6. LockInv'
    BY <1>1, <1>2, <1>3, LifecycleAssumption, <1>a DEF LockInv, Published, Tearing, Halting, Threads
  <1>7. StackInv'
    BY <1>1, <1>2, <1>3 DEF StackInv, Published, Tearing, Ending, Halting, Threads
  <1>8. Owed'
    BY <1>1, <1>2, <1>3 DEF Owed
  <1>9. PollInv'
    BY <1>1, <1>2, <1>3 DEF PollInv
  <1>10. CurrentInv'
    <2>1. db \in Nat /\ th[Boot].bundle \in Nat /\ th'[Boot] = th[Boot] /\ th[t].bundle = 0
      BY <1>1, <1>2, <1>3, Versions DEF CurrentInv, Threads
    <2>2. CASE Went(t, "idle") /\ Same(t) /\ UNCHANGED store
      BY <1>1, <1>2, <2>1, <2>2 DEF CurrentInv, Active, Halting, Threads
    <2>3. CASE /\ Went(t, "stop") /\ Same(t) /\ th[t].op = "reset" /\ UNCHANGED store
      BY <1>1, <1>2, <2>1, <2>3, <1>a DEF CurrentInv, Active, Halting, Threads
    <2>4. CASE /\ th[t].op # "reset" /\ db' = db + 1
               /\ \/ th'[t].bundle = db + 1 /\ Went(t, "start") /\ ~configured
                  \/ th'[t].bundle = db + 1 /\ (Went(t, "stop") \/ Went(t, "sync"))
                  \/ th'[t].bundle = th[t].bundle /\ Went(t, "stop")
      BY <1>1, <1>2, <2>1, <2>4, <1>a DEF CurrentInv, Active, Halting, Threads, StackInv
    <2> QED
      BY <1>3, <2>2, <2>3, <2>4
  <1> QED
    BY <1>4, <1>5, <1>6, <1>7, <1>8, <1>9, <1>10 DEF LifeInv

\* The poller is told to stop; who goes on at once finds none.
LEMMA HaltPollerKeeps ==
  ASSUME LifeInv, NEW t \in Threads, HaltPoller(t)
  PROVE  LifeInv'
  <1> USE DEF HaltPoller, At, locks, stack, pollVars, store, Went, Same, Back, Waits
  <1>1. /\ Types /\ (\A u \in Threads : Frame(th[u])) /\ BootInv /\ CallerInv /\ LockInv
        /\ StackInv /\ Owed /\ PollInv /\ CurrentInv
    BY DEF LifeInv
  <1>2. t \in Callers
    BY <1>1, NotBoot DEF Starting
  <1>3. \/ Went(t, "haltWait") /\ Waits(t, statusDone)
        \/ Went(t, "poller") /\ Waits(t, statusDone) /\ th[t].ret = "repoll" /\ statusDone = 0
        \/ Went(t, "unpublish") /\ Waits(t, statusDone) /\ th[t].ret # "repoll" /\ statusDone = 0
    <2>1. PICK pc \in {"haltWait", "poller", "unpublish"} :
              /\ th' = [th EXCEPT ![t].done = statusDone, ![t].pc = pc]
              /\ pc = "poller" => th[t].ret = "repoll" /\ statusDone = 0
              /\ pc = "unpublish" => th[t].ret # "repoll" /\ statusDone = 0
      BY DEF Halted
    <2>2. PICK d \in Pollers \cup {0} : d = statusDone /\ pc \in Points /\ th' = [th EXCEPT ![t].done = d, ![t].pc = pc]
      BY <1>1, <2>1 DEF Types, Points
    <2>3. Went(t, pc) /\ Waits(t, d)
      BY <1>1, <2>2 DEF Types, Records
    <2> QED
      BY <2>1, <2>2, <2>3
  <1>4. Types' /\ (\A u \in Threads : Frame(th[u]))'
    <2>1. statusRunning' \in BOOLEAN
      BY <1>1, Zenon DEF Types
    <2>a. stopCh' \subseteq Pollers
      BY <1>1 DEF Types, PollInv
    <2>2. Types'
      BY <1>1, <1>2, <1>3, <2>1, <2>a DEF Types
    <2>3. (\A u \in Threads : Frame(th[u]))'
      BY <1>1, <1>2, <1>3 DEF Frame
    <2> QED
      BY <2>2, <2>3
  <1>5. PollInv'
    BY <1>1, <1>2, <1>3 DEF PollInv, Types, Pollers
  <1>6. /\ th[t].pc = "halt" /\ th'[t].ret = th[t].ret /\ th'[t].mgr = th[t].mgr
        /\ th'[t].gen = th[t].gen /\ th'[t].bundle = th[t].bundle
        /\ \/ Went(t, "haltWait") \/ Went(t, "unpublish")
           \/ Went(t, "poller") /\ th[t].ret = "repoll"
        /\ UNCHANGED <<locks, stack, liveDP, store>>
    BY <1>3
  <1> HIDE DEF HaltPoller
  <1>7. BootInv' /\ CallerInv'
    BY <1>1, <1>2, <1>6, LifecycleAssumption
       DEF BootInv, CallerInv, Active, Tearing, Halting, Starting, Threads
  <1>8. LockInv'
    BY <1>1, <1>2, <1>6, LifecycleAssumption DEF LockInv, Published, Tearing, Halting, Threads
  <1>9. StackInv'
    BY <1>1, <1>2, <1>6 DEF StackInv, Published, Tearing, Ending, Halting, Threads
  <1>10. Owed'
    BY <1>1, <1>2, <1>6 DEF Owed
  <1>11. CurrentInv'
    BY <1>1, <1>2, <1>6, Alone DEF CurrentInv, Active, Halting, Threads
  <1> QED
    BY <1>4, <1>5, <1>7, <1>8, <1>9, <1>10, <1>11 DEF LifeInv

\* A start takes the stack lock over an empty stack, or finds one running.
LEMMA StartLockKeeps ==
  ASSUME LifeInv, NEW t \in Threads, StartLock(t)
  PROVE  LifeInv'
  <1> USE DEF StartLock, At, locks, stack, pollVars, store, Went, Same, Back, Seen
  <1>1. /\ Types /\ (\A u \in Threads : Frame(th[u])) /\ BootInv /\ CallerInv /\ LockInv
        /\ StackInv /\ Owed /\ PollInv /\ CurrentInv
    BY DEF LifeInv
  <1>3. \/ /\ tunnelMgr # 0 /\ mu' = mu /\ Seen(t)
           /\ \/ th[t].op = "boot" /\ Went(t, "idle")
              \/ th[t].op # "boot" /\ (Went(t, "upstream") \/ Went(t, "leave"))
        \/ tunnelMgr = 0 /\ mu' = t /\ Went(t, "build") /\ Same(t)
    <2>1. CASE tunnelMgr # 0
      BY <1>1, <2>1, ReturnsMoves
    <2>2. CASE tunnelMgr = 0
      BY <1>1, <2>2, GotoMoves DEF Points
    <2> QED
      BY <2>1, <2>2
  <1>4. Types' /\ (\A u \in Threads : Frame(th[u]))'
    BY <1>1, <1>3 DEF Types, Frame
  <1>5. BootInv' /\ CallerInv'
    BY <1>1, <1>3, LifecycleAssumption
       DEF BootInv, CallerInv, Active, Tearing, Halting, Starting, Threads
  <1>6. LockInv'
    BY <1>1, <1>3, LifecycleAssumption DEF LockInv, Published, Tearing, Halting, Threads
  <1>7. StackInv'
    BY <1>1, <1>3 DEF StackInv, Published, Tearing, Ending, Halting, Threads
  <1>8. Owed'
    BY <1>1, <1>3 DEF Owed
  <1>9. PollInv'
    BY <1>1, <1>3 DEF PollInv
  <1>10. CurrentInv'
    BY <1>1, <1>3, Versions, Unbooted, LifecycleAssumption
       DEF CurrentInv, Active, Halting, Threads, Starting, BootInv
  <1> QED
    BY <1>4, <1>5, <1>6, <1>7, <1>8, <1>9, <1>10 DEF LifeInv

\* A start takes lifecycleMu before it looks again.
LEMMA StartLifeKeeps ==
  ASSUME LifeInv, NEW t \in Threads, StartLife(t)
  PROVE  LifeInv'
  <1> USE DEF StartLife, At, locks, stack, pollVars, store, Went, Same, Back
  <1>1. /\ Types /\ (\A u \in Threads : Frame(th[u])) /\ BootInv /\ CallerInv /\ LockInv
        /\ StackInv /\ Owed /\ PollInv /\ CurrentInv
    BY DEF LifeInv
  <1>3. Went(t, "check") /\ Same(t)
    BY <1>1, GotoMoves DEF Points
  <1>4. Types' /\ (\A u \in Threads : Frame(th[u]))'
    BY <1>1, <1>3 DEF Types, Frame
  <1>5. BootInv' /\ CallerInv'
    BY <1>1, <1>3, LifecycleAssumption
       DEF BootInv, CallerInv, Active, Tearing, Halting, Starting, Threads
  <1>6. LockInv'
    BY <1>1, <1>3, LifecycleAssumption DEF LockInv, Published, Tearing, Halting, Threads
  <1>7. StackInv'
    BY <1>1, <1>3 DEF StackInv, Published, Tearing, Ending, Halting, Threads
  <1>8. Owed'
    BY <1>1, <1>3 DEF Owed
  <1>9. PollInv'
    BY <1>1, <1>3 DEF PollInv
  <1>10. CurrentInv'
    BY <1>1, <1>3 DEF CurrentInv, Active, Halting, Threads
  <1> QED
    BY <1>4, <1>5, <1>6, <1>7, <1>8, <1>9, <1>10 DEF LifeInv

\* A start that a stop overtook publishes nothing; without one its manager still runs.
LEMMA CheckKeeps ==
  ASSUME LifeInv, NEW t \in Threads, Check(t)
  PROVE  LifeInv'
  <1> USE DEF Check, At, locks, stack, pollVars, store, Went, Same, Back, Seen
  <1>1. /\ Types /\ (\A u \in Threads : Frame(th[u])) /\ BootInv /\ CallerInv /\ LockInv
        /\ StackInv /\ Owed /\ PollInv /\ CurrentInv
    BY DEF LifeInv
  <1>3. \/ StillValid(t) /\ Went(t, "publish") /\ Same(t) /\ lifecycleMu' = lifecycleMu
        \/ /\ ~StillValid(t) /\ lifecycleMu' = Nobody /\ Seen(t)
           /\ \/ th[t].op = "boot" /\ Went(t, "idle")
              \/ th[t].op # "boot" /\ (Went(t, "upstream") \/ Went(t, "leave"))
    <2>1. CASE ~StillValid(t)
      BY <1>1, <2>1, ReturnsMoves
    <2>2. CASE StillValid(t)
      BY <1>1, <2>2, GotoMoves DEF Points
    <2> QED
      BY <2>1, <2>2
  <1>a. (\A u \in Threads : th[u].pc # "ingress") /\ th[t].mgr # 0
    BY <1>1, LifecycleAssumption DEF LockInv, Threads, Frame
  <1>4. Types' /\ (\A u \in Threads : Frame(th[u]))'
    BY <1>1, <1>3 DEF Types, Frame
  <1>5. BootInv' /\ CallerInv'
    BY <1>1, <1>3, LifecycleAssumption
       DEF BootInv, CallerInv, Active, Tearing, Halting, Starting, Threads
  <1>6. LockInv'
    BY <1>1, <1>3, LifecycleAssumption DEF LockInv, Published, Tearing, Halting, Threads
  <1>7. StackInv'
    BY <1>1, <1>3, <1>a DEF StackInv, Published, Tearing, Ending, Halting, Threads, StillValid
  <1>8. Owed'
    BY <1>1, <1>3, <1>a DEF Owed, StackInv, StillValid
  <1>9. PollInv'
    BY <1>1, <1>3 DEF PollInv
  <1>10. CurrentInv'
    BY <1>1, <1>3, Versions, Unbooted, LifecycleAssumption
       DEF CurrentInv, Active, Halting, Threads, Starting, BootInv
  <1> QED
    BY <1>4, <1>5, <1>6, <1>7, <1>8, <1>9, <1>10 DEF LifeInv

\* OnStarted is over.
LEMMA EndLifeKeeps ==
  ASSUME LifeInv, NEW t \in Threads, EndLife(t)
  PROVE  LifeInv'
  <1> USE DEF EndLife, At, locks, stack, pollVars, store, Went, Same, Back, Seen
  <1>1. /\ Types /\ (\A u \in Threads : Frame(th[u])) /\ BootInv /\ CallerInv /\ LockInv
        /\ StackInv /\ Owed /\ PollInv /\ CurrentInv
    BY DEF LifeInv
  <1>3. /\ Seen(t)
        /\ \/ th[t].op = "boot" /\ Went(t, "idle")
           \/ th[t].op # "boot" /\ (Went(t, "upstream") \/ Went(t, "leave"))
    BY <1>1, ReturnsMoves
  <1>4. Types' /\ (\A u \in Threads : Frame(th[u]))'
    BY <1>1, <1>3 DEF Types, Frame
  <1>5. BootInv' /\ CallerInv'
    BY <1>1, <1>3, LifecycleAssumption
       DEF BootInv, CallerInv, Active, Tearing, Halting, Starting, Threads
  <1>6. LockInv'
    BY <1>1, <1>3, LifecycleAssumption DEF LockInv, Published, Tearing, Halting, Threads
  <1>7. StackInv'
    BY <1>1, <1>3 DEF StackInv, Published, Tearing, Ending, Halting, Threads
  <1>8. Owed'
    BY <1>1, <1>3 DEF Owed
  <1>9. PollInv'
    BY <1>1, <1>3 DEF PollInv
  <1>10. CurrentInv'
    BY <1>1, <1>3, Versions, Unbooted, LifecycleAssumption
       DEF CurrentInv, Active, Halting, Threads, Starting, BootInv
  <1> QED
    BY <1>4, <1>5, <1>6, <1>7, <1>8, <1>9, <1>10 DEF LifeInv

\* OnStarted publishes a stack that runs.
LEMMA PublishKeeps ==
  ASSUME LifeInv, NEW t \in Threads, Publish(t)
  PROVE  LifeInv'
  <1> USE DEF Publish, At, locks, stack, pollVars, store, Went, Same, Back
  <1>1. /\ Types /\ (\A u \in Threads : Frame(th[u])) /\ BootInv /\ CallerInv /\ LockInv
        /\ StackInv /\ Owed /\ PollInv /\ CurrentInv
    BY DEF LifeInv
  <1>3. \/ Went(t, "poller") /\ Back(t, "spec")
        \/ Went(t, "spec") /\ Same(t)
    BY <1>1, GotoMoves, ReturnMoves DEF Points
  <1>4. Types' /\ (\A u \in Threads : Frame(th[u]))'
    BY <1>1, <1>3 DEF Types, Frame
  <1>5. BootInv' /\ CallerInv'
    BY <1>1, <1>3, LifecycleAssumption
       DEF BootInv, CallerInv, Active, Tearing, Halting, Starting, Threads
  <1>6. LockInv'
    BY <1>1, <1>3, LifecycleAssumption DEF LockInv, Published, Tearing, Halting, Threads
  <1>7. StackInv'
    BY <1>1, <1>3 DEF StackInv, Published, Tearing, Ending, Halting, Threads
  <1>8. Owed'
    BY <1>1, <1>3 DEF Owed
  <1>9. PollInv'
    BY <1>1, <1>3 DEF PollInv
  <1>10. CurrentInv'
    BY <1>1, <1>3 DEF CurrentInv, Active, Halting, Threads
  <1> QED
    BY <1>4, <1>5, <1>6, <1>7, <1>8, <1>9, <1>10 DEF LifeInv

\* The poller before has ended.
LEMMA PollerWaitKeeps ==
  ASSUME LifeInv, NEW t \in Threads, PollerWait(t)
  PROVE  LifeInv'
  <1> USE DEF PollerWait, At, locks, stack, pollVars, store, Went, Same, Back, Waits
  <1>1. /\ Types /\ (\A u \in Threads : Frame(th[u])) /\ BootInv /\ CallerInv /\ LockInv
        /\ StackInv /\ Owed /\ PollInv /\ CurrentInv
    BY DEF LifeInv
  <1>3. Went(t, "poller") /\ Waits(t, 0)
    BY <1>1, WaitMoves DEF Points
  <1>4. Types' /\ (\A u \in Threads : Frame(th[u]))'
    BY <1>1, <1>3 DEF Types, Frame
  <1>5. BootInv' /\ CallerInv'
    BY <1>1, <1>3, LifecycleAssumption
       DEF BootInv, CallerInv, Active, Tearing, Halting, Starting, Threads
  <1>6. LockInv'
    BY <1>1, <1>3, LifecycleAssumption DEF LockInv, Published, Tearing, Halting, Threads
  <1>7. StackInv'
    <2>1. /\ th[t].pc = "pollerWait" /\ th'[t].ret = th[t].ret /\ th'[t].mgr = th[t].mgr /\ th'[t].gen = th[t].gen
          /\ UNCHANGED <<stack, liveDP, configured>>
      BY <1>3
    <2> HIDE DEF PollerWait
    <2> QED
      BY <1>1, <1>3, <2>1 DEF StackInv, Published, Tearing, Ending, Halting, Threads
  <1>8. Owed'
    BY <1>1, <1>3 DEF Owed
  <1>9. PollInv'
    BY <1>1, <1>3 DEF PollInv
  <1>10. CurrentInv'
    BY <1>1, <1>3 DEF CurrentInv, Active, Halting, Threads
  <1> QED
    BY <1>4, <1>5, <1>6, <1>7, <1>8, <1>9, <1>10 DEF LifeInv

\* The rules are those of the store.
LEMMA BuildSpecKeeps ==
  ASSUME LifeInv, NEW t \in Threads, BuildSpec(t)
  PROVE  LifeInv'
  <1> USE DEF BuildSpec, At, locks, stack, pollVars, store, Went, Same, Back
  <1>1. /\ Types /\ (\A u \in Threads : Frame(th[u])) /\ BootInv /\ CallerInv /\ LockInv
        /\ StackInv /\ Owed /\ PollInv /\ CurrentInv
    BY DEF LifeInv
  <1>3. \/ Went(t, "endLife") /\ Same(t)
        \/ /\ Went(t, "apply") /\ th'[t].bundle = db
           /\ th'[t].ret = th[t].ret /\ th'[t].mgr = th[t].mgr /\ th'[t].gen = th[t].gen /\ th'[t].done = th[t].done
    <2>1. CASE Goto(t, "endLife")
      BY <1>1, <2>1, GotoMoves DEF Points
    <2>2. CASE th' = [th EXCEPT ![t].bundle = db, ![t].pc = "apply"]
      BY <1>1, <2>2 DEF Types, Records, Points
    <2> QED
      BY <2>1, <2>2
  <1>4. Types' /\ (\A u \in Threads : Frame(th[u]))'
    BY <1>1, <1>3 DEF Types, Frame
  <1>5. BootInv' /\ CallerInv'
    BY <1>1, <1>3, LifecycleAssumption
       DEF BootInv, CallerInv, Active, Tearing, Halting, Starting, Threads
  <1>6. LockInv'
    BY <1>1, <1>3, LifecycleAssumption DEF LockInv, Published, Tearing, Halting, Threads
  <1>7. StackInv'
    BY <1>1, <1>3 DEF StackInv, Published, Tearing, Ending, Halting, Threads
  <1>8. Owed'
    BY <1>1, <1>3 DEF Owed
  <1>9. PollInv'
    BY <1>1, <1>3 DEF PollInv
  <1>10. CurrentInv'
    BY <1>1, <1>3 DEF CurrentInv, Active, Halting, Threads
  <1> QED
    BY <1>4, <1>5, <1>6, <1>7, <1>8, <1>9, <1>10 DEF LifeInv

\* The filter gets the rules.
LEMMA ApplySpecKeeps ==
  ASSUME LifeInv, NEW t \in Threads, ApplySpec(t)
  PROVE  LifeInv'
  <1> USE DEF ApplySpec, At, locks, stack, pollVars, store, Went, Same, Back
  <1>1. /\ Types /\ (\A u \in Threads : Frame(th[u])) /\ BootInv /\ CallerInv /\ LockInv
        /\ StackInv /\ Owed /\ PollInv /\ CurrentInv
    BY DEF LifeInv
  <1>3. Went(t, "endLife") /\ Same(t)
    BY <1>1, GotoMoves DEF Points
  <1>a. t \in Callers => th[t].bundle = db
    BY <1>1, Versions DEF Starting
  <1>4. Types' /\ (\A u \in Threads : Frame(th[u]))'
    BY <1>1, <1>3, Carries DEF Types, Frame
  <1>5. BootInv' /\ CallerInv'
    BY <1>1, <1>3, LifecycleAssumption
       DEF BootInv, CallerInv, Active, Tearing, Halting, Starting, Threads
  <1>6. LockInv'
    BY <1>1, <1>3, LifecycleAssumption DEF LockInv, Published, Tearing, Halting, Threads
  <1>7. StackInv'
    BY <1>1, <1>3 DEF StackInv, Published, Tearing, Ending, Halting, Threads
  <1>8. Owed'
    BY <1>1, <1>3 DEF Owed
  <1>9. PollInv'
    BY <1>1, <1>3 DEF PollInv
  <1>10. CurrentInv'
    BY <1>1, <1>3, <1>a DEF CurrentInv, Active, Halting, Threads
  <1> QED
    BY <1>4, <1>5, <1>6, <1>7, <1>8, <1>9, <1>10 DEF LifeInv

LEMMA BuildMoves ==
  ASSUME Types, NEW t \in Threads, NEW m \in Nat, NEW g \in Nat,
         th' = [th EXCEPT ![t].pc = "ingress", ![t].mgr = m, ![t].gen = g]
  PROVE  /\ Went(t, "ingress") /\ th'[t].mgr = m /\ th'[t].gen = g
         /\ th'[t].bundle = th[t].bundle /\ th'[t].ret = th[t].ret
  <1>0. th \in [Threads -> Records]
    BY DEF Types
  <1>1. PICK q \in Records : q = th[t]
    BY <1>0
  <1> DEFINE n == [q EXCEPT !.pc = "ingress", !.mgr = m, !.gen = g]
  <1>2. /\ n \in Records /\ n.pc = "ingress" /\ n.op = q.op /\ n.mgr = m /\ n.gen = g
        /\ n.bundle = q.bundle /\ n.ret = q.ret
    BY DEF Records, Points
  <1>3. th' = [th EXCEPT ![t] = n]
    BY <1>0, <1>1
  <1> HIDE DEF n
  <1>4. th' \in [Threads -> Records] /\ th'[t] = n /\ \A u \in Threads \ {t} : th'[u] = th[u]
    BY <1>0, <1>2, <1>3, ZenonT(90)
  <1> QED
    BY <1>1, <1>2, <1>4 DEF Went

LEMMA StartFailsMoves ==
  ASSUME Types, NEW t \in Threads, StartFails(t)
  PROVE  th[t].op # "boot" /\ mu' = Nobody /\ Went(t, "stop") /\ Back(t, "giveup")
  BY ReturnMoves DEF StartFails, Points

\* The new manager has a number and a generation of its own, and nobody else acts on the empty stack.
LEMMA BuildKeeps ==
  ASSUME LifeInv, NEW t \in Threads, Build(t)
  PROVE  LifeInv'
  <1> USE DEF Build, At, locks, stack, pollVars, store, Went, Same, Back
  <1>1. /\ Types /\ (\A u \in Threads : Frame(th[u])) /\ BootInv /\ CallerInv /\ LockInv
        /\ StackInv /\ Owed /\ PollInv /\ CurrentInv
    BY DEF LifeInv
  <1>2. \/ /\ tunnelMgr' = issued + 1 /\ issued' = issued + 1 /\ generation' = generation + 1 /\ web' = TRUE /\ mu' = mu
           /\ Went(t, "ingress") /\ th'[t].mgr = issued + 1 /\ th'[t].gen = generation + 1
           /\ th'[t].bundle = th[t].bundle /\ th'[t].ret = th[t].ret
        \/ /\ th[t].op # "boot" /\ mu' = Nobody /\ Went(t, "stop") /\ Back(t, "giveup")
           /\ UNCHANGED <<tunnelMgr, issued, generation, web>>
    <2>1. CASE StartFails(t) /\ UNCHANGED <<tunnelMgr, issued, generation, web>>
      BY <1>1, <2>1, StartFailsMoves
    <2>2. CASE /\ tunnelMgr' = issued + 1 /\ issued' = issued + 1 /\ generation' = generation + 1
               /\ web' = TRUE /\ mu' = mu
               /\ th' = [th EXCEPT ![t].pc = "ingress", ![t].mgr = issued + 1, ![t].gen = generation + 1]
      <3>1. issued + 1 \in Nat /\ generation + 1 \in Nat
        BY <1>1 DEF Types
      <3>2. PICK m \in Nat, g \in Nat : m = issued + 1 /\ g = generation + 1
        BY <3>1
      <3>3. th' = [th EXCEPT ![t].pc = "ingress", ![t].mgr = m, ![t].gen = g]
        BY <2>2, <3>2
      <3>4. /\ Went(t, "ingress") /\ th'[t].mgr = m /\ th'[t].gen = g
            /\ th'[t].bundle = th[t].bundle /\ th'[t].ret = th[t].ret
        BY <1>1, <3>3, BuildMoves
      <3> QED
        BY <2>2, <3>2, <3>4
    <2> QED
      BY <2>1, <2>2
  <1>a. configured /\ tunnelMgr = 0 /\ ~liveDP /\ mu = t
    BY <1>1 DEF BootInv, CallerInv, StackInv, LockInv, Active, Threads
  <1>b. /\ t \in Callers => \A c \in Callers : Active(th[c]) => c = t
        /\ t = Boot => \A c \in Callers : th[c].pc = "idle"
        /\ t \in Callers => th[Boot].pc \notin {"start", "build"}
    BY <1>1, Alone DEF BootInv, Active
  <1>c. \A u \in Threads \ {t} : th[u].pc \notin {"build", "ingress", "wipe"} /\ ~Published(th[u]) /\ ~Ending(th[u])
    <2> SUFFICES ASSUME NEW u \in Threads \ {t}
                 PROVE  th[u].pc \notin {"build", "ingress", "wipe"} /\ ~Published(th[u]) /\ ~Ending(th[u])
      OBVIOUS
    <2>1. th[u].pc \notin {"build", "ingress"} /\ ~Published(th[u])
      BY <1>1, <1>a DEF LockInv, StackInv
    <2>2. th[u].pc # "wipe" /\ ~Ending(th[u])
      BY <1>1, <1>b, NotBoot DEF Threads, Active, Ending, Halting, Starting
    <2> QED
      BY <2>1, <2>2
  <1>d. \A u \in Threads : th[u].mgr <= issued /\ th[u].mgr \in Nat
    BY <1>1 DEF Frame, Types, Records
  <1> HIDE DEF Build
  <1>e. UNCHANGED <<controlMu, lifecycleMu, stopping, device, filter, liveDP, pollVars, store>> /\ th[t].pc = "build"
    BY DEF Build
  <1>4. Types' /\ (\A u \in Threads : Frame(th[u]))'
    <2>1. web' \in BOOLEAN
      BY <1>1, <1>2, <1>e, Zenon DEF Types
    <2>2. Types'
      BY <1>1, <1>2, <1>e, <2>1 DEF Types
    <2>3. (\A u \in Threads : Frame(th[u]))'
      BY <1>1, <1>2, <1>d, <1>e DEF Types, Frame
    <2> QED
      BY <2>2, <2>3
  <1>5. BootInv' /\ CallerInv'
    BY <1>1, <1>2, <1>a, <1>b, <1>c, <1>e, LifecycleAssumption
       DEF BootInv, CallerInv, Active, Tearing, Halting, Starting, Threads
  <1>6. LockInv'
    BY <1>1, <1>2, <1>a, <1>b, <1>c, <1>e, LifecycleAssumption
       DEF LockInv, Published, Tearing, Halting, Threads
  <1>7. StackInv'
    <2>1. CASE Went(t, "stop") /\ Back(t, "giveup") /\ UNCHANGED <<tunnelMgr, issued, generation, web>>
      BY <1>1, <1>a, <1>c, <1>e, <2>1
         DEF Types, StackInv, Published, Tearing, Ending, Halting, Threads
    <2>2. CASE /\ tunnelMgr' = issued + 1 /\ issued' = issued + 1 /\ generation' = generation + 1
               /\ Went(t, "ingress") /\ th'[t].mgr = issued + 1 /\ th'[t].gen = generation + 1
      BY <1>1, <1>a, <1>c, <1>d, <1>e, <2>2
         DEF Types, StackInv, Published, Tearing, Ending, Halting, Threads
    <2> QED
      BY <1>2, <2>1, <2>2
  <1>8. Owed'
    <2>1. CASE Went(t, "stop") /\ Back(t, "giveup") /\ UNCHANGED <<tunnelMgr, issued, generation, web>>
      BY <1>1, <1>a, <1>e, <2>1 DEF Types, Owed
    <2>2. CASE /\ tunnelMgr' = issued + 1 /\ issued' = issued + 1 /\ generation' = generation + 1
               /\ Went(t, "ingress") /\ th'[t].mgr = issued + 1 /\ th'[t].gen = generation + 1
      BY <1>1, <1>a, <1>e, <2>2 DEF Types, Owed
    <2> QED
      BY <1>2, <2>1, <2>2
  <1>9. PollInv'
    BY <1>1, <1>2, <1>e DEF PollInv
  <1>10. CurrentInv'
    BY <1>1, <1>2, <1>a, <1>e, Unbooted DEF CurrentInv, Active, Halting, Threads
  <1> QED
    BY <1>4, <1>5, <1>6, <1>7, <1>8, <1>9, <1>10 DEF LifeInv

\* Start gives the stack its bundle, or rolls it back before anyone saw it.
LEMMA IngressKeeps ==
  ASSUME LifeInv, NEW t \in Threads, Ingress(t)
  PROVE  LifeInv'
  <1> USE DEF Ingress, At, locks, stack, pollVars, store, Went, Same, Back
  <1>1. /\ Types /\ (\A u \in Threads : Frame(th[u])) /\ BootInv /\ CallerInv /\ LockInv
        /\ StackInv /\ Owed /\ PollInv /\ CurrentInv
    BY DEF LifeInv
  <1>3. \/ /\ device' = th[t].bundle /\ filter' = th[t].bundle /\ mu' = Nobody
           /\ Went(t, "startLife") /\ Same(t) /\ UNCHANGED <<tunnelMgr, web>>
        \/ /\ th[t].op # "boot" /\ mu' = Nobody /\ Went(t, "stop") /\ Back(t, "giveup")
           /\ tunnelMgr' = 0 /\ web' = FALSE /\ UNCHANGED <<device, filter>>
    BY <1>1, GotoMoves, StartFailsMoves DEF Points
  <1>a. /\ mu = t /\ ~liveDP /\ tunnelMgr = th[t].mgr
        /\ \A u \in Threads : ~Published(th[u])
        /\ \A u \in Threads \ {t} : th[u].pc \notin {"build", "ingress"}
        /\ \A u \in Threads : th[u].pc \in {"startLife", "check"} => th[u].mgr # 0
    BY <1>1 DEF LockInv, StackInv, Frame
  <1>b. t \in Callers => th[t].bundle = db
    BY <1>1, Unbooted DEF CurrentInv, CallerInv, Active, Tearing, Halting
  <1>c. t \in Callers => Active(th[t]) /\ th[Boot].pc \notin {"start", "build"}
    BY <1>1 DEF BootInv, Active
  <1>4. Types' /\ (\A u \in Threads : Frame(th[u]))'
    <2>1. web' \in BOOLEAN
      BY <1>1, <1>3, Zenon DEF Types
    <2>2. Types'
      BY <1>1, <1>3, <2>1, Carries DEF Types
    <2>3. (\A u \in Threads : Frame(th[u]))'
      BY <1>1, <1>3 DEF Frame
    <2> QED
      BY <2>2, <2>3
  <1>5. BootInv' /\ CallerInv'
    BY <1>1, <1>3, <1>a, <1>c, LifecycleAssumption
       DEF BootInv, CallerInv, Active, Tearing, Halting, Starting, Threads
  <1>6. LockInv'
    BY <1>1, <1>3, LifecycleAssumption, <1>a, <1>c DEF LockInv, Published, Tearing, Halting, Threads
  <1>7. StackInv'
    BY <1>1, <1>3, <1>a DEF StackInv, Published, Tearing, Ending, Halting, Threads
  <1>8. Owed'
    BY <1>1, <1>3, <1>a DEF Owed
  <1>9. PollInv'
    BY <1>1, <1>3 DEF PollInv
  <1>10. CurrentInv'
    BY <1>1, <1>3, <1>b DEF CurrentInv, Active, Halting, Threads
  <1> QED
    BY <1>4, <1>5, <1>6, <1>7, <1>8, <1>9, <1>10 DEF LifeInv

\* While somebody starts a poller nobody is stopping one for good.
LEMMA NoHalting ==
  ASSUME BootInv, CallerInv, LockInv, StackInv, NEW t \in Threads, Frame(th[t]),
         th[t].pc \in {"poller", "pollerWait"}
  PROVE  \A u \in Threads : ~Tearing(th[u]) /\ ~Ending(th[u])
  <1> SUFFICES ASSUME NEW u \in Threads, Tearing(th[u]) \/ Ending(th[u])
               PROVE  FALSE
    OBVIOUS
  <1>1. u \in Callers /\ Active(th[u]) /\ u # t
    BY NotBoot DEF Tearing, Ending, Halting, Starting, Active
  <1>2. t = Boot
    BY <1>1, Alone DEF Active, Threads
  <1>3. Published(th[t])
    BY <1>2 DEF BootInv, Frame, Published
  <1> QED
    BY <1>1, <1>3 DEF LockInv, StackInv

\* A poller starts when the one before has exited and none is to stop.
LEMMA StartPollerKeeps ==
  ASSUME LifeInv, NEW t \in Threads, StartPoller(t)
  PROVE  LifeInv'
  <1> USE DEF StartPoller, At, locks, stack, pollVars, store, Went, Same, Back, Waits
  <1>1. /\ Types /\ (\A u \in Threads : Frame(th[u])) /\ BootInv /\ CallerInv /\ LockInv
        /\ StackInv /\ Owed /\ PollInv /\ CurrentInv
    BY DEF LifeInv
  <1>a. Polling(t) \in {"leave", "spec"} /\ (Polling(t) = "spec" <=> th[t].ret = "spec")
    BY <1>1 DEF Frame, Polling
  <1>3. \/ /\ UNCHANGED <<statusRunning, statusDone, poll>>
           /\ \/ Went(t, Polling(t)) /\ Same(t)
              \/ Went(t, "pollerWait") /\ Waits(t, statusDone)
        \/ /\ ~statusRunning /\ statusDone = 0 /\ statusRunning' = TRUE /\ statusDone' \in Pollers
           /\ poll[statusDone'] = "none" /\ poll' = [poll EXCEPT ![statusDone'] = "wait"]
           /\ Went(t, Polling(t)) /\ Same(t)
    <2>1. ASSUME Goto(t, Polling(t)) PROVE Went(t, Polling(t)) /\ Same(t)
      BY <1>1, <1>a, <2>1, GotoMoves DEF Points
    <2>2. CASE statusRunning
      BY <2>1, <2>2
    <2>3. CASE ~statusRunning /\ statusDone # 0
      <3>1. PICK d \in Pollers \cup {0} : d = statusDone /\ th' = [th EXCEPT ![t].pc = "pollerWait", ![t].done = d]
        BY <1>1, <2>3 DEF Types
      <3> HIDE DEF StartPoller
      <3>2. Went(t, "pollerWait") /\ Waits(t, d)
        BY <1>1, <3>1, ZenonT(90) DEF Types, Records, Points
      <3>3. UNCHANGED <<statusRunning, statusDone, poll>>
        BY <2>3 DEF StartPoller
      <3> QED
        BY <3>1, <3>2, <3>3
    <2>4. CASE ~statusRunning /\ statusDone = 0
      BY <2>1, <2>4 DEF FreeSlot
    <2> QED
      BY <2>2, <2>3, <2>4
  <1>d. t = Boot => Polling(t) = "spec"
    BY <1>1, <1>a DEF Frame, BootInv
  <1>b. \A u \in Threads : th[u].pc # "unpublish" /\ (th[u].pc = "haltWait" => th[u].ret = "repoll")
    BY <1>1, NoHalting DEF Frame, Tearing, Ending, Halting
  <1> HIDE DEF StartPoller
  <1>c. UNCHANGED <<locks, stack, liveDP, dpReaders, stopCh, store>> /\ th[t].pc = "poller"
    BY DEF StartPoller
  <1>4. Types' /\ (\A u \in Threads : Frame(th[u]))'
    <2>1. statusRunning' \in BOOLEAN
      BY <1>1, <1>3, <1>c, Zenon DEF Types
    <2>2. Types'
      BY <1>1, <1>3, <2>1, <1>a, <1>c DEF Types
    <2>3. (\A u \in Threads : Frame(th[u]))'
      BY <1>1, <1>3, <1>a, <1>c DEF Frame
    <2> QED
      BY <2>2, <2>3
  <1>5. BootInv' /\ CallerInv'
    BY <1>1, <1>3, <1>a, <1>c, <1>d, LifecycleAssumption
       DEF BootInv, CallerInv, Active, Tearing, Halting, Starting, Threads
  <1>6. LockInv'
    BY <1>1, <1>3, <1>a, <1>c, <1>d, LifecycleAssumption
       DEF LockInv, Published, Tearing, Halting, Threads
  <1>7. StackInv'
    BY <1>1, <1>3, <1>a, <1>c DEF StackInv, Published, Tearing, Ending, Halting, Threads
  <1>8. Owed'
    BY <1>1, <1>3, <1>a, <1>c DEF Owed
  <1>9. PollInv'
    <2>1. CASE UNCHANGED <<statusRunning, statusDone, poll>>
      BY <1>1, <1>3, <1>a, <1>b, <1>c, <2>1 DEF PollInv
    <2>2. CASE /\ ~statusRunning /\ statusDone = 0 /\ statusRunning' = TRUE /\ statusDone' \in Pollers
               /\ poll[statusDone'] = "none" /\ poll' = [poll EXCEPT ![statusDone'] = "wait"]
      <3>1. PICK i \in Pollers : i = statusDone'
        BY <2>2
      <3>2. /\ poll'[i] = "wait" /\ \A j \in Pollers \ {i} : poll'[j] = "none"
            /\ stopCh = {} /\ i # 0
        BY <1>1, <2>2, <3>1 DEF PollInv, Types, Pollers
      <3>3. \A u \in Threads : th'[u].pc # "unpublish" /\ (th'[u].pc = "haltWait" => th'[u].ret = "repoll")
        BY <1>3, <1>a, <1>b, <1>c, <2>2
      <3> QED
        BY <1>c, <2>2, <3>1, <3>2, <3>3 DEF PollInv
    <2> QED
      BY <1>3, <2>1, <2>2
  <1>10. CurrentInv'
    BY <1>1, <1>3, <1>a, <1>c DEF CurrentInv, Active, Halting, Threads
  <1> QED
    BY <1>4, <1>5, <1>6, <1>7, <1>8, <1>9, <1>10 DEF LifeInv

-----------------------------------------------------------------------------
(* The poller's steps: only the poller and what the Hub knows of it change. *)

LEMMA PollerFrame ==
  ASSUME LifeInv, UNCHANGED <<th, locks, stack, liveDP, statusRunning, store>>,
         dpReaders' \subseteq Pollers, stopCh' \subseteq Pollers, statusDone' \in Pollers \cup {0},
         poll' \in [Pollers -> {"none", "wait", "stats", "save", "closed"}], PollInv'
  PROVE  LifeInv'
  <1> USE DEF locks, stack, store
  <1>1. Types' /\ (\A u \in Threads : Frame(th[u]))'
    BY DEF LifeInv, Types, Frame
  <1>2. BootInv' /\ CallerInv' /\ LockInv'
    BY DEF LifeInv, BootInv, CallerInv, LockInv
  <1>3. StackInv' /\ Owed'
    BY DEF LifeInv, StackInv, Owed
  <1>4. CurrentInv'
    BY DEF LifeInv, CurrentInv
  <1> QED
    BY <1>1, <1>2, <1>3, <1>4 DEF LifeInv

\* A poller that a stop waits for never reads through a dataplane that is gone.
LEMMA PollerKeeps ==
  ASSUME LifeInv, NEW i \in Pollers, Poller(i)
  PROVE  LifeInv'
  <1> USE DEF Moves
  <1>1. /\ poll \in [Pollers -> {"none", "wait", "stats", "save", "closed"}]
        /\ dpReaders \subseteq Pollers /\ stopCh \subseteq Pollers /\ statusDone \in Pollers \cup {0}
        /\ PollInv
    BY DEF LifeInv, Types
  <1>2. CASE Tick(i)
    <2>1. PollInv'
      BY <1>1, <1>2 DEF Tick, PollInv
    <2> QED
      BY <1>1, <1>2, <2>1, PollerFrame DEF Tick
  <1>3. CASE GetStats(i)
    <2>1. PollInv'
      BY <1>1, <1>3 DEF GetStats, PollInv
    <2> QED
      BY <1>1, <1>3, <2>1, PollerFrame DEF GetStats
  <1>4. CASE SaveStats(i)
    <2>1. PollInv'
      BY <1>1, <1>4 DEF SaveStats, PollInv
    <2> QED
      BY <1>1, <1>4, <2>1, PollerFrame DEF SaveStats
  <1>5. CASE PollerStops(i)
    <2>1. PollInv'
      BY <1>1, <1>5 DEF PollerStops, PollInv
    <2> QED
      BY <1>1, <1>5, <2>1, PollerFrame DEF PollerStops
  <1>6. CASE PollerExits(i)
    <2>1. PollInv'
      BY <1>1, <1>6 DEF PollerExits, PollInv, Pollers
    <2> QED
      BY <1>1, <1>6, <2>1, PollerFrame DEF PollerExits
  <1> QED
    BY <1>2, <1>3, <1>4, <1>5, <1>6 DEF Poller

-----------------------------------------------------------------------------
LEMMA StutterKeeps ==
  ASSUME LifeInv, UNCHANGED vars
  PROVE  LifeInv'
  <1>1. /\ UNCHANGED <<th, locks, stack, liveDP, statusRunning, store>>
        /\ UNCHANGED <<dpReaders, statusDone, poll, stopCh>>
    BY DEF vars, pollVars
  <1>2. /\ poll \in [Pollers -> {"none", "wait", "stats", "save", "closed"}]
        /\ dpReaders \subseteq Pollers /\ stopCh \subseteq Pollers /\ statusDone \in Pollers \cup {0}
        /\ PollInv
    BY DEF LifeInv, Types
  <1>3. PollInv'
    BY <1>1, <1>2 DEF PollInv
  <1> QED
    BY <1>1, <1>2, <1>3, PollerFrame

\* The invariant of the locks, the stack, the dataplane and the poller, for any
\* number of handlers: who holds which lock at which point of Start, Stop and
\* the service calls (vpn/runtime/stack.go, service/hub.go, service/mutation.go).
THEOREM LifeInvariant == Spec => []LifeInv
  <1>1. LifeInv /\ [Next]_vars => LifeInv'
    <2> SUFFICES ASSUME LifeInv, [Next]_vars PROVE LifeInv'
      OBVIOUS
    <2>1. ASSUME NEW t \in Callers, NEW op \in Ops, Call(t, op) PROVE LifeInv'
      BY <2>1, CallKeeps
    <2>2. ASSUME NEW t \in Threads, Step(t) PROVE LifeInv'
      BY <2>2, EnterKeeps, ReadLiveKeeps, FullSyncKeeps, SetUpstreamKeeps, WipeKeeps, LeaveKeeps,
         StopBeginKeeps, StopLifeKeeps, HaltPollerKeeps, HaltWaitKeeps, UnpublishKeeps, TeardownKeeps,
         StartLockKeeps, BuildKeeps, IngressKeeps, StartLifeKeeps, CheckKeeps, PublishKeeps,
         StartPollerKeeps, PollerWaitKeeps, BuildSpecKeeps, ApplySpecKeeps, EndLifeKeeps
         DEF Step
    <2>3. ASSUME NEW i \in Pollers, Poller(i) PROVE LifeInv'
      BY <2>3, PollerKeeps
    <2>4. CASE UNCHANGED vars
      BY <2>4, StutterKeeps
    <2> QED
      BY <2>1, <2>2, <2>3, <2>4 DEF Next
  <1> QED
    BY <1>1, InitLife, PTL DEF Spec

\* Every variable keeps its type: the locks are held by threads or by nobody, and
\* the running manager is one that was created (vpn/runtime/stack.go).
THEOREM LifeTypes == Spec => []TypeOK
  <1>1. LifeInv => TypeOK
    <2> SUFFICES ASSUME LifeInv PROVE TypeOK
      OBVIOUS
    <2>1. Types
      BY DEF LifeInv
    <2>2. tunnelMgr \in 0 .. issued /\ {db, device, filter} \subseteq 0 .. MaxVersion
      BY <2>1 DEF Types
    <2> QED
      BY <2>1, <2>2, Zenon DEF Types, TypeOK, Records, Points
  <1> QED
    BY <1>1, LifeInvariant, PTL

\* What the service publishes is a stack that runs, and when no call is under way it
\* is the one that runs (service/hub.go:59-74, vpn/runtime/stack.go:117-131).
THEOREM LiveTheorem == Spec => []LiveSound
  <1>1. LifeInv => LiveSound
    <2> SUFFICES ASSUME LifeInv PROVE LiveSound
      OBVIOUS
    <2>1. LiveMeansRunning
      BY DEF LifeInv, StackInv, LiveMeansRunning
    <2>2. ASSUME Quiet, tunnelMgr # 0, ~liveDP PROVE FALSE
      <3>1. ~stopping
        BY <2>2 DEF LifeInv, StackInv, Quiet, Threads, Tearing, Halting
      <3> QED
        BY <2>2, <3>1 DEF LifeInv, Owed, Quiet
    <2>3. liveDP \in BOOLEAN
      BY DEF LifeInv, Types
    <2> QED
      BY <2>1, <2>2, <2>3 DEF LiveSound, LiveMeansRunning, QuietLive
  <1> QED
    BY <1>1, LifeInvariant, PTL

\* One status poller at a time, and none that reads from a stack whose OnStopped has
\* returned (service/hub.go:69-74, 128-150).
THEOREM PollerTheorem == Spec => []PollerSound
  <1>1. LifeInv => PollerSound
    <2> SUFFICES ASSUME LifeInv PROVE PollerSound
      OBVIOUS
    <2> DEFINE A == {i \in Pollers : poll[i] \in {"wait", "stats", "save"}}
    <2>1. A \subseteq {statusDone}
      BY DEF LifeInv, PollInv
    <2>2. IsFiniteSet({statusDone}) /\ Cardinality({statusDone}) = 1
      BY FS_Singleton
    <2>3. Cardinality(A) <= 1
      BY <2>1, <2>2, FS_Subset
    <2>4. NoStatsAfterStop
      BY DEF LifeInv, PollInv, NoStatsAfterStop
    <2> QED
      BY <2>3, <2>4 DEF PollerSound, OnePoller
  <1> QED
    BY <1>1, LifeInvariant, PTL

\* What boot's start leaves behind is gone after the next write: the device and the
\* filter are at the stored version (service/access.go:76-86, service/mutation.go:60-104).
THEOREM DriftTheorem == Spec => []BootDriftEnds
  <1>1. LifeInv => BootDriftEnds
    <2> SUFFICES ASSUME LifeInv, Quiet, tunnelMgr # 0, db > th[Boot].bundle
                 PROVE  device = db /\ filter = db
      BY DEF BootDriftEnds
    <2>1. ~stopping
      BY DEF LifeInv, StackInv, Quiet, Threads, Tearing, Halting
    <2> QED
      BY <2>1 DEF LifeInv, CurrentInv, Quiet, Threads
  <1> QED
    BY <1>1, LifeInvariant, PTL
=============================================================================
