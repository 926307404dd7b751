------------------------- MODULE ControlPlaneProofs -------------------------
(***************************************************************************)
(* Proofs about ControlPlane, for every value of its constants.            *)
(***************************************************************************)
EXTENDS ControlPlane, TLAPS

\* The fields that the steps update and read.
Shape == /\ "up" \in DOMAIN rt
         /\ live \in BOOLEAN
         /\ DOMAIN ctl = {"pc", "op", "mode", "groups"}

\* What holds of the stack and of the published dataplane at each point of a call;
\* between calls it is LiveMatchesStack.
Phase ==
    /\ ctl.pc \in {"idle", "load", "stop", "tail"} => live = rt.up
    /\ ctl.pc = "load" /\ ctl.op \in {"setup", "boot"} => ~rt.up /\ ctl.mode # "sync"
    /\ ctl.pc \in {"dns", "wg", "ports", "vips", "maps", "policy"} /\ ctl.mode = "sync"
            => rt.up = TRUE /\ live
    /\ ctl.pc \in {"wg", "serve", "ports", "vips", "maps", "policy", "started"} /\ ctl.mode # "sync"
            => rt.up = TRUE /\ ~live
    /\ ctl.pc \in {"new", "failed"} => ~live
    /\ ctl.pc \in {"stop", "new", "failed", "serve", "started"} => ctl.mode # "sync"
    /\ ctl.pc = "dns" => ctl.mode = "sync"

\* An unconfigured hub runs no stack, so setup may start one without stopping any.
NoStackUnconfigured ==
    ~Configured => rt.up = FALSE /\ ctl.pc \in {"idle", "load"}

LifecycleInv == Shape /\ Phase /\ NoStackUnconfigured

\* Calls on peers, groups, maps and forwards commit and go on to reconcile, or
\* return at once; the settings row is none of their business.
LEMMA CallShape ==
    ASSUME PeerCalls \/ GroupCalls \/ MapCalls \/ ForwardCalls \/ DeleteAbsent
    PROVE  /\ settings' = settings
           /\ \/ Commit("mutate", "sync")
              \/ \E r \in {"ok", "error"}, b \in BOOLEAN : Return(r, b)
<1>1. CASE PeerCalls
    BY <1>1 DEF PeerCalls, CreatePeer, RenamePeer, MovePeer, DeletePeer, TogglePeer
<1>2. CASE GroupCalls
    BY <1>2 DEF GroupCalls, CreateGroup, RenameGroup, UpdateGroup, DeleteGroup, UpsertGroupLink,
        DeleteGroupLink
<1>3. CASE MapCalls \/ ForwardCalls
    BY <1>3 DEF MapCalls, ForwardCalls, CreateServiceMap, UpdateServiceMap, DeleteServiceMap,
        CreatePortForward, UpdatePortForward, DeletePortForward
<1>4. CASE DeleteAbsent
    BY <1>4 DEF DeleteAbsent, storeVars, tables
<1> QED
    BY <1>1, <1>2, <1>3, <1>4

\* A stopped stack is not up.
LEMMA DownFacts == "up" \in DOMAIN Down /\ Down.up = FALSE
BY DEF Down

\* A control thread without a call is idle.
LEMMA IdleFacts == Idle.pc = "idle" /\ DOMAIN Idle = {"pc", "op", "mode", "groups"}
BY DEF Idle

\* A new process has nothing running.
LEMMA LifecycleInit == CPInit => LifecycleInv
BY DownFacts, IdleFacts DEF CPInit, LifecycleInv, Shape, Phase, NoStackUnconfigured, Configured, Init

\* One case per step of the control plane; the phases tell which steps have the stack up.
LEMMA LifecycleNext == LifecycleInv /\ [CPNext]_vars => LifecycleInv'
<1> SUFFICES ASSUME LifecycleInv, [CPNext]_vars PROVE LifecycleInv'
    OBVIOUS
<1> USE DEF LifecycleInv
<1>1. CASE PeerCalls \/ GroupCalls \/ MapCalls \/ ForwardCalls \/ DeleteAbsent
    <2>1. settings' = settings /\ rt' = rt /\ live' = live /\ ctl.pc = "idle"
        BY <1>1, CallShape DEF Commit, Return, rtVars
    <2>2. \/ ctl' = [Idle EXCEPT !.pc = "load", !.op = "mutate", !.mode = "sync"]
          \/ ctl' = ctl
        BY <1>1, CallShape DEF Commit, Return
    <2> QED
        BY <2>1, <2>2 DEF Shape, Phase, NoStackUnconfigured, Configured, Idle
<1>2. CASE SetupCall \/ SettingsCall
    <2>1. ASSUME NEW c \in Settings, Setup(c), Commit("setup", "start") PROVE LifecycleInv'
        BY <2>1, IdleFacts DEF Setup, Commit, rtVars, Shape, Phase, NoStackUnconfigured, Configured
    <2>2. ASSUME NEW c \in Settings, NEW mode, UpdateMutableSettings(c), Commit("settings", mode)
          PROVE  LifecycleInv'
        <3>1. Configured'
            BY <2>2, StoreAssumption DEF UpdateMutableSettings, Configured, Settings
        <3> QED
            BY <2>2, <3>1, IdleFacts DEF Commit, rtVars, Shape, Phase, NoStackUnconfigured
    <2>3. ASSUME NEW u \in Uploads, ImportDatabase(u), Commit("setup", "start") PROVE LifecycleInv'
        <3>1. Configured'
            BY <2>3, StoreAssumption, UploadAssumption DEF ImportDatabase, Database, Configured, Settings
        <3> QED
            BY <2>3, <3>1, IdleFacts DEF ImportDatabase, Commit, rtVars, Shape, Phase, NoStackUnconfigured
    <2> QED
        BY <1>2, <2>1, <2>2, <2>3 DEF SetupCall, SettingsCall
<1>3. CASE Reset
    BY <1>3, DownFacts DEF Reset, StackStop, ResetAll, storeVars, tables, Shape, Phase,
        NoStackUnconfigured, Configured
<1>4. CASE Layout
    BY <1>4 DEF Layout, LayoutRead, LayoutSave, tables, rtVars, Shape, Phase,
        NoStackUnconfigured, Configured
<1>5. CASE LoadBundle
    BY <1>5, IdleFacts DEF LoadBundle, Applied, Goto, Finish, storeVars, tables, rtVars,
        Shape, Phase, NoStackUnconfigured, Configured
<1>6. CASE LoadFails
    BY <1>6, DownFacts, IdleFacts DEF LoadFails, Finish, storeVars, tables, Shape, Phase,
        NoStackUnconfigured, Configured
<1>7. CASE StopForRestart
    BY <1>7, DownFacts DEF StopForRestart, Goto, storeVars, tables, Shape, Phase,
        NoStackUnconfigured, Configured
<1>8. CASE StartDevice
    BY <1>8, DownFacts DEF StartDevice, StepFails, Goto, storeVars, tables, Shape, Phase,
        NoStackUnconfigured, Configured
<1>9. CASE SyncDNS
    BY <1>9 DEF SyncDNS, Goto, storeVars, tables, Shape, Phase, NoStackUnconfigured,
        Configured
<1>10. CASE SyncAll
    BY <1>10 DEF SyncAll, SyncedDevice, StepFails, Goto, storeVars, tables, Shape, Phase,
        NoStackUnconfigured, Configured
<1>11. CASE StartServices
    BY <1>11 DEF StartServices, StepFails, Goto, storeVars, tables, Shape, Phase,
        NoStackUnconfigured, Configured
<1>12. CASE ApplyForwards
    BY <1>12 DEF ApplyForwards, StepFails, Goto, storeVars, tables, Shape, Phase,
        NoStackUnconfigured, Configured
<1>13. CASE ApplyMapVIPs
    BY <1>13 DEF ApplyMapVIPs, StepFails, Goto, storeVars, tables, Shape, Phase,
        NoStackUnconfigured, Configured
<1>14. CASE ApplyMaps
    BY <1>14 DEF ApplyMaps, StepFails, Goto, storeVars, tables, Shape, Phase,
        NoStackUnconfigured, Configured
<1>15. CASE ApplyPolicy
    BY <1>15, IdleFacts DEF ApplyPolicy, Applied, Goto, Finish, storeVars, tables, Shape,
        Phase, NoStackUnconfigured, Configured
<1>16. CASE OnStarted
    BY <1>16, IdleFacts DEF OnStarted, Applied, Goto, Finish, storeVars, tables, Shape,
        Phase, NoStackUnconfigured, Configured
<1>17. CASE StartFailed
    BY <1>17, DownFacts, IdleFacts DEF StartFailed, Finish, storeVars, tables, Shape, Phase,
        NoStackUnconfigured, Configured
<1>18. CASE SettingsTail
    BY <1>18, IdleFacts DEF SettingsTail, Finish, storeVars, tables, Shape, Phase,
        NoStackUnconfigured, Configured
<1>19. CASE Crash
    BY <1>19, DownFacts, IdleFacts DEF Crash, LayoutsLost, tables, Shape, Phase, NoStackUnconfigured,
        Configured
<1>20. CASE UNCHANGED vars
    BY <1>20 DEF vars, storeVars, tables, rtVars, Shape, Phase, NoStackUnconfigured,
        Configured
<1> QED
    BY <1>1, <1>2, <1>3, <1>4, <1>5, <1>6, <1>7, <1>8, <1>9, <1>10, <1>11, <1>12, <1>13, <1>14,
       <1>15, <1>16, <1>17, <1>18, <1>19, <1>20 DEF CPNext, Calls, Reconcile

\* Between calls the service publishes a dataplane exactly while the stack runs,
\* whichever steps of the calls before failed (service/hub.go:59-74).
THEOREM LivePublishedExactlyWhileUp == CPSpec => []LiveMatchesStack
<1>1. LifecycleInv => LiveMatchesStack
    BY DEF LifecycleInv, Phase, LiveMatchesStack
<1> QED
    BY <1>1, LifecycleInit, LifecycleNext, PTL DEF CPSpec

\* A step that ends a call with a failure has stopped the runtime; no other step
\* leaves a failure as the last result and starts something.
LEMMA FailureNext == FailureMeansStopped /\ LifecycleInv /\ [CPNext]_vars => FailureMeansStopped'
<1> SUFFICES ASSUME FailureMeansStopped, LifecycleInv, [CPNext]_vars PROVE FailureMeansStopped'
    OBVIOUS
<1>0. DOMAIN ctl = {"pc", "op", "mode", "groups"}
    BY DEF LifecycleInv, Shape
<1>1. CASE PeerCalls \/ GroupCalls \/ MapCalls \/ ForwardCalls \/ DeleteAbsent
    BY <1>1, CallShape, IdleFacts DEF Commit, Return, rtVars, FailureMeansStopped
<1>2. CASE SetupCall \/ SettingsCall
    BY <1>2, IdleFacts DEF SetupCall, SettingsCall, Commit, FailureMeansStopped
<1>3. CASE Reset
    BY <1>3 DEF Reset, FailureMeansStopped
<1>4. CASE Layout
    BY <1>4 DEF Layout, rtVars, FailureMeansStopped
<1>5. CASE LoadBundle
    BY <1>0, <1>5, IdleFacts DEF LoadBundle, Applied, Goto, Finish, FailureMeansStopped
<1>6. CASE LoadFails
    BY <1>6, DownFacts DEF LoadFails, Finish, FailureMeansStopped
<1>7. CASE StopForRestart \/ SyncDNS
    BY <1>0, <1>7 DEF StopForRestart, SyncDNS, Goto, FailureMeansStopped
<1>8. CASE StartDevice \/ SyncAll \/ StartServices
    BY <1>0, <1>8 DEF StartDevice, SyncAll, StartServices, StepFails, Goto, FailureMeansStopped
<1>9. CASE ApplyForwards \/ ApplyMapVIPs \/ ApplyMaps
    BY <1>0, <1>9 DEF ApplyForwards, ApplyMapVIPs, ApplyMaps, StepFails, Goto, FailureMeansStopped
<1>10. CASE ApplyPolicy
    BY <1>0, <1>10 DEF ApplyPolicy, Applied, Goto, Finish, FailureMeansStopped
<1>11. CASE OnStarted
    BY <1>0, <1>11 DEF OnStarted, Applied, Goto, Finish, FailureMeansStopped
<1>12. CASE StartFailed
    BY <1>12, DownFacts DEF StartFailed, Finish, FailureMeansStopped
<1>13. CASE SettingsTail
    BY <1>13 DEF SettingsTail, Finish, FailureMeansStopped
<1>14. CASE Crash
    BY <1>14 DEF Crash, FailureMeansStopped
<1>15. CASE UNCHANGED vars
    BY <1>15 DEF vars, rtVars, FailureMeansStopped
<1> QED
    BY <1>1, <1>2, <1>3, <1>4, <1>5, <1>6, <1>7, <1>8, <1>9, <1>10, <1>11, <1>12, <1>13, <1>14,
       <1>15 DEF CPNext, Calls, Reconcile

\* A call that reports a runtime failure has left no device, no published dataplane
\* and no poller behind (service/mutation.go:17-19, 46-48).
THEOREM FailureLeavesStopped == CPSpec => []FailureMeansStopped
<1>1. CPInit => FailureMeansStopped
    BY DEF CPInit, FailureMeansStopped
<1> QED
    BY <1>1, LifecycleInit, LifecycleNext, FailureNext, PTL DEF CPSpec

-----------------------------------------------------------------------------
\* Every step of the control plane is one operation of the store, or leaves the
\* store alone.
LEMMA StoreStep == [CPNext]_vars => [Next]_storeVars
<1> SUFFICES ASSUME [CPNext]_vars PROVE [Next]_storeVars
    OBVIOUS
<1>1. CASE PeerCalls
    BY <1>1 DEF PeerCalls, Next
<1>2. CASE GroupCalls
    BY <1>2 DEF GroupCalls, Next
<1>3. CASE MapCalls \/ ForwardCalls
    BY <1>3 DEF MapCalls, ForwardCalls, Next
<1>4. CASE SetupCall \/ SettingsCall
    BY <1>4 DEF SetupCall, SettingsCall, Next
<1>5. CASE Layout
    BY <1>5 DEF Layout, Next
<1>6. CASE Reset
    BY <1>6 DEF Reset, Next
<1>7. CASE Crash
    BY <1>7 DEF Crash, Next
<1>8. CASE DeleteAbsent
    BY <1>8 DEF DeleteAbsent
<1>9. CASE Reconcile
    BY <1>9 DEF Reconcile, LoadBundle, LoadFails, StopForRestart, StartDevice, SyncDNS, SyncAll,
        StartServices, ApplyForwards, ApplyMapVIPs, ApplyMaps, ApplyPolicy, OnStarted,
        StartFailed, SettingsTail
<1>10. CASE UNCHANGED vars
    BY <1>10 DEF vars
<1> QED
    BY <1>1, <1>2, <1>3, <1>4, <1>5, <1>6, <1>7, <1>8, <1>9, <1>10 DEF CPNext, Calls
=============================================================================
