----------------------------- MODULE HubPromise -----------------------------
(***************************************************************************)
(* What the hub promises about its data plane, whatever the control plane  *)
(* does to keep it: between calls it enforces what the store asks for, or  *)
(* nothing at all; a call that reports a runtime failure leaves nothing    *)
(* running; and nothing changes what is enforced but a call, a reset or    *)
(* the end of the process.                                                 *)
(***************************************************************************)
CONSTANTS Failed    \* answers that report a runtime failure

VARIABLES
    want,       \* what the store asks for
    served,     \* {what is enforced}, or {} when the hub is stopped or a call is under way
    busy,       \* a call, or the boot, is applying the store
    lag,        \* the store was written by a request that applies nothing
    answer      \* of the last call

promiseVars == <<want, served, busy, lag, answer>>

\* A write that no call goes on to apply is known as such.
NotedWrite == want' # want => lag'

Init == served = {} /\ ~busy /\ ~lag /\ answer \notin Failed

\* A call commits and starts to apply the store.
Begin == ~busy /\ busy' /\ served' = {} /\ answer' = answer /\ lag' = lag

Apply == busy /\ busy' /\ served' = {} /\ answer' = answer /\ NotedWrite

\* It answers: all of what the store asks for is enforced, or nothing.
Finish ==
    /\ busy /\ ~busy' /\ want' = want
    /\ served' # {} /\ ~lag' => served' = {want}
    /\ answer' \in Failed => served' = {}

\* A request that applies nothing.
Return ==
    /\ ~busy /\ ~busy' /\ served' = served
    /\ NotedWrite /\ (lag => lag')
    /\ answer' \in Failed => answer' = answer

Reset == ~busy /\ ~busy' /\ served' = {} /\ answer' \notin Failed

Crash == served' = {} /\ want' = want /\ answer' \notin Failed

Next == Begin \/ Apply \/ Finish \/ Return \/ Reset \/ Crash

Spec == Init /\ [][Next]_promiseVars
=============================================================================
