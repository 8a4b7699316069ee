---------------------------- MODULE MCSyncCycles ----------------------------
(***************************************************************************)
(* Small instances of SyncCycles for TLC: how often each kind of           *)
(* environment step may happen in a run.                                   *)
(***************************************************************************)
EXTENDS SyncCycles, TLC

Budget(b) == {b @@ [k \in Kinds |-> 0]}

\* changes with an overflow, a fault, a cancel and a crash, no manual request
SchedulerBound ==
    Budget([change |-> 2, overflow |-> 1, fault |-> 1, cancel |-> 1, crash |-> 1])
\* a manual request racing the scheduler, with changes or with a fault; or a
\* destination switched off and on between two changes
UserBound ==
    Budget([change |-> 2, request |-> 1]) \union
    Budget([fault |-> 1, request |-> 1]) \union
    Budget([change |-> 2, switch |-> 2])
\* undisturbed service of a fanotify host
ServiceBound == Budget([change |-> 2, overflow |-> 1])
\* a USN host whose destination is moved, paused and resumed, with a fault
\* and a restart
UsnBound == Budget([change |-> 1, fault |-> 1, crash |-> 1, move |-> 1, pause |-> 2])

\* the least each counterexample needs
RequestRaceBound  == Budget([change |-> 1, request |-> 1])
OfflineBound      == Budget([change |-> 2, fault |-> 1])
ChangesBound      == Budget([change |-> 2])
DisableBound      == Budget([fault |-> 1, switch |-> 2])
MoveBound         == Budget([move |-> 1])
CancelBound       == Budget([change |-> 1, cancel |-> 1])

=============================================================================
