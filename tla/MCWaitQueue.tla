---------------------------- MODULE MCWaitQueue ----------------------------
(* WaitQueue for TLC: model values for the tasks, one idle task per CPU,   *)
(* and the operations that the tasks call.                                 *)
EXTENDS WaitQueue, TLC

CONSTANTS idle0, idle1

MCIdleTask == IF SMP = 1 THEN (0 :> idle0) ELSE (0 :> idle0 @@ 1 :> idle1)

(* One CPU: one task wakes and waits with a timeout, one waits in every    *)
(* way, and the others sleep.                                              *)
LiveOps ==
  MainTask :> {"spawn", "yield", "wait_timeout_until", "notify_one", "notify_task", "notify_all"}
  @@ GcTask :> {"yield", "wait", "wait_until", "wait_timeout", "wait_timeout_until", "notify_one"}
  @@ [t \in Task |-> {"yield", "sleep", "wait_until", "notify_all"}]

(* Two CPUs: of the timed waits the one that loops.                        *)
PairOps ==
  [t \in Task |-> {"yield", "sleep", "wait_until", "wait_timeout_until", "notify_all", "notify_task"}]

TimeoutOps == [t \in Task |-> {"yield", "wait_timeout"}]

LostOps == [t \in Task |-> {"yield"}]
=============================================================================
