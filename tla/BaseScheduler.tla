--------------------------- MODULE BaseScheduler ---------------------------
(***************************************************************************)
(* What the trait BaseScheduler (crates/scheduler/src/lib.rs) promises the *)
(* run queue: "all tasks in the scheduler are considered runnable", and a  *)
(* task handed in stays there until it is picked or removed.  Which task   *)
(* is picked is left open.                                                 *)
(***************************************************************************)
CONSTANTS Task, Idle

VARIABLES
  runnable,   \* the tasks that have come and not gone, the current one too
  current     \* the task that was picked last, or the idle task

Init == runnable = {} /\ current = Idle

(* A task becomes runnable. *)
AddTask == \E t \in Task \ runnable :
  runnable' = runnable \cup {t} /\ UNCHANGED current

(* A runnable task that does not run is taken out by its reference. *)
RemoveTask == \E t \in runnable \ {current} :
  runnable' = runnable \ {t} /\ UNCHANGED current

(* The current task is put back or has gone, and some runnable task is     *)
(* picked; the idle task runs only if there is none.                       *)
PickNext ==
  /\ runnable' \in {runnable, runnable \ {current}}
  /\ current' \in (IF runnable' = {} THEN {Idle} ELSE runnable')

Next == AddTask \/ RemoveTask \/ PickNext

Spec == Init /\ [][Next]_<<runnable, current>>
=============================================================================
