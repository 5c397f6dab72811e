------------------------------ MODULE MCMutex ------------------------------
(* Mutex for TLC: model values for the tasks, one idle task per CPU.       *)
EXTENDS Mutex, TLC

CONSTANTS idle0, idle1

MCIdleTask == IF SMP = 1 THEN (0 :> idle0) ELSE (0 :> idle0 @@ 1 :> idle1)
=============================================================================
