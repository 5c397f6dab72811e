----------------------------- MODULE MCTaskLife -----------------------------
(***************************************************************************)
(* TaskLife for TLC.  The kernel is built for one CPU or for two: cpus     *)
(* says for how many, and is chosen once.  The two builds are instances of *)
(* the same module over the same variables.                                *)
(***************************************************************************)
EXTENDS TLC, FiniteSets

CONSTANTS MainTask, GcTask, None, UserTask, idle0, idle1, TheQueue

VARIABLES rq, task_nub, tid2task, exited, pc, made, n, popped, freed, halted, cpus

vars == << rq, task_nub, tid2task, exited, pc, made, n, popped, freed, halted, cpus >>

One == INSTANCE TaskLife WITH
         SMP <- 1, WQ <- {TheQueue}, IdleTask <- (0 :> idle0),
         Task <- UserTask \cup {MainTask, GcTask, idle0}

Two == INSTANCE TaskLife WITH
         SMP <- 2, WQ <- {TheQueue}, IdleTask <- (0 :> idle0 @@ 1 :> idle1),
         Task <- UserTask \cup {MainTask, GcTask, idle0, idle1}

ASSUME BuildsAssumption == One!LifeAssumption /\ Two!LifeAssumption

Init ==
  \/ cpus = 1 /\ One!Init
  \/ cpus = 2 /\ Two!Init

Next ==
  /\ UNCHANGED cpus
  /\ \/ cpus = 1 /\ One!Next
     \/ cpus = 2 /\ Two!Next

Spec == Init /\ [][Next]_vars

(* The properties of TaskLife, each for the builds it is claimed of.       *)

(* Types, and a task count that is exact.                                  *)
TypeOK == (cpus = 1 => One!TypeOK) /\ (cpus = 2 => Two!TypeOK)

(* On one CPU the system halts only when all user tasks are done.          *)
HaltOnlyWhenDone == cpus = 1 => One!HaltOnlyWhenDone

(* On one CPU gc does not sleep over exited tasks.                         *)
Collected == cpus = 1 => One!Collected

(* gc never drops a task that somebody can reach.                          *)
FreedSafe == (cpus = 1 => One!FreedSafe) /\ (cpus = 2 => Two!FreedSafe)

(* No exited task is forgotten or dropped twice.                           *)
ExitedOnce == (cpus = 1 => One!ExitedOnce) /\ (cpus = 2 => Two!ExitedOnce)
=============================================================================
