----------------------------- MODULE MCScheduler -----------------------------
(* Scheduler for TLC, with so few slots that two tasks fill one worker, or *)
(* compete for it.                                                         *)
EXTENDS Scheduler

CONSTANTS k1, k2

OneSlot == [k \in Keys |-> 1]
TwoSlots == [k \in Keys |-> 2]

=============================================================================
