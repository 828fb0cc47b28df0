------------------------------ MODULE SlotPool ------------------------------
(***************************************************************************)
(* What a worker promises its scheduler: a pool of MaxConc slots.  A task  *)
(* owns a slot from the moment it is admitted until its processing is      *)
(* over, and no more than MaxConc tasks own one at a time.  Everything a   *)
(* Worker does with its channel, its semaphore and its counters is hidden. *)
(***************************************************************************)
EXTENDS FiniteSets, Naturals

CONSTANTS Tasks,    \* the tasks that may be admitted
          MaxConc   \* the number of slots, max_concurrency of the API key

VARIABLE owned      \* the tasks that own a slot

TypeOK == owned \subseteq Tasks

Init == owned = {}

Admit(t) ==
  /\ t \notin owned
  /\ Cardinality(owned) < MaxConc
  /\ owned' = owned \cup {t}

Finish(t) ==
  /\ t \in owned
  /\ owned' = owned \ {t}

Next == \E t \in Tasks : Admit(t) \/ Finish(t)

Spec == Init /\ [][Next]_owned

=============================================================================
