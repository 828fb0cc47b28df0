------------------------------ MODULE MCWorker ------------------------------
(* Worker for TLC: four deliveries and two slots, so that the orphans can  *)
(* outnumber the slots and the channel can be full while tasks run.        *)
EXTENDS Worker

CONSTANTS t1, t2, t3, t4

MCTasks == {t1, t2, t3, t4}

=============================================================================
