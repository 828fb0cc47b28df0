--------------------------- MODULE MCLocalExecutor ---------------------------
(* LocalExecutor for TLC: tasks 1 and 2 share the file a; b is named by    *)
(* task 1 alone.                                                           *)
EXTENDS LocalExecutor, TLC

CONSTANTS a, b

MCInputs == 1 :> <<a, b>> @@ 2 :> <<a>> @@ 3 :> <<>>
SharedInputs == [t \in Tasks |-> MCInputs[t]]

=============================================================================
