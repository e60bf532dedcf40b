--------------------------- MODULE MCTargetStats ---------------------------
(* Small instances of TargetStats.                                         *)
EXTENDS TargetStats

TwoPids == {1, 2}
OneClient == {1}
(* One stream with two applications after one another, or two streams with *)
(* processes of others.                                                    *)
TwoBudgets == {[streams |-> 1, apps |-> 2, others |-> 0, faults |-> 1],
               [streams |-> 2, apps |-> 0, others |-> 2, faults |-> 2]}
=============================================================================
