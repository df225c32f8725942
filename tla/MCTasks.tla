------------------------------ MODULE MCTasks ------------------------------
(* Instances of Tasks for TLC.                                              *)
EXTENDS Tasks, TLC

\* Workers, submitters and the ids given out are interchangeable.
Symmetry == Permutations(Workers) \cup Permutations(Submitters)
              \cup Permutations(ConfIds) \cup Permutations(ApprIds)
=============================================================================
