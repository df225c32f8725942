-------------------------- MODULE MCConversations --------------------------
(* Instances of Conversations for TLC.                                      *)
EXTENDS Conversations, TLC

\* Events of a kind are interchangeable until one of them is added.
Symmetry == Permutations(Questions) \cup Permutations(Results)
=============================================================================
