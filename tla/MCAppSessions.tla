--------------------------- MODULE MCAppSessions ---------------------------
(* Instances of AppSessions for TLC.                                         *)
EXTENDS AppSessions, TLC

\* Phones, codes and session ids are interchangeable.
Symmetry == Permutations(Phones) \cup Permutations(Codes) \cup Permutations(Sessions)
=============================================================================
