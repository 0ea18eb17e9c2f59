---------------------------- MODULE MCLtiLaunch ----------------------------
(* Small instances of LtiLaunch for TLC. *)
EXTENDS LtiLaunch, TLC

\* nothing, one launch, two launches
One == {[n |-> 1, link |-> TRUE]}
Choices == {{}, One, One \cup {[n |-> 2, link |-> TRUE]}}

Symmetry == Permutations(Flows)
=============================================================================
