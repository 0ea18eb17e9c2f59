------------------------------ MODULE MCLtiAgs ------------------------------
(* Small instances of LtiAgs for TLC. *)
EXTENDS LtiAgs, TLC

TwoLocations == [t \in {"s", "t"} |-> IF t = "s" THEN "a" ELSE "b"]
OneLocation == [t \in {"s"} |-> "a"]
Declarative == [t \in {"s"} |-> "declarative"]
BothModes == [t \in {"s", "t"} |-> IF t = "s" THEN "programmatic" ELSE "declarative"]

Score(ts, given, max, progress) ==
    [ts |-> ts, given |-> given, max |-> max, progress |-> progress]
\* whole, partial, none of the points, and not final
FinalReports ==
    {Score(ts, g, 2, "FullyGraded") : ts \in 1..MaxTime, g \in {0, 1, 2}}
        \cup {Score(ts, 1, 2, "Pending") : ts \in 1..MaxTime}
\* above the maximum; without a maximum, of zero, and valid
EdgeReports ==
    {Score(ts, 2, 1, "FullyGraded") : ts \in 1..MaxTime}
        \cup {Score(ts, 1, m, "FullyGraded") : ts \in 1..MaxTime, m \in {None, 0, 2}}

Symmetry == Permutations(Workers)
=============================================================================
