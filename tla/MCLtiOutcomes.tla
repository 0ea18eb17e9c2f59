---------------------------- MODULE MCLtiOutcomes ----------------------------
(* A small instance of LtiOutcomes for TLC. *)
EXTENDS LtiOutcomes, TLC

Setup(weight, late, due) ==
    [secret |-> "s1", weight |-> weight, late |-> late, due |-> due]
\* of two points; closing, of one point; the same, later; without a score
SomeSettings ==
    {Setup(2, TRUE, 0), Setup(1, FALSE, 0), Setup(1, FALSE, 1), Setup(None, TRUE, 0)}

Send(op, score, comment, secret) ==
    [op |-> op, fine |-> TRUE, score |-> score, comment |-> comment, secret |-> secret]
\* each operation, with and without a score and a comment, one ill signed, one ill formed
SomePosts ==
    {Send("replaceResult", 1, "", "s1"), Send("replaceResult", None, "", "s1"),
     Send("readResult", 1, "", "s1"), Send("PUT", 1, "c", "s1"), Send("PUT", None, "c", "s1"),
     Send("GET", None, "", "s1"), Send("DELETE", None, "", "s1"),
     Send("DELETE", None, "", "s2"), [Send("PUT", None, "", "s1") EXCEPT !.fine = FALSE]}

Symmetry == Permutations(Users) \cup Permutations(Workers)
=============================================================================
