-------------------------- MODULE MCLtiPassports --------------------------
(* Small instances of LtiPassports for TLC. *)
EXTENDS LtiPassports, TLC

\* A new block has no key; then a public key, or a keyset URL.
Settings2 == {[mode |-> "public_key", pub |-> "k1", url |-> ""],
              [mode |-> "keyset_url", pub |-> "k1", url |-> "u1"]}
Texts2 == {"", "k1", "u1"}

NoMain == [c \in {} |-> "a"]
NoEnds == [l \in Main |-> {}]
BothStores == {ON_XBLOCK, "CONFIG_ON_DB"}
XBlockStore == {ON_XBLOCK}

\* a and b are copies of one block, x is unrelated
PairFamily == [l \in {"a", "b", "x"} |-> IF l = "x" THEN "x" ELSE "a"]
\* c is a custom course of a's course; x is a block of another course
CcxMain == [c \in {"c"} |-> "a"]
CcxEnds == [l \in Main |-> IF l = "a" THEN {"c"} ELSE {}]
CcxFamily == [l \in {"a", "b", "c", "x"} |-> IF l = "x" THEN "x" ELSE "a"]
\* ... or x is a's block in a re-run of the course, under the same block id
RerunEnds == [l \in Main |-> {"c"}]
RerunFamily == [l \in {"a", "c", "x"} |-> "a"]

Symmetry == Permutations(Workers)
============================================================================
