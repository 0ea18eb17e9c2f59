---- MODULE MCLtiVersions ----
(* Two flows over one block setting of each kind; the external configuration   *)
(* takes every version, so that it agrees with the block's own or does not.    *)
EXTENDS LtiVersions

SomeBlocks == {[type |-> "new", version |-> "lti_1p3", ext |-> e] : e \in Ids}
              \cup {[type |-> "database", version |-> "lti_1p1", ext |-> e] : e \in Ids}
              \cup {[type |-> "external", version |-> "lti_1p3", ext |-> e] : e \in Ids}
====
