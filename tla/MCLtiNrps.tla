------------------------------ MODULE MCLtiNrps ------------------------------
(* A small instance of LtiNrps for TLC. *)
EXTENDS LtiNrps

\* in the order of their ids
FourUsers == 1..4
=============================================================================
