---------------------------- MODULE MCLtiTokens ----------------------------
(* A small instance of LtiTokens for TLC. *)
EXTENDS LtiTokens

\* a service whose scope is granted, and an action without scopes
SomeEndpoints == {{"lineitem"}, {}}
=============================================================================
