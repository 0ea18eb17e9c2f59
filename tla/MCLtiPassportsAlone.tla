------------------------ MODULE MCLtiPassportsAlone ------------------------
(* The instances of MCLtiPassports, with requests watched for running alone. *)
EXTENDS MCLtiPassports, LtiPassportsAlone
============================================================================
