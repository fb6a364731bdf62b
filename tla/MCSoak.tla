------------------------------- MODULE MCSoak --------------------------------
(***************************************************************************)
(* Soak for TLC: two addresses, one of which has a call probe.             *)
(***************************************************************************)
EXTENDS Soak

CONSTANTS a, b

MCAddresses == <<a, b>>
=============================================================================
