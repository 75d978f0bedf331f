-------------------------- MODULE MCHostnameClaims --------------------------
(***************************************************************************)
(* A small instance of HostnameClaims for TLC.                             *)
(***************************************************************************)
EXTENDS HostnameClaims

CONSTANTS a, b, c
=============================================================================
