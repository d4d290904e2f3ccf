--------------------------- MODULE MCConnectionEnd ---------------------------
(***************************************************************************)
(* The connection end with its client, NIE, mbedtls and the peer.  Every   *)
(* configuration of this module is a different use of it: SSL from the     *)
(* start, an upgrade, and the environments in which it goes wrong.         *)
(***************************************************************************)
EXTENDS ConnectionEnd
=============================================================================
