------------------------------- MODULE MCSni -------------------------------
(***************************************************************************)
(* An instance of Sni for TLC.                                             *)
(***************************************************************************)
EXTENDS Sni
=============================================================================
