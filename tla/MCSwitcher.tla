---------------------------- MODULE MCSwitcher ----------------------------
(***************************************************************************)
(* Instances of Switcher for TLC.                                          *)
(***************************************************************************)
EXTENDS Switcher
=============================================================================
