------------------------------ MODULE MCBypass ------------------------------
(***************************************************************************)
(* The instance of Bypass for TLC: two windows on two monitors, both of     *)
(* which become fullscreen, are minimised, shown elsewhere and closed.      *)
(***************************************************************************)
EXTENDS Bypass
=============================================================================
