----------------------------- MODULE MCUiHelper -----------------------------
(***************************************************************************)
(* An instance of UiHelper for TLC.                                        *)
(***************************************************************************)
EXTENDS UiHelper
=============================================================================
