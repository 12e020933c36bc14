------------------------------ MODULE MCNotif ------------------------------
(***************************************************************************)
(* An instance of Notif for TLC.                                           *)
(***************************************************************************)
EXTENDS Notif
=============================================================================
