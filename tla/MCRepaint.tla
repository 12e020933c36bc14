----------------------------- MODULE MCRepaint -----------------------------
(***************************************************************************)
(* Instances of Repaint for TLC.                                           *)
(***************************************************************************)
EXTENDS Repaint

\* A window that moves is also resized.
Resizing == {<<1, 1>>, <<2, 2>>}
=============================================================================
