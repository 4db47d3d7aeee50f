----------------------------- MODULE MCMainLoop -----------------------------
(***************************************************************************)
(* Instance of MainLoop for TLC: more connections than workers, and enough *)
(* SIGHUPs for one to arrive during a reload.                              *)
(***************************************************************************)
EXTENDS MainLoop
=============================================================================
