---------------------------- MODULE MCUsnScanner ----------------------------
(* Values for model checking UsnScanner.                                   *)
EXTENDS UsnScanner
=============================================================================
