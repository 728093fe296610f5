---------------------------- MODULE MCSyncNetwork ----------------------------
(* SyncNetwork for model checking: the CONSTANTS are all given in the .cfg file.  *)
(* Its run checks a liveness property, so that symmetry may not be used.          *)
EXTENDS SyncNetwork, TLC
=============================================================================
