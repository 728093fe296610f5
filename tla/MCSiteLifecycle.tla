--------------------------- MODULE MCSiteLifecycle ---------------------------
(* SiteLifecycle for model checking: the CONSTANTS are all given in the .cfg file. *)
(* Its run checks a liveness property, so that symmetry may not be used.           *)
EXTENDS SiteLifecycle, TLC
=============================================================================
