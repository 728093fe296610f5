----------------------------- MODULE MCServiceFile -----------------------------
(* ServiceFile for model checking: the CONSTANTS are all given in the .cfg files. *)
EXTENDS ServiceFile, TLC
=============================================================================
