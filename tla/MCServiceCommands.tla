-------------------------- MODULE MCServiceCommands --------------------------
(* ServiceCommands for model checking: the CONSTANTS are all given in the .cfg file. *)
EXTENDS ServiceCommands, TLC
=============================================================================
