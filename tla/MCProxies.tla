------------------------------- MODULE MCProxies -------------------------------
(* Proxies for model checking: the CONSTANTS are all given in the .cfg files. *)
EXTENDS Proxies, TLC
=============================================================================
