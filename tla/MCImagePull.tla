----------------------------- MODULE MCImagePull -----------------------------
(* ImagePull for model checking: the CONSTANTS are all given in the .cfg file.  *)
EXTENDS ImagePull, TLC
=============================================================================
