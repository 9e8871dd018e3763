--------------------------- MODULE MCModelLoader ---------------------------
(* Instances of ModelLoader for TLC.                                       *)
EXTENDS ModelLoader
=============================================================================
