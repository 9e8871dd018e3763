------------------------- MODULE MCProcessCallback -------------------------
(* A small instance of ProcessCallback for TLC: callbacks of one frame and *)
(* of none (sized as two), costs that fit no callback, one, and both.      *)
EXTENDS ProcessCallback
=============================================================================
