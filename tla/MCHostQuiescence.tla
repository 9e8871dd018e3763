------------------------- MODULE MCHostQuiescence --------------------------
(* HostQuiescence for TLC: three external threads against the main thread. *)
EXTENDS HostQuiescence

=============================================================================
