-------------------------- MODULE MCCommandChannel --------------------------
(* Small instances of CommandChannel for TLC. *)
EXTENDS CommandChannel

(* All kinds: light or structural, coalescing or not, staged or rejected   *)
(* by a failed activation.                                                 *)
EveryKind == AllKinds

ParamsOnly == {"Params"}
ModelOnly == {"LoadModel"}

=============================================================================
