---------------------------- MODULE MCParamSync ----------------------------
(* A small instance of ParamSync for TLC. *)
EXTENDS ParamSync
=============================================================================
