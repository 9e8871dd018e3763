-------------------------- MODULE MCBlockScheduler --------------------------
(* A small instance of BlockScheduler for TLC. *)
EXTENDS BlockScheduler

Value(p, v) == [param |-> p, value |-> v, is_mod |-> FALSE]
Mod(p, v) == [param |-> p, value |-> v, is_mod |-> TRUE]

(* A fused gain set both ways, a modulation, a boundary of each kind.      *)
MCHostEvents ==
  {Value("out_gain", 0), Value("out_gain", 1), Mod("in_gain", 1), Value("gate", 1),
   Value("bypass", TRUE), Value("bypass", FALSE), Value("oversample", 1)}

(* The ways a factor can change.                                           *)
MCFactors == {Value("oversample", 0), Value("oversample", 1)}

=============================================================================
