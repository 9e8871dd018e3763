---------------------------- MODULE RunningModel ----------------------------
(***************************************************************************)
(* What the audio thread runs, as the adaptive rebuild promises it: "a     *)
(* rebuild of model A can never overwrite a subsequently loaded model B"   *)
(* (SlimmableSwapHandler, events.rs:341).  Models are numbered by their    *)
(* generation.  The promise is kept while models come from loads; what a   *)
(* restore brings is published after it is installed, and a slice built in *)
(* between may be one of the model before.  How slices are asked for, cut  *)
(* and delivered is AdaptiveRebuild's business.                            *)
(***************************************************************************)
EXTENDS Naturals

VARIABLES
  running,   \* model_generation: the model that was installed last
  weights,   \* generation of the model whose weights run, whole or sliced
  restores   \* restores that brought a model

runningVars == <<running, weights, restores>>

RunningInit == running = 1 /\ weights = 1 /\ restores = 0

(* A loaded or restored model runs, whole.                                 *)
RunModel ==
  /\ running' \in Nat /\ weights' = running'
  /\ UNCHANGED restores

(* A slice runs under the model that was installed last.                   *)
RunSlice ==
  /\ weights' \in Nat
  /\ restores = 0 => weights' >= running
  /\ UNCHANGED <<running, restores>>

BeginRestore ==
  /\ restores' = restores + 1
  /\ UNCHANGED <<running, weights>>

RunningNext == RunModel \/ RunSlice \/ BeginRestore

(* The audio thread runs whole models, and slices that are no older than   *)
(* the model they run under (the generation guard of SlimmableSwapHandler, *)
(* events.rs:339): what the rebuild implements.                            *)
RunningSpec == RunningInit /\ [][RunningNext]_runningVars

(* The generation guard at work: as long as models come from loads only,   *)
(* no slice of an older model ever runs under a newer one                  *)
(* (SlimmableSwapHandler, events.rs:339).                                  *)
NoOlderSlice == restores = 0 => weights >= running
=============================================================================
