--------------------------- MODULE AdaptiveRebuild ---------------------------
(***************************************************************************)
(* The slimmable rebuild.  When the adaptive controller of the audio       *)
(* thread changes its level it asks for the running WaveNet at another     *)
(* width: it stores the width and the generation of its model and raises   *)
(* RT_STATUS_NEEDS_SLIMMABLE_REBUILD.  The loader worker polls the flag,   *)
(* slices the model the main thread keeps (full_wavenet_model) and puts    *)
(* the slice into a slot; the next housekeeping() tick pushes it onto the  *)
(* slimmable ring and lowers the flag; the audio thread installs it if it  *)
(* still runs the generation the slice is tagged with.                     *)
(*                                                                         *)
(* Meanwhile the main thread replaces the model: a load publishes          *)
(* full_wavenet_model first and then the audio thread installs it; a       *)
(* restore is installed first and published when it is acknowledged.  What *)
(* comes of it on the audio thread is the abstract RunningModel.           *)
(***************************************************************************)
EXTENDS Naturals, Sequences, RunningModel

CONSTANTS
  Widths,        \* channel counts the controller asks for; 4 is the least that is sliced
  RingCapacity,  \* slots of the slimmable ring
  None,          \* an empty slot, nothing remembered
  MaxRequests,   \* bound: rebuilds requested
  MaxLoads,      \* bound: model loads
  MaxRestores    \* bound: restores that carry a model

Generation == 0 .. (MaxLoads + MaxRestores + 1)
Identity == [width : Widths, generation : Generation]
Slice == [width : Widths, generation : Generation, source : Generation]
Outcome == [kind : {"ready", "failed", "skipped"}, slice : Slice]

ASSUME RebuildAssumption ==
  /\ Widths \subseteq Nat /\ Widths # {}
  /\ RingCapacity \in Nat \ {0}
  /\ {MaxRequests, MaxLoads, MaxRestores} \subseteq Nat
  /\ None \notin Identity \cup Outcome

VARIABLES       \* beside running, weights and restores of RunningModel
  requested,    \* requested_slimmable_ch and requested_slimmable_generation
  flag,         \* RT_STATUS_NEEDS_SLIMMABLE_REBUILD
  signalling,   \* audio: the width whose request is being stored, or None
  generation,   \* the allocator
  full,         \* generation of full_wavenet_model, 0: no WaveNet
  commands,     \* model installs in the command ring
  staged,       \* a load that waits for a host restart, 0: none
  unpublished,  \* an installed restore not yet published, 0: none
  loader,       \* the worker exists
  reading,      \* worker: identity it has read, or None
  slicing,      \* worker: outcome it has built, or None
  built,        \* worker: slimmable_built
  slot,         \* rebuild_slots.slimmable
  tick,         \* main: where housekeeping() is
  taken,        \* main: the outcome drain_slimmable_rebuild() has taken, or None
  ring,         \* the slimmable ring
  requests, loads,
  want,         \* history: identity of the newest request, None: it is served
  delivered     \* history: identity of the newest delivery

audioVars == <<running, weights, requested, flag, signalling, requests, want>>
modelVars == <<generation, full, commands, staged, unpublished, loads, restores>>
workerVars == <<reading, slicing, built>>
mainVars == <<tick, taken>>
vars == <<audioVars, modelVars, workerVars, loader, slot, mainVars, ring, delivered>>

Init ==
  /\ running = 1 /\ weights = 1 /\ generation = 1 /\ full = 1
  /\ requested = [width |-> CHOOSE w \in Widths : TRUE, generation |-> 0]
  /\ flag = FALSE /\ signalling = None /\ requests = 0 /\ want = None /\ delivered = None
  /\ commands = << >> /\ staged = 0 /\ unpublished = 0 /\ loads = 0 /\ restores = 0
  /\ loader = FALSE /\ reading = None /\ slicing = None /\ built = None
  /\ slot = None /\ tick = "idle" /\ taken = None /\ ring = << >>

-----------------------------------------------------------------------------
(* The audio thread.                                                       *)

(* signal_slimmable_rebuild(): the two stores and the flag are three       *)
(* atomics; the generation is the one the audio thread runs.               *)
StoreWidth ==
  /\ signalling = None /\ requests < MaxRequests
  /\ \E w \in Widths :
       /\ want # [width |-> w, generation |-> running]
       /\ requested' = [requested EXCEPT !.width = w]
       /\ signalling' = w
  /\ requests' = requests + 1
  /\ UNCHANGED <<running, weights, flag, want, modelVars, workerVars, loader, slot, mainVars,
                 ring, delivered>>

RaiseFlag ==
  /\ signalling # None
  /\ requested' = [requested EXCEPT !.generation = running]
  /\ flag' = TRUE /\ signalling' = None
  /\ want' = [width |-> signalling, generation |-> running]
  /\ UNCHANGED <<running, weights, requests, modelVars, workerVars, loader, slot, mainVars, ring, delivered>>

(* cold_load_model(): a load or a restore installs its model at full width.*)
InstallModel ==
  /\ signalling = None /\ commands # << >>
  /\ running' = Head(commands) /\ weights' = Head(commands)
  /\ commands' = Tail(commands)
  /\ UNCHANGED <<requested, flag, signalling, requests, want, generation, full, staged,
                 unpublished, loads, restores, workerVars, loader, slot, mainVars, ring,
                 delivered>>

(* The guard of SlimmableSwapHandler: a slice of another generation than   *)
(* the running one is discarded.                                           *)
AcceptedAnyway(slice) == TRUE
Accepted(slice) == slice.generation = running

InstallSlice ==
  /\ signalling = None /\ ring # << >>
  /\ ring' = Tail(ring)
  /\ weights' = IF Accepted(Head(ring)) THEN Head(ring).source ELSE weights
  /\ UNCHANGED <<running, requested, flag, signalling, requests, want, modelVars, workerVars,
                 loader, slot, mainVars, delivered>>

-----------------------------------------------------------------------------
(* The main thread replaces the model.                                     *)

(* What full_wavenet_model is of a model: itself, or none if it is no      *)
(* WaveNet.                                                                *)
FullModel(model) == {model, 0}

(* commit_prepared_model_with_generation(): the identity, with             *)
(* full_wavenet_model, is published at once; a load of another latency     *)
(* then waits for a host restart.                                          *)
LoadModel ==
  /\ tick = "idle" /\ loads < MaxLoads /\ unpublished = 0
  /\ generation' = generation + 1 /\ loads' = loads + 1
  /\ full' \in FullModel(generation')
  /\ \/ commands' = Append(commands, generation') /\ staged' = 0
     \/ staged' = generation' /\ UNCHANGED commands
  /\ UNCHANGED <<audioVars, unpublished, restores, workerVars, loader, slot, mainVars, ring, delivered>>

(* A host restart: activate() installs what was staged.                    *)
Restart ==
  /\ tick = "idle" /\ staged # 0 /\ signalling = None
  /\ running' = staged /\ weights' = staged /\ staged' = 0
  /\ UNCHANGED <<requested, flag, signalling, requests, want, generation, full, commands,
                 unpublished, loads, restores, workerVars, loader, slot, mainVars, ring,
                 delivered>>

(* A restore pushes its model; publish_restore() follows when the ring has *)
(* acknowledged it.                                                        *)
PushRestore ==
  /\ tick = "idle" /\ restores < MaxRestores /\ unpublished = 0
  /\ generation' = generation + 1 /\ restores' = restores + 1
  /\ commands' = Append(commands, generation') /\ unpublished' = generation'
  /\ staged' = 0
  /\ UNCHANGED <<audioVars, full, loads, workerVars, loader, slot, mainVars, ring,
                 delivered>>

PublishRestore ==
  /\ tick = "idle" /\ unpublished # 0 /\ commands = << >>
  /\ full' \in FullModel(unpublished)
  /\ unpublished' = 0
  /\ UNCHANGED <<audioVars, generation, commands, staged, loads, restores, workerVars, loader,
                 slot, mainVars, ring, delivered>>

-----------------------------------------------------------------------------
(* housekeeping(): handle_slimmable_rebuild().                             *)

(* With the flag up the worker is spawned on demand and its slot is taken. *)
TakeSlot ==
  /\ tick = "idle"
  /\ IF flag
     THEN loader' = TRUE /\ tick' = "rebuild" /\ taken' = slot /\ slot' = None
     ELSE UNCHANGED <<loader, tick, taken, slot>>
  /\ UNCHANGED <<audioVars, modelVars, workerVars, ring, delivered>>

SliceOf(identity) == [width |-> identity.width, generation |-> identity.generation,
                      source |-> full]

(* build_slimmable(): it takes whatever full_wavenet_model is by now and   *)
(* tags it with the generation it is given.                                *)
BuildOrGiveUp(identity) ==
  IF identity.width < 4 \/ full = 0
  THEN {}
  ELSE {[kind |-> k, slice |-> SliceOf(identity)] : k \in {"ready", "failed"}}

BuildSlimmable(identity) ==
  IF identity.width < 4 \/ full = 0
  THEN {[kind |-> "skipped", slice |-> SliceOf(identity)]}
  ELSE {[kind |-> k, slice |-> SliceOf(identity)] : k \in {"ready", "failed"}}

(* handle_slimmable_rebuild_inline(): the worker cannot be spawned; the    *)
(* slice is built here.                                                    *)
RebuildInline ==
  /\ tick = "idle" /\ flag /\ ~loader
  /\ tick' = "rebuild"
  /\ taken' \in BuildSlimmable(requested)
  /\ UNCHANGED <<audioVars, modelVars, workerVars, loader, slot, ring, delivered>>

RingNeverFull == FALSE
RingFull == Len(ring) >= RingCapacity

(* What the tick makes of the outcome: it is pushed, or there was nothing  *)
(* to push; the flag goes down, whatever it asks for by now.               *)
Deliver ==
  /\ tick = "rebuild" /\ taken # None
  /\ taken.kind = "ready" => ~RingFull
  /\ ring' = IF taken.kind = "ready" THEN Append(ring, taken.slice) ELSE ring
  /\ delivered' = [width |-> taken.slice.width, generation |-> taken.slice.generation]
  /\ taken' = None /\ tick' = "idle"
  /\ flag' = FALSE
  /\ UNCHANGED <<running, weights, requested, signalling, requests, want, modelVars,
                 workerVars, loader, slot>>

(* What a full ring leaves of the slice: it goes back into the slot of the *)
(* worker; an inline one is dropped and built again.                       *)
Retained == IF loader THEN taken ELSE slot

(* A full ring keeps the flag up for another tick.                         *)
PutBack ==
  /\ tick = "rebuild" /\ taken # None /\ taken.kind = "ready" /\ RingFull
  /\ slot' = Retained
  /\ taken' = None /\ tick' = "idle"
  /\ UNCHANGED <<audioVars, modelVars, workerVars, loader, ring, delivered>>

(* The worker still builds.                                                *)
NothingBuilt ==
  /\ tick = "rebuild" /\ taken = None
  /\ tick' = "idle"
  /\ UNCHANGED <<audioVars, modelVars, workerVars, loader, slot, taken, ring, delivered>>

-----------------------------------------------------------------------------
(* The worker: poll_rebuilds().                                            *)

(* This request has been built already.                                    *)
RememberedNever(identity) == FALSE
Remembered(identity) == built = identity

(* It reads the request with relaxed loads, after the flag.                *)
ReadRequest ==
  /\ loader /\ reading = None /\ slicing = None /\ flag
  /\ ~Remembered(requested)
  /\ reading' = requested
  /\ UNCHANGED <<audioVars, modelVars, slicing, built, loader, slot, mainVars, ring,
                 delivered>>

(* The flag is down: forget what was built.                                *)
Forget ==
  /\ loader /\ reading = None /\ slicing = None /\ ~flag /\ built # None
  /\ built' = None
  /\ UNCHANGED <<audioVars, modelVars, reading, slicing, loader, slot, mainVars, ring,
                 delivered>>

BuildSlice ==
  /\ reading # None /\ slicing = None
  /\ slicing' \in BuildSlimmable(reading)
  /\ UNCHANGED <<audioVars, modelVars, reading, built, loader, slot, mainVars, ring,
                 delivered>>

PublishSlice ==
  /\ slicing # None
  /\ slot' = slicing /\ built' = reading
  /\ reading' = None /\ slicing' = None
  /\ UNCHANGED <<audioVars, modelVars, loader, mainVars, ring, delivered>>

-----------------------------------------------------------------------------
AudioNext == StoreWidth \/ RaiseFlag \/ InstallModel \/ InstallSlice
MainNext == LoadModel \/ Restart \/ PushRestore \/ PublishRestore \/ TakeSlot
              \/ RebuildInline \/ Deliver \/ PutBack \/ NothingBuilt
WorkerNext == ReadRequest \/ Forget \/ BuildSlice \/ PublishSlice
Next == AudioNext \/ MainNext \/ WorkerNext

(* Audio runs, so the audio thread finishes its callback and drains its    *)
(* rings; the worker polls every 10 ms; the watchdog timer brings a tick   *)
(* whether or not a callback was requested.                                *)
Fairness ==
  /\ WF_vars(RaiseFlag) /\ WF_vars(InstallModel) /\ WF_vars(InstallSlice)
  /\ WF_vars(ReadRequest) /\ WF_vars(Forget) /\ WF_vars(BuildSlice) /\ WF_vars(PublishSlice)
  /\ WF_vars(TakeSlot)
  /\ WF_vars(Deliver \/ PutBack \/ NothingBuilt)

Spec == Init /\ [][Next]_vars /\ Fairness

-----------------------------------------------------------------------------
TypeOK ==
  /\ {running, weights, generation, full, staged, unpublished} \subseteq Generation
  /\ requested \in Identity
  /\ {flag, loader} \subseteq BOOLEAN
  /\ signalling \in Widths \cup {None}
  /\ commands \in Seq(Generation)
  /\ {reading, built, want, delivered} \subseteq Identity \cup {None}
  /\ {slicing, slot, taken} \subseteq Outcome \cup {None}
  /\ tick \in {"idle", "rebuild"}
  /\ ring \in Seq(Slice) /\ Len(ring) <= RingCapacity
  /\ requests \in 0 .. MaxRequests /\ loads \in 0 .. MaxLoads /\ restores \in 0 .. MaxRestores

(* One request, one slice: what waits in the slot, put back by a full ring *)
(* too, is not built again ("never rebuilds while a payload it already     *)
(* published is still waiting to be consumed", model_loader.rs:32).        *)
NoRedundantBuild ==
  [][slot' # slot /\ slicing # None /\ requests = 1 => slot = None]_vars

(* A raised flag goes down, unless what it asks for was delivered already: *)
(* full rings, model changes, failed builds and an unspawned worker delay  *)
(* the rebuild, none of them ends it.                                      *)
FlagIsServed == flag ~> (~flag \/ delivered = want)

(* Not kept by the code.  A slice runs only over the model it was cut      *)
(* from: the tag lets the audio thread "reject a stale slimmable rebuild"  *)
(* (shared.rs:655).                                                        *)
SliceOfTheRunningModel == running > 0 => weights = running

(* Not kept by the code.  The newest request is delivered: "a distinct     *)
(* request supersedes it immediately" (model_loader.rs:259).               *)
NewestRequestServed ==
  \A w \in Identity : (want = w) ~> (want # w \/ delivered = w)
=============================================================================
