---------------------------- MODULE AssetIdentity ----------------------------
(***************************************************************************)
(* Which model and which cab-sim IR are running, which ones the GUI shows, *)
(* and which model a saved project would name.                             *)
(*                                                                         *)
(* The main thread changes assets by a state restore (state, state-context)*)
(* and by requests handled in housekeeping() (load model, load IR, clear   *)
(* IR, clear model).  A change that keeps the latency of the audio chain   *)
(* goes through the command channel; one that alters it is staged and      *)
(* installed by activate() in a host restart (Strict Restart Policy).      *)
(*                                                                         *)
(* The command channel is CommandChannel seen from outside: an ordered     *)
(* ring, at most one structural install per callback, the head possibly    *)
(* parked.  `is_acked(seq)` is "no longer in the ring".  The sample rate   *)
(* is fixed; the buffer size may be renegotiated by every activation.      *)
(***************************************************************************)
EXTENDS Naturals, Sequences, FiniteSets

CONSTANTS
  Models,        \* model files
  Irs,           \* cab-sim impulse responses
  NoAsset,       \* no model, no IR; as a component: clear it
  Keep,          \* a component a command leaves alone (None in the payload)
  None,          \* an empty slot
  RateOf,        \* the sample rate of each model
  HostRate,      \* the host's sample rate
  DefaultRate,   \* 48000: the rate assumed where no model names one
  RingCapacity,  \* slots of the command ring
  MaxOps,        \* bound: asset operations in a behaviour
  MaxSnapshots,  \* bound: parameter snapshots pushed
  MaxFailures,   \* bound: builds that fail
  MaxPanics,     \* bound: panics of process()
  MaxRestarts    \* bound: deactivations

ModelOrNone == Models \cup {NoAsset}
IrOrNone == Irs \cup {NoAsset}
Rates == {RateOf[m] : m \in Models} \cup {HostRate, DefaultRate}

ASSUME AssetAssumption ==
  /\ Models # {} /\ Irs # {}
  /\ NoAsset \notin Models \cup Irs
  /\ Keep \notin Models \cup Irs \cup {NoAsset}
  /\ DOMAIN RateOf = Models
  /\ 0 \notin Rates
  /\ RingCapacity \in Nat \ {0}
  /\ {MaxOps, MaxSnapshots, MaxFailures, MaxPanics, MaxRestarts} \subseteq Nat

(* A command, a staged swap and a restore all carry the same components:   *)
(* a model (with the rate its resampler and stream were built for) and an  *)
(* IR, each of them kept, cleared or replaced.  id orders the operations   *)
(* (the generation of a model).                                            *)
Command == [kind : {"Params", "LoadModel", "LoadCabIr", "RestoreTxn"},
            id : Nat, model : ModelOrNone \cup {Keep}, rate : Rates,
            ir : IrOrNone \cup {Keep}]
StagedSwap == [model : ModelOrNone \cup {Keep}, rate : Rates,
               ir : IrOrNone \cup {Keep}]
Restore == [cmd : Command, full : BOOLEAN, delivered : BOOLEAN]
Chain == [model : ModelOrNone, rate : Rates, ir : IrOrNone]
Identity == [model : ModelOrNone, ir : IrOrNone]

(* An empty slot is none of the values the slot may hold.                  *)
ASSUME NoneAssumption ==
  None \notin Command \cup Restore \cup Chain \cup Irs

(* Situations in which the code lets what is shown, what runs and what the *)
(* host was told diverge; each is recorded where it arises.                *)
Hazards == {"overtaken", "reordered", "ir_inactive", "staged_dropped",
            "clear_over_restore", "clear_failed", "late_failure", "parked_dropped",
            "recovered_dropped", "poisoned", "carried"}

VARIABLES
  (* main thread *)
  hk,              \* the step of housekeeping() that comes next
  ops,             \* asset operations so far
  sized,           \* cold.buffer_size # 0: an activation has published it
  pending_model,   \* cold.pending_model
  pending_restore, \* pending_restore: undelivered, or waiting for its ack
  pending_ir,      \* cold.ui_pending_ir, set to retry a full ring
  staged_swap,     \* staged_swap (Keep, Keep when None)
  staged_restore,  \* staged_restore
  restart,         \* request_restart() sent and not yet honoured
  poison_restart_requested, \* the latch of the request for a poisoned processor
  shown,           \* ui_model_name, ir_path / ir_raw_samples
  shown_rate,      \* cold.model_sample_rate (0 after a clear)
  saved,           \* params.model_path, the model save() writes; it takes the
                   \* IR from cold.ir_path, which is shown.ir (snapshot_params)
  (* shared *)
  ring,            \* the command ring, the parked command in front
  recovered,       \* recovered_commands
  latency,         \* current_stream_latency, current_cabsim_latency
  (* audio thread *)
  phase,           \* "inactive", "active", "poisoned"
  poison_flag,     \* RT_STATUS_PROCESSOR_POISONED
  parked,          \* Head(ring) sits in the deferred slot
  replay,          \* recovered_commands of the processor
  dsp,             \* the processor's chain; deactivated_dsp while inactive
  (* bounds and history *)
  snapshots, failures, panics, restarts,
  met              \* the situations this behaviour has been in (Hazards)

slots == <<pending_model, pending_restore, pending_ir>>
staging == <<staged_swap, staged_restore, restart>>
identity == <<shown, shown_rate, saved>>
channel == <<ring, parked, recovered, replay>>
chain == <<dsp, latency>>
poison == <<poison_flag, poison_restart_requested>>
bounds == <<snapshots, failures, panics, restarts>>
vars == <<hk, ops, sized, slots, staging, identity, channel, chain, phase,
          poison, bounds, met>>

NothingStaged == [model |-> Keep, rate |-> DefaultRate, ir |-> Keep]

Init ==
  /\ hk = "idle" /\ ops = 0 /\ sized = FALSE
  /\ pending_model = None /\ pending_restore = None /\ pending_ir = None
  /\ staged_swap = NothingStaged /\ staged_restore = None /\ restart = FALSE
  /\ shown = [model |-> NoAsset, ir |-> NoAsset]
  /\ shown_rate = 0
  /\ saved = NoAsset
  /\ ring = <<>> /\ parked = FALSE /\ recovered = <<>> /\ replay = <<>>
  /\ latency = [stream |-> 0, cabsim |-> 0]
  /\ phase = "inactive"
  /\ poison_flag = FALSE /\ poison_restart_requested = FALSE
  /\ dsp = None
  /\ snapshots = 0 /\ failures = 0 /\ panics = 0 /\ restarts = 0
  /\ met = {}

-----------------------------------------------------------------------------
(* Components and latency.                                                 *)

(* Mutation: a component the command does not name is stored as it is. *)
ReplacedBlindly(old, new) == new
Replaced(old, new) == IF new = Keep THEN old ELSE new

(* cold_load_model, cold_load_cabsim, cold_apply_restore_txn.              *)
Install(d, c) ==
  [model |-> Replaced(d.model, c.model),
   rate  |-> IF c.model = Keep THEN d.rate ELSE c.rate,
   ir    |-> Replaced(d.ir, c.ir)]

(* The streaming adapter delays only when it resamples, a cab-sim by its   *)
(* partition, which is the same for every IR (1 stands for it).            *)
StreamLatency(rate) == IF rate = HostRate THEN 0 ELSE 1
CabsimLatency(ir) == IF ir = NoAsset THEN 0 ELSE 1
LatencyOf(d) == [stream |-> StreamLatency(d.rate), cabsim |-> CabsimLatency(d.ir)]

(* Installing c would change the latency from l.                           *)
OtherLatency(c, l) ==
  \/ c.model # Keep /\ StreamLatency(c.rate) # l.stream
  \/ c.ir # Keep /\ CabsimLatency(c.ir) # l.cabsim

RateOrDefault == IF shown_rate = 0 THEN DefaultRate ELSE shown_rate

Noting(hazard, happens) == IF happens THEN {hazard} ELSE {}

ModelCommand(m, rate) ==
  [kind |-> "LoadModel", id |-> ops + 1, model |-> m, rate |-> rate, ir |-> Keep]
IrCommand(i) ==
  [kind |-> "LoadCabIr", id |-> ops + 1, model |-> Keep, rate |-> DefaultRate, ir |-> i]
Snapshot ==
  [kind |-> "Params", id |-> 0, model |-> Keep, rate |-> DefaultRate, ir |-> Keep]

(* build_restore_package: a component a Full restore lacks is cleared, one *)
(* a preset lacks is kept.                                                 *)
RestoreCommand(full, m, i) ==
  [kind |-> "RestoreTxn", id |-> ops + 1,
   model |-> IF m = NoAsset /\ ~full THEN Keep ELSE m,
   rate |-> IF m = NoAsset THEN DefaultRate ELSE RateOf[m],
   ir |-> IF i = NoAsset /\ ~full THEN Keep ELSE i]

Room == Len(ring) - (IF parked THEN 1 ELSE 0) < RingCapacity

Touches(c, x) == IF x = "model" THEN c.model # Keep ELSE c.ir # Keep

Touching(s, x) == {j \in 1..Len(s) : Touches(s[j], x)}
Newest(S) == CHOOSE j \in S : \A k \in S : k <= j

(* What a chain becomes when the commands of s are installed in order.     *)
InstallAll(d, s) ==
  LET models == Touching(s, "model")
      irs == Touching(s, "ir")
  IN  [model |-> IF models = {} THEN d.model ELSE s[Newest(models)].model,
       rate  |-> IF models = {} THEN d.rate ELSE s[Newest(models)].rate,
       ir    |-> IF irs = {} THEN d.ir ELSE s[Newest(irs)].ir]

(* What activate() starts from: the kept chain, its cab-sim rebuilt from   *)
(* the samples of the shown IR only when it had none; a stream of another  *)
(* buffer size is rebuilt for the rate the GUI shows.                      *)
Base(resized) ==
  IF dsp = None
    THEN [model |-> NoAsset, rate |-> RateOrDefault, ir |-> shown.ir]
    ELSE [model |-> dsp.model,
          rate |-> IF resized THEN RateOrDefault ELSE dsp.rate,
          ir |-> IF dsp.ir = NoAsset THEN shown.ir ELSE dsp.ir]

(* An earlier change of component x waits in a slot of its own, or in the  *)
(* channel.                                                                *)
InSlot(x) ==
  \/ pending_restore # None /\ Touches(pending_restore.cmd, x)
  \/ x = "model" /\ sized /\ pending_model # None
  \/ x = "ir" /\ pending_ir # None
InChannel(x) == Touching(ring \o recovered \o replay, x) # {}

(* An asset operation: it counts, and `overtaken` records that an earlier  *)
(* change of a component it sets may land after it: one that waits in a    *)
(* slot, or one in the channel when this one does not go through it.       *)
Operation(touched, beside, other) ==
  /\ ops < MaxOps
  /\ ops' = ops + 1
  /\ met' = met \cup other
       \cup Noting("overtaken", \E x \in touched : InSlot(x) \/ (beside /\ InChannel(x)))

-----------------------------------------------------------------------------
(* State restore (state_transaction/commit.rs).                            *)

(* publish_restore: only a Full restore sets params.model_path.            *)
Published(cmd, full) ==
  /\ shown' = [model |-> Replaced(shown.model, cmd.model),
               ir |-> Replaced(shown.ir, cmd.ir)]
  /\ shown_rate' = IF cmd.model = Keep THEN shown_rate ELSE cmd.rate
  /\ saved' = IF full THEN cmd.model ELSE saved

(* local_commit: no activation has published a buffer size yet.            *)
LocalCommit(cmd, full) ==
  /\ ~sized
  /\ Operation({}, FALSE, {})
  /\ pending_model' = IF cmd.model = Keep THEN pending_model
                      ELSE [cmd EXCEPT !.kind = "LoadModel", !.ir = Keep]
  /\ staged_swap' = [staged_swap EXCEPT !.ir = Replaced(@, cmd.ir)]
  /\ Published(cmd, full)
  /\ UNCHANGED <<pending_restore, pending_ir, staged_restore, restart, channel>>

DiffersInLatency(cmd) == OtherLatency(cmd, latency)

TouchedBy(cmd) == {x \in {"model", "ir"} : Touches(cmd, x)}

(* The GUI shows a staged swap already: dropping it leaves the identity of *)
(* something that will not run, until the restore is published.            *)
CommitHazards ==
  Noting("staged_dropped", staged_swap # NothingStaged)
    \cup Noting("overtaken", pending_restore # None)

(* atomic_commit, same latency: the channel, published after the ack.      *)
ContinuousCommit(cmd, full) ==
  /\ sized
  /\ ~DiffersInLatency(cmd)
  /\ Operation(TouchedBy(cmd), FALSE, CommitHazards)
  /\ staged_restore' = None
  /\ staged_swap' = NothingStaged
  /\ ring' = IF Room THEN Append(ring, cmd) ELSE ring
  /\ pending_restore' = [cmd |-> cmd, full |-> full, delivered |-> Room]
  /\ UNCHANGED <<pending_model, pending_ir, restart, identity, parked,
                 recovered, replay>>

(* atomic_commit, other latency or another oversampling factor.            *)
StagedCommit(cmd, full, os_differs) ==
  /\ sized
  /\ DiffersInLatency(cmd) \/ os_differs
  /\ Operation(TouchedBy(cmd), TRUE, CommitHazards)
  /\ staged_swap' = NothingStaged
  /\ staged_restore' = [cmd |-> cmd, full |-> full, delivered |-> FALSE]
  /\ restart' = TRUE
  /\ UNCHANGED <<slots, identity, channel>>

(* commit: state load, called by the host between housekeeping calls.      *)
Commit ==
  /\ hk = "idle"
  /\ \E full \in BOOLEAN, m \in ModelOrNone, i \in IrOrNone :
       LET cmd == RestoreCommand(full, m, i)
       IN  \/ LocalCommit(cmd, full)
           \/ ContinuousCommit(cmd, full)
           \/ \E os_differs \in BOOLEAN : StagedCommit(cmd, full, os_differs)
  /\ UNCHANGED <<hk, sized, phase, poison, chain, bounds>>

-----------------------------------------------------------------------------
(* housekeeping(): flush_pending_restore, flush_pending_model, then the    *)
(* requests of the GUI and of preset loads.                                *)

InRing(id) == \E j \in 1..Len(ring) : ring[j].id = id

(* Mutation: nobody retries the push of a restore that met a full ring. *)
RestoreNotRetried == FALSE
RestoreToPush == pending_restore # None /\ ~pending_restore.delivered

RestoreAcked ==
  /\ pending_restore # None
  /\ pending_restore.delivered
  /\ ~InRing(pending_restore.cmd.id)

(* flush_pending_restore with something to push.                           *)
RedeliverRestore ==
  /\ hk = "idle"
  /\ RestoreToPush
  /\ hk' = "model"
  /\ ring' = IF Room THEN Append(ring, pending_restore.cmd) ELSE ring
  /\ pending_restore' = [pending_restore EXCEPT !.delivered = Room]
  /\ UNCHANGED <<ops, sized, pending_model, pending_ir, staging, identity, parked,
                 recovered, replay, chain, phase, poison, bounds, met>>

(* flush_pending_restore once the ack has come: publish_restore.           *)
PublishRestore ==
  /\ hk = "idle"
  /\ RestoreAcked
  /\ hk' = "model"
  /\ Published(pending_restore.cmd, pending_restore.full)
  /\ pending_restore' = None
  /\ UNCHANGED <<ops, sized, pending_model, pending_ir, staging, channel, chain,
                 phase, poison, bounds, met>>

(* flush_pending_restore with nothing to do.                               *)
NoRestoreToFlush ==
  /\ hk = "idle"
  /\ ~RestoreToPush /\ ~RestoreAcked
  /\ hk' = "model"
  /\ UNCHANGED <<ops, sized, slots, staging, identity, channel, chain, phase,
                 poison, bounds, met>>

(* flush_pending_model: the model stays in its slot when nothing is sized  *)
(* yet and when the ring is full.  It does not look at the latency.  Then  *)
(* drain_gc_and_sync_flags asks for a restart of a poisoned processor, once *)
(* until it finds a sound one.                                             *)
Flushes == sized /\ pending_model # None /\ Room

FlushPendingModel ==
  /\ hk = "model"
  /\ hk' = "load"
  /\ ring' = IF Flushes THEN Append(ring, pending_model) ELSE ring
  /\ pending_model' = IF Flushes THEN None ELSE pending_model
  /\ restart' = (restart \/ (poison_flag /\ ~poison_restart_requested))
  /\ poison_restart_requested' = poison_flag
  /\ UNCHANGED <<ops, sized, pending_restore, pending_ir, staged_swap,
                 staged_restore, identity, parked, recovered, replay, chain,
                 phase, poison_flag, bounds, met>>

(* The requests, in the order in which housekeeping() looks for them.      *)
After == [load |-> "ir", ir |-> "clear_ir", clear_ir |-> "clear_model",
          clear_model |-> "idle"]

NothingRequested ==
  /\ hk \in DOMAIN After
  /\ hk = "ir" => pending_ir = None
  /\ hk' = After[hk]
  /\ UNCHANGED <<ops, sized, slots, staging, identity, channel, chain, phase,
                 poison, bounds, met>>

(* Mutation: compared with the model shown, which may be staged. *)
SameStreamAsShown(rate) == StreamLatency(rate) = StreamLatency(RateOrDefault)
SameStream(rate) == StreamLatency(rate) = latency.stream

(* A change that cannot go through the channel asks for a restart.         *)
(* Mutation: unless the processor is poisoned. *)
NeedsRestartWhenAlive(continuous) == sized /\ ~continuous /\ phase # "poisoned"
NeedsRestart(continuous) == sized /\ ~continuous

(* Where a model command goes: the slot until sized or while the ring is   *)
(* full, the ring at equal latency, else the staged swap and a restart.    *)
DeliverModel(cmd) ==
  LET continuous == SameStream(cmd.rate)
  IN  /\ pending_model' = IF ~sized \/ (continuous /\ ~Room) THEN cmd ELSE pending_model
      /\ staged_restore' = IF sized THEN None ELSE staged_restore
      /\ ring' = IF sized /\ continuous /\ Room THEN Append(ring, cmd) ELSE ring
      /\ staged_swap' =
           IF ~sized THEN staged_swap
           ELSE [staged_swap EXCEPT !.model = IF continuous THEN Keep ELSE cmd.model,
                                    !.rate = IF continuous THEN DefaultRate ELSE cmd.rate]
      /\ restart' = (restart \/ NeedsRestart(continuous))
      /\ UNCHANGED <<pending_restore, pending_ir, parked, recovered, replay>>

(* commit_prepared_model: the new identity is shown at once.  The result   *)
(* of the worker and a synchronous load may come in one housekeeping().    *)
LoadModel ==
  /\ hk = "load"
  /\ hk' \in {"load", "ir"}
  /\ \E m \in Models :
       /\ Operation({"model"}, ~SameStream(RateOf[m]), {})
       /\ DeliverModel(ModelCommand(m, RateOf[m]))
       /\ shown' = [shown EXCEPT !.model = m]
       /\ shown_rate' = RateOf[m]
       /\ saved' = m
  /\ UNCHANGED <<sized, chain, phase, poison, bounds>>

ModelCleared ==
  /\ shown' = [shown EXCEPT !.model = NoAsset]
  /\ shown_rate' = 0
  /\ saved' = NoAsset

(* clear_model.                                                            *)
ClearModel ==
  /\ hk = "clear_model"
  /\ hk' = "idle"
  /\ Operation({"model"}, ~SameStream(HostRate), {})
  /\ ModelCleared
  /\ DeliverModel(ModelCommand(NoAsset, IF sized THEN HostRate ELSE DefaultRate))
  /\ UNCHANGED <<sized, chain, phase, poison, bounds>>

(* clear_model when the pass-through resampler or stream cannot be built:  *)
(* the identity is cleared before the early return.                        *)
ClearModelFails ==
  /\ hk = "clear_model"
  /\ hk' = "idle"
  /\ sized
  /\ failures < MaxFailures
  /\ failures' = failures + 1
  /\ Operation({"model"}, FALSE, {"clear_failed"})
  /\ ModelCleared
  /\ UNCHANGED <<sized, slots, staging, channel, chain, phase, poison,
                 snapshots, panics, restarts>>

ShowIr(i) ==
  /\ shown' = [shown EXCEPT !.ir = i]
  /\ UNCHANGED <<shown_rate, saved>>

(* load_cabsim while a processor owns the consumer.                        *)
SameCabsim(i) == CabsimLatency(i) = latency.cabsim

LoadIrActive(i) ==
  LET continuous == SameCabsim(i)
  IN  /\ phase # "inactive"
      /\ staged_restore' = None
      /\ staged_swap' = [staged_swap EXCEPT !.ir = IF continuous THEN Keep ELSE i]
      /\ restart' = (restart \/ NeedsRestart(continuous))
      /\ ring' = IF continuous /\ Room THEN Append(ring, IrCommand(i)) ELSE ring
      /\ IF continuous /\ ~Room
           THEN pending_ir' = i /\ UNCHANGED identity
           ELSE pending_ir' = None /\ ShowIr(i)

(* load_cabsim otherwise: activate() is to rebuild it from the samples.    *)
LoadIrInactive(i) ==
  /\ phase = "inactive"
  /\ pending_ir' = None
  /\ ShowIr(i)
  /\ UNCHANGED <<staging, ring>>

IrInactive ==
  Noting("ir_inactive",
         /\ phase = "inactive"
         /\ staged_swap.ir # Keep \/ (dsp # None /\ dsp.ir # NoAsset))

LoadIr ==
  /\ hk = "ir"
  /\ hk' = "clear_ir"
  /\ \E i \in Irs :
       /\ Operation({"ir"}, phase = "inactive" \/ ~SameCabsim(i), IrInactive)
       /\ LoadIrActive(i) \/ LoadIrInactive(i)
  /\ UNCHANGED <<sized, pending_model, pending_restore, parked, recovered,
                 replay, chain, phase, poison, bounds>>

(* handle_pending_ir_and_clear takes ui_pending_ir and loads it again.     *)
RetryIr ==
  /\ hk = "ir"
  /\ hk' = "clear_ir"
  /\ pending_ir # None
  /\ LoadIrActive(pending_ir) \/ LoadIrInactive(pending_ir)
  /\ met' = met \cup IrInactive
  /\ UNCHANGED <<ops, sized, pending_model, pending_restore, parked,
                 recovered, replay, chain, phase, poison, bounds>>

(* The clear request of the GUI: no effect without an installed IR. It     *)
(* empties cold.ir_path, from which save() takes the IR.                   *)
ClearIr ==
  /\ hk = "clear_ir"
  /\ hk' = "clear_model"
  /\ latency.cabsim # 0
  /\ Operation({"ir"}, TRUE, Noting("clear_over_restore", staged_restore # None))
  /\ staged_swap' = [staged_swap EXCEPT !.ir = NoAsset]
  /\ restart' = TRUE
  /\ shown' = [shown EXCEPT !.ir = NoAsset]
  /\ UNCHANGED <<sized, slots, staged_restore, shown_rate, saved, channel,
                 chain, phase, poison, bounds>>

(* A parameter snapshot takes a slot of the ring.                          *)
PushSnapshot ==
  /\ snapshots < MaxSnapshots
  /\ Room
  /\ snapshots' = snapshots + 1
  /\ ring' = Append(ring, Snapshot)
  /\ UNCHANGED <<hk, ops, sized, slots, staging, identity, parked, recovered,
                 replay, chain, phase, poison, failures, panics, restarts, met>>

-----------------------------------------------------------------------------
(* Audio thread.                                                           *)

Structural(c) == c.kind # "Params"

(* The next structural command replaces the candidate: same kind, and a    *)
(* restore is never coalesced.                                             *)
Coalesces(c, next) == next.kind = c.kind /\ c.kind # "RestoreTxn"

Structurals(n) == {j \in 1..n : Structural(ring[j])}

(* The first n commands are one callback's work: one install.              *)
OneInstall(n) == \A j, k \in Structurals(n) : j < k => Coalesces(ring[j], ring[k])

(* The callback popped the next structural command too and parked it.      *)
MayPark(n) ==
  /\ n < Len(ring)
  /\ Structurals(n) # {}
  /\ Structural(ring[n + 1])
  /\ ~Coalesces(ring[Newest(Structurals(n))], ring[n + 1])

(* One callback: RtSwapDrain over the ring, as CommandChannel details it.  *)
Drain ==
  /\ phase = "active"
  /\ replay = <<>>
  /\ \E n \in 1..Len(ring) :
       /\ OneInstall(n)
       /\ dsp' = InstallAll(dsp, SubSeq(ring, 1, n))
       /\ ring' = SubSeq(ring, n + 1, Len(ring))
       /\ parked' \in {FALSE, MayPark(n)}
  /\ latency' = LatencyOf(dsp')
  /\ UNCHANGED <<hk, ops, sized, slots, staging, identity, recovered, replay,
                 phase, poison, bounds, met>>

(* The first callback after activate() applies what was recovered.         *)
ReplayRecovered ==
  /\ phase = "active"
  /\ replay # <<>>
  /\ dsp' = InstallAll(dsp, replay)
  /\ latency' = LatencyOf(dsp')
  /\ replay' = <<>>
  /\ UNCHANGED <<hk, ops, sized, slots, staging, identity, ring, parked,
                 recovered, phase, poison, bounds, met>>

(* A panic of process() outside the drain (CommandChannel has the other).  *)
Panic ==
  /\ phase = "active"
  /\ panics < MaxPanics
  /\ panics' = panics + 1
  /\ phase' = "poisoned"
  /\ poison_flag' = TRUE
  /\ UNCHANGED <<hk, ops, sized, slots, staging, poison_restart_requested,
                 identity, channel, chain, snapshots, failures, restarts, met>>

-----------------------------------------------------------------------------
(* Lifecycle (processor/mod.rs, processor/rollback.rs).                    *)

(* deactivate: the parked command is dropped, the chain is kept unless the *)
(* processor is poisoned.                                                  *)
Deactivate ==
  /\ hk = "idle"
  /\ phase # "inactive"
  /\ restarts < MaxRestarts
  /\ restarts' = restarts + 1
  /\ phase' = "inactive"
  /\ ring' = IF parked THEN Tail(ring) ELSE ring
  /\ parked' = FALSE
  /\ replay' = <<>>
  /\ dsp' = IF phase = "poisoned" THEN None ELSE dsp
  /\ met' = met \cup Noting("parked_dropped", parked)
                \cup Noting("recovered_dropped", replay # <<>>)
                \cup Noting("poisoned", phase = "poisoned")
  /\ UNCHANGED <<hk, ops, sized, slots, staging, identity, recovered, latency,
                 poison, snapshots, failures, panics>>

(* A staged IR built for another buffer size is built again from the       *)
(* samples of the shown IR.                                                *)
Adapted(swap, resized) ==
  IF resized /\ swap.ir \in Irs /\ shown.ir # NoAsset
    THEN [swap EXCEPT !.ir = shown.ir] ELSE swap

(* A staged restore wins over a staged swap...                             *)
Taken(resized) ==
  IF staged_restore # None
    THEN Install(Base(resized), staged_restore.cmd)
    ELSE Install(Base(resized), Adapted(staged_swap, resized))

(* ... and is published at once.                                           *)
PublishStaged ==
  IF staged_restore # None
    THEN Published(staged_restore.cmd, staged_restore.full)
    ELSE UNCHANGED identity

(* A change accepted for the latency of an earlier activation is still on  *)
(* its way when activate() builds a chain of another latency.              *)
Carried ==
  LET waiting == {(ring \o recovered)[j] : j \in 1..Len(ring \o recovered)}
        \cup ({pending_model} \ {None})
        \cup {pending_restore.cmd : x \in {pending_restore} \ {None}}
        \cup {IrCommand(i) : i \in {pending_ir} \ {None}}
  IN  Noting("carried", \E c \in waiting : OtherLatency(c, latency'))

NothingStagedAfter == staged_restore' = None /\ staged_swap' = NothingStaged

Activate ==
  /\ hk = "idle"
  /\ phase = "inactive"
  /\ phase' = "active"
  /\ \E resized \in BOOLEAN : dsp' = Taken(resized)
  /\ latency' = LatencyOf(dsp')
  /\ met' = met \cup Carried
  /\ PublishStaged
  /\ NothingStagedAfter
  /\ sized' = TRUE
  /\ restart' = FALSE
  /\ ring' = IF pending_model # None /\ Room THEN Append(ring, pending_model) ELSE ring
  /\ pending_model' = IF Room THEN None ELSE pending_model
  /\ replay' = recovered
  /\ recovered' = <<>>
  /\ poison_flag' = FALSE
  /\ UNCHANGED <<hk, ops, pending_restore, pending_ir, parked,
                 poison_restart_requested, bounds>>

(* ActivateRollbackGuard::drop: the ring is emptied, its newest model goes *)
(* to the slot unless that holds a newer one, the rest is staged to be     *)
(* replayed, in front of what an earlier failure staged.                   *)
IsModel(c) == c.kind = "LoadModel"
NotModel(c) == ~IsModel(c)

(* What the rollback recovers beside the newest model, in its order.       *)
WithoutModels(s) ==
  LET kept[n \in 0..Len(s)] ==
        IF n = 0 THEN <<>>
        ELSE IF NotModel(s[n]) THEN Append(kept[n - 1], s[n])
        ELSE kept[n - 1]
  IN  kept[Len(s)]

(* The slot keeps the newer of its model and the newest one recovered.     *)
(* Mutation: the recovered model always goes to the slot. *)
TakesSlotAlways(model) == TRUE
TakesSlot(model) == pending_model = None \/ pending_model.id < model.id

Rollback ==
  LET found == {j \in 1..Len(ring) : IsModel(ring[j])}
      newest == ring[Newest(found)]
  IN  /\ ring' = <<>>
      /\ recovered' = WithoutModels(ring) \o recovered
      /\ pending_model' =
           IF found # {} /\ TakesSlot(newest) THEN newest ELSE pending_model

(* Two recovered changes of one component come back in another order.      *)
Reordered ==
  Noting("reordered",
         \/ recovered # <<>>
         \/ pending_model' # None
            /\ \/ Touching(recovered', "model") # {}
               \/ pending_restore # None /\ Touches(pending_restore.cmd, "model"))

(* activate() fails while it builds: the guards put everything back.       *)
ActivateFails ==
  /\ hk = "idle"
  /\ phase = "inactive"
  /\ failures < MaxFailures
  /\ failures' = failures + 1
  /\ Rollback
  /\ poison_flag' = FALSE
  /\ met' = met \cup Reordered
  /\ UNCHANGED <<hk, ops, sized, pending_restore, pending_ir, staging, identity,
                 parked, replay, chain, phase, poison_restart_requested,
                 snapshots, panics, restarts>>

(* activate() fails in flush_pending_model, its last fallible call: the    *)
(* guards no longer hold the chain and what was staged.                    *)
ActivateFailsLate ==
  /\ hk = "idle"
  /\ phase = "inactive"
  /\ failures < MaxFailures
  /\ failures' = failures + 1
  /\ pending_model # None
  /\ \E resized \in BOOLEAN : latency' = LatencyOf(Taken(resized))
  /\ dsp' = None
  /\ PublishStaged
  /\ NothingStagedAfter
  /\ sized' = TRUE
  /\ Rollback
  /\ poison_flag' = FALSE
  /\ met' = met \cup Reordered \cup Noting("late_failure", dsp # None \/ staged_restore # None
                                             \/ staged_swap # NothingStaged)
  /\ UNCHANGED <<hk, ops, pending_restore, pending_ir, restart, parked, replay,
                 phase, poison_restart_requested, snapshots, panics, restarts>>

-----------------------------------------------------------------------------
HousekeepingNext ==
  \/ RedeliverRestore \/ PublishRestore \/ NoRestoreToFlush
  \/ FlushPendingModel \/ NothingRequested \/ RetryIr

RequestNext ==
  \/ LoadModel \/ ClearModel \/ ClearModelFails
  \/ LoadIr \/ ClearIr

AudioNext == Drain \/ ReplayRecovered \/ Panic

LifecycleNext == Activate \/ ActivateFails \/ ActivateFailsLate \/ Deactivate

Next ==
  \/ Commit
  \/ HousekeepingNext
  \/ RequestNext
  \/ PushSnapshot
  \/ AudioNext
  \/ LifecycleNext

Spec == Init /\ [][Next]_vars

(* request_callback() obliges the host to run housekeeping() again, and an *)
(* active processor is called back; nothing is assumed of restarts.        *)
Fairness ==
  /\ WF_vars(HousekeepingNext)
  /\ WF_vars(Drain \/ ReplayRecovered)

FairSpec == Spec /\ Fairness

-----------------------------------------------------------------------------
(* Properties.                                                             *)

TypeOK ==
  /\ hk \in {"idle", "model"} \cup DOMAIN After
  /\ ops \in Nat
  /\ sized \in BOOLEAN
  /\ pending_model \in Command \cup {None}
  /\ pending_restore \in Restore \cup {None}
  /\ pending_ir \in Irs \cup {None}
  /\ staged_swap \in StagedSwap
  /\ staged_restore \in Restore \cup {None}
  /\ restart \in BOOLEAN
  /\ shown \in Identity /\ saved \in ModelOrNone
  /\ shown_rate \in Rates \cup {0}
  /\ ring \in Seq(Command) /\ recovered \in Seq(Command) /\ replay \in Seq(Command)
  /\ parked \in BOOLEAN
  /\ latency \in [stream : {0, 1}, cabsim : {0, 1}]
  /\ phase \in {"inactive", "active", "poisoned"}
  /\ poison_flag \in BOOLEAN /\ poison_restart_requested \in BOOLEAN
  /\ dsp \in Chain \cup {None}
  /\ snapshots \in Nat /\ failures \in Nat /\ panics \in Nat /\ restarts \in Nat
  /\ met \subseteq Hazards

(* Everything that was asked for has been delivered or dropped.            *)
Settled ==
  /\ phase = "active"
  /\ pending_model = None /\ pending_restore = None /\ pending_ir = None
  /\ staged_restore = None /\ staged_swap = NothingStaged
  /\ replay = <<>>
  /\ \A j \in 1..Len(ring) : ~Structural(ring[j])

Running == [model |-> dsp.model, ir |-> dsp.ir]

(* Once everything is delivered, the model and the IR the GUI names are    *)
(* the ones that run: through parked and coalesced commands, a full ring,  *)
(* restores published on their ack, staged swaps and restores, restarts    *)
(* and failed activations, unless one of the Hazards has been met.         *)
ShownIsRunning == (met = {} /\ Settled) => shown = Running

(* Strict Restart Policy: the latency of the running chain changes only    *)
(* when activate() builds it, whatever is queued, staged or replayed.      *)
LatencyHeld ==
  [][phase = "active" /\ phase' = "active" /\ "carried" \notin met
       => latency' = latency]_vars

(* What is staged for a restart while a processor runs has asked the host  *)
(* for one: request_restart() was sent and no activation has honoured it.  *)
StagedAsksForRestart ==
  phase # "inactive" /\ (staged_restore # None \/ staged_swap # NothingStaged)
    => restart

(* A restore sent through the channel is published, replaced by a newer    *)
(* one or meets a dead processor: the retry of a full ring, the parked     *)
(* slot and the wait for the ack never leave it pending for ever.          *)
RestoreSettles ==
  \A k \in 1..MaxOps :
    (pending_restore # None /\ pending_restore.cmd.id = k)
      ~> (phase # "active" \/ pending_restore = None \/ pending_restore.cmd.id # k)

-----------------------------------------------------------------------------
(* What the documentation and the comments promise and the code breaks.    *)

(* The saved project names the model the GUI shows ("UI and disk observe   *)
(* the new state"): a preset restore does not set params.model_path.       *)
SavedModelIsShown == saved = shown.model

(* load_cabsim without a processor leaves the IR to activate(), which      *)
(* rebuilds the shown IR only when it finds no other one.                  *)
InactiveIrRuns ==
  (met \subseteq {"ir_inactive"} /\ Settled) => shown.ir = dsp.ir

(* "The latest user intent prevails": a preset restore drops the model     *)
(* load staged before it, which the GUI shows already.                     *)
StagedModelRuns ==
  (met \subseteq {"staged_dropped"} /\ Settled) => shown.model = dsp.model

(* "A newer IR load/clear replaces ir": activate() drops a staged clear in *)
(* favour of an older staged preset that keeps the IR.                     *)
ClearedIrIsGone ==
  (met \subseteq {"clear_over_restore"} /\ Settled /\ shown.ir = NoAsset)
    => dsp.ir = NoAsset

(* "The UI observes the new state only after the audio thread": a restore  *)
(* or a retained load that was overtaken leaves what is shown and what     *)
(* runs apart for good.                                                    *)
LatestChangeRuns ==
  (met \subseteq {"overtaken"} /\ Settled) => shown = Running

(* A failed activation restores all resources: the chain kept by           *)
(* deactivate() leaves the shared state only into a processor.             *)
KeptChainSurvives ==
  [][phase = "inactive" /\ phase' = "inactive" /\ dsp # None => dsp' # None]_vars

(* "Requests a restart from the host (once per occurrence)": a processor   *)
(* that is poisoned again before housekeeping() has seen it sound is not   *)
(* asked to restart, and stays silent.                                     *)
PoisonAsksForRestart ==
  [][hk = "model" /\ hk' = "load" /\ phase = "poisoned" => restart']_vars

(* "The plugin must not install it mid-stream": a change accepted for the  *)
(* latency of one activation is installed in the next one.                 *)
LatencyNeverShifts ==
  [][phase = "active" /\ phase' = "active" => latency' = latency]_vars

=============================================================================
