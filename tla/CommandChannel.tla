--------------------------- MODULE CommandChannel ---------------------------
(***************************************************************************)
(* The command channel between the CLAP main thread and the audio thread.  *)
(*                                                                         *)
(* Main thread: CommandProducer (coalescing buffer for scalar parameters,  *)
(* a bounded SPSC ring, sequence numbers) and the slot `pending_model`.    *)
(* Audio thread: one drain of the ring per process() callback, run by the  *)
(* engine scheduler RtSwapDrain (external crate; modelled from the hooks   *)
(* and tests of this repository), at most SwapsPerCallback structural      *)
(* installs per drain, one deferred ("parked") slot, and an acknowledgment *)
(* counter `cmd_last_ack` published after every drain.                     *)
(* Lifecycle: activate() seeds the consumer from the ack counter, a failed *)
(* activate() drains the ring in ActivateRollbackGuard::drop, deactivate() *)
(* resolves the parked slot, a panic in process() poisons the processor.   *)
(*                                                                         *)
(* A command is [id, kind, seq]: id is the order in which the main thread  *)
(* issued it (the `generation` of a LoadModel or a RestoreTxn), seq the    *)
(* sequence number the producer gave it when it entered the ring.          *)
(***************************************************************************)
EXTENDS Naturals, Sequences, FiniteSets

CONSTANTS
  QueueCapacity,     \* slots of the ring (CMD_QUEUE_CAPACITY, 256)
  PopsPerCallback,   \* CMD_SWAP_TUNABLES.pops_per_callback (64)
  SwapsPerCallback,  \* CMD_SWAP_TUNABLES.swaps_per_callback (1)
  Kinds,             \* the command kinds the main thread issues
  MaxIssued,         \* bound: commands issued in a behaviour
  MaxFailures,       \* bound: failed activations in a behaviour
  MaxFaults,         \* bound: those and the panics of process() together
  NoCmd              \* an empty slot

(* ClapParamPayload: Params is light, every other kind is structural.      *)
AllKinds == {"Params", "LoadModel", "LoadCabIr", "SetOversample", "RestoreTxn"}

(* The DSP state a command replaces, one entry per independent resource.   *)
Resources == {"params", "model", "ir", "os"}

ASSUME ChannelAssumption ==
  /\ QueueCapacity \in Nat \ {0}
  /\ PopsPerCallback \in Nat \ {0}
  /\ SwapsPerCallback \in Nat \ {0}
  /\ Kinds \subseteq AllKinds
  /\ MaxIssued \in Nat
  /\ MaxFailures \in Nat
  /\ MaxFaults \in Nat

Command == [id : Nat, kind : AllKinds, seq : Nat]
Slot == Command \cup {NoCmd}

ASSUME NoCmdAssumption == NoCmd \notin Command

VARIABLES
  (* main thread *)
  issued,        \* commands issued so far
  coalescing,    \* CoalesceBuffer: the pending Params snapshot, or NoCmd
  held,          \* the command try_push_command is delivering, or NoCmd
  bumping,       \* pushed to the ring, next_seq not yet incremented
  next_seq,      \* CommandScheduler.cmd_next_seq
  pending_model, \* ColdShared.pending_model: a LoadModel to retry, or NoCmd
  in_flight,     \* ColdShared.in_flight_params: a snapshot to retry, or NoCmd
  sized,         \* buffer_size # 0: an activation got as far as publishing it
  (* shared *)
  ring,          \* the SPSC ring, head first
  last_ack,      \* cmd_last_ack
  staged,        \* recovered_commands of the shared state
  (* audio thread *)
  phase,         \* "inactive", "activating", "active", "replaying", "poisoned"
  processed_seq, \* CommandConsumer.processed_seq
  parked,        \* deferred slot of RtSwapDrain
  replay,        \* recovered_commands moved into the processor
  drain,         \* the drain in progress (see IdleDrain)
  rt,            \* id of the command each DSP resource was last set by
  (* history *)
  installed,     \* commands applied
  superseded,    \* commands discarded for a newer one of their kind
  refused,       \* commands handed back to the caller on Full
  lost,          \* commands dropped without being applied or superseded
  failures,      \* failed activations
  panics         \* panics of process()

mainVars == <<issued, coalescing, held, bumping, next_seq, pending_model,
              in_flight, sized>>
audioVars == <<processed_seq, parked, replay, drain, rt>>
histVars == <<installed, superseded, refused, lost>>
faultVars == <<failures, panics>>
vars == <<mainVars, ring, last_ack, staged, phase, audioVars, histVars, faultVars>>

-----------------------------------------------------------------------------
(* Classification (StructuralKind, is_structural, coalesce_key).           *)

IsStructural(c) == c.kind # "Params"

IsCoalescible(c) == c.kind \in {"LoadModel", "LoadCabIr", "SetOversample"}

(* A popped or parked command `old` gives way to a newer head `new`.       *)
Supersedes(new, old) == IsCoalescible(old) /\ new.kind = old.kind

(* The resources an install replaces (apply_structural).                   *)
Touches(c) ==
  CASE c.kind = "Params"        -> {"params"}
    [] c.kind = "LoadModel"     -> {"model"}
    [] c.kind = "LoadCabIr"     -> {"ir"}
    [] c.kind = "SetOversample" -> {"os"}
    [] OTHER                    -> {"params", "model", "ir"}

Installing(r, c) == [x \in Resources |-> IF x \in Touches(c) THEN c.id ELSE r[x]]

(* No drain in progress: the fields of a drain are local to one callback.  *)
IdleDrain == [on |-> FALSE, candidate |-> NoCmd, budget |-> 0, pops |-> 0,
              resolved |-> 0, applied |-> 0]

Drain == [on : BOOLEAN, candidate : Slot, budget : Nat, pops : Nat,
          resolved : Nat, applied : Nat]

SlotSet(s) == IF s = NoCmd THEN {} ELSE {s}
Occupied(s) == IF s = NoCmd THEN 0 ELSE 1
RangeOf(s) == {s[i] : i \in 1..Len(s)}

MainIdle == held = NoCmd /\ ~bumping

(* The main thread may start another call: it is not inside activate().    *)
MainFree == MainIdle /\ phase # "activating"

Init ==
  /\ issued = 0
  /\ coalescing = NoCmd
  /\ held = NoCmd
  /\ bumping = FALSE
  /\ next_seq = 0
  /\ pending_model = NoCmd
  /\ in_flight = NoCmd
  /\ sized = FALSE
  /\ ring = <<>>
  /\ last_ack = 0
  /\ staged = <<>>
  /\ phase = "inactive"
  /\ processed_seq = 0
  /\ parked = NoCmd
  /\ replay = <<>>
  /\ drain = IdleDrain
  /\ rt = [x \in Resources |-> 0]
  /\ installed = {}
  /\ superseded = {}
  /\ refused = {}
  /\ lost = {}
  /\ failures = 0
  /\ panics = 0

-----------------------------------------------------------------------------
(* Main thread: CommandProducer.                                           *)

NewCmd(kind) == [id |-> issued + 1, kind |-> kind, seq |-> 0]

(* Mutation: the push does not look at the room in the ring. *)
RingPushUnbounded(c) ==
  /\ ring' = Append(ring, [c EXCEPT !.seq = next_seq + 1])
  /\ bumping' = TRUE

(* rtrb push, the first half of a delivery. The sequence number the        *)
(* command gets is next_seq + 1; the counter itself moves in BumpSeq.      *)
RingPush(c) ==
  /\ Len(ring) < QueueCapacity
  /\ ring' = Append(ring, [c EXCEPT !.seq = next_seq + 1])
  /\ bumping' = TRUE

(* next_seq.fetch_add(1) after a successful push: the audio thread may     *)
(* already have popped, applied and acknowledged the command.              *)
BumpSeq ==
  /\ bumping
  /\ bumping' = FALSE
  /\ next_seq' = next_seq + 1
  /\ UNCHANGED <<issued, coalescing, held, pending_model, in_flight, sized,
                 ring, last_ack, staged, phase, audioVars, histVars, faultVars>>

(* push_params then force_flush of the snapshot p: it overwrites whatever  *)
(* the coalescing buffer retained; on Full it stays in the buffer and the  *)
(* caller keeps a copy in in_flight_params.                                *)
DeliverParams(p, retained) ==
  /\ superseded' = superseded \cup (SlotSet(coalescing) \ {p})
  /\ \/ /\ RingPush(p)
        /\ coalescing' = NoCmd
        /\ in_flight' = retained
     \/ /\ Len(ring) = QueueCapacity
        /\ coalescing' = p
        /\ in_flight' = p
        /\ UNCHANGED <<ring, bumping>>

(* PluginMainThreadParams::flush: the host or the user changed parameters. *)
FlushParams ==
  /\ MainFree
  /\ "Params" \in Kinds
  /\ issued < MaxIssued
  /\ issued' = issued + 1
  /\ DeliverParams(NewCmd("Params"), in_flight)
  /\ UNCHANGED <<held, next_seq, pending_model, sized, last_ack, staged, phase,
                 audioVars, installed, refused, lost, faultVars>>

(* Housekeeping's retry of the snapshot kept by FlushParams.               *)
FlushInFlightParams ==
  /\ MainFree
  /\ in_flight # NoCmd
  /\ DeliverParams(in_flight, NoCmd)
  /\ UNCHANGED <<issued, held, next_seq, pending_model, sized, last_ack, staged,
                 phase, audioVars, installed, refused, lost, faultVars>>

(* A structural command is built and handed to try_push_command.           *)
BeginPush(kind) ==
  /\ MainFree
  /\ kind # "Params"
  /\ kind \in {"LoadModel", "RestoreTxn"} => sized
  /\ issued < MaxIssued
  /\ issued' = issued + 1
  /\ held' = NewCmd(kind)
  /\ UNCHANGED <<coalescing, bumping, next_seq, pending_model, in_flight, sized,
                 ring, last_ack, staged, phase, audioVars, histVars, faultVars>>

(* A model prepared before the first activation waits in pending_model.    *)
DeferModel ==
  /\ MainFree
  /\ ~sized
  /\ "LoadModel" \in Kinds
  /\ issued < MaxIssued
  /\ issued' = issued + 1
  /\ pending_model' = NewCmd("LoadModel")
  /\ superseded' = superseded \cup SlotSet(pending_model)
  /\ UNCHANGED <<coalescing, held, bumping, next_seq, in_flight, sized, ring,
                 last_ack, staged, phase, audioVars, installed, refused, lost,
                 faultVars>>

(* flush_pending_model from housekeeping: the deferred model is taken out  *)
(* of its slot and handed to try_push_command.                             *)
FlushPendingModel ==
  /\ MainFree
  /\ sized
  /\ pending_model # NoCmd
  /\ held' = pending_model
  /\ pending_model' = NoCmd
  /\ UNCHANGED <<issued, coalescing, bumping, next_seq, in_flight, sized, ring,
                 last_ack, staged, phase, audioVars, histVars, faultVars>>

(* try_push_command, first half: a retained snapshot goes first.           *)
ForceFlushFirst ==
  /\ held # NoCmd
  /\ ~bumping
  /\ coalescing # NoCmd
  /\ RingPush(coalescing)
  /\ coalescing' = NoCmd
  /\ UNCHANGED <<issued, held, next_seq, pending_model, in_flight, sized,
                 last_ack, staged, phase, audioVars, histVars, faultVars>>

(* try_push_command, second half: the command itself.                      *)
PushHeld ==
  /\ held # NoCmd
  /\ ~bumping
  /\ coalescing = NoCmd
  /\ RingPush(held)
  /\ held' = NoCmd
  /\ UNCHANGED <<issued, coalescing, next_seq, pending_model, in_flight, sized,
                 last_ack, staged, phase, audioVars, histVars, faultVars>>

(* try_push_command returns Full: a model is kept in pending_model by its  *)
(* caller, every other command goes back to a caller outside this module.  *)
PushFull ==
  /\ held # NoCmd
  /\ ~bumping
  /\ Len(ring) = QueueCapacity
  /\ held' = NoCmd
  /\ IF held.kind = "LoadModel"
       THEN /\ pending_model' = held
            /\ superseded' = superseded \cup SlotSet(pending_model)
            /\ UNCHANGED refused
       ELSE /\ refused' = refused \cup {held}
            /\ UNCHANGED <<pending_model, superseded>>
  /\ UNCHANGED <<issued, coalescing, bumping, next_seq, in_flight, sized, ring,
                 last_ack, staged, phase, audioVars, installed, lost, faultVars>>

-----------------------------------------------------------------------------
(* Audio thread: process_events and the RtSwapDrain protocol.              *)

(* Consuming or applying n sequence slots; hooks of the SwapRing surface.  *)
RollbackSkipped(seq) == seq          \* mutation: parking keeps the pop counted
RollbackLastPop(seq) == seq - 1
AdvanceResolvedSkipped(seq) == seq   \* mutation: the resolved slot is not consumed
AdvanceResolved(seq) == seq + 1

(* RtSwapHandler::install of c: one more slot resolved, the DSP replaced.  *)
Install(c) ==
  /\ rt' = Installing(rt, c)
  /\ installed' = installed \cup {c}

(* A processor that processes: the host may call process() on it.          *)
Alive == phase \in {"active", "replaying"}

(* replay_recovered_commands: the commands a failed activation recovered   *)
(* are installed in order before the first drain, with no budget and no    *)
(* ack (the rollback acknowledged them). NoCmd: a model taken out. One     *)
(* callback replays them all: "replaying" until the last one.              *)
ReplayRecovered ==
  /\ Alive
  /\ ~drain.on
  /\ replay # <<>>
  /\ phase' = IF Len(replay) = 1 THEN "active" ELSE "replaying"
  /\ IF Head(replay) = NoCmd THEN UNCHANGED <<rt, installed>>
     ELSE Install(Head(replay))
  /\ replay' = Tail(replay)
  /\ UNCHANGED <<mainVars, ring, last_ack, staged, processed_seq, parked, drain,
                 superseded, refused, lost, faultVars>>

(* Mutations: the parked command is not charged; no budget for the window. *)
BudgetNotCharged(n) == SwapsPerCallback
BudgetStarved(n) == 0

(* The budget left to the window once phase 0 applied n parked commands.    *)
BudgetAfterPhase0(n) == SwapsPerCallback - n

(* Phase 0 of a drain: the parked command resolves first, applied under    *)
(* the budget or given up for a newer head of its kind.                    *)
BeginDrain ==
  /\ phase = "active"
  /\ ~drain.on
  /\ replay = <<>>
  /\ LET newer == ring # <<>> /\ parked # NoCmd /\ Supersedes(Head(ring), parked)
         apply == IF parked # NoCmd /\ ~newer THEN 1 ELSE 0
     IN /\ drain' = [on |-> TRUE, candidate |-> NoCmd,
                     budget |-> BudgetAfterPhase0(apply), pops |-> 0,
                     resolved |-> Occupied(parked), applied |-> apply]
        /\ IF apply = 1 THEN Install(parked) ELSE UNCHANGED <<rt, installed>>
        /\ superseded' = superseded \cup (IF newer THEN {parked} ELSE {})
        /\ processed_seq' = IF parked = NoCmd THEN processed_seq
                            ELSE AdvanceResolved(processed_seq)
        /\ parked' = NoCmd
  /\ UNCHANGED <<mainVars, ring, last_ack, staged, phase, replay, refused, lost,
                 faultVars>>

(* Phase 1: one pop of the bounded coalescing window.                      *)
CanPop == drain.on /\ ring # <<>> /\ drain.pops < PopsPerCallback

PopHead ==
  /\ CanPop
  /\ ring' = Tail(ring)
  /\ processed_seq' = processed_seq + 1

(* A Params snapshot installs inline and never waits for the candidate.    *)
PopLight ==
  /\ PopHead
  /\ ~IsStructural(Head(ring))
  /\ Install(Head(ring))
  /\ drain' = [drain EXCEPT !.pops = @ + 1, !.resolved = @ + 1]
  /\ UNCHANGED <<mainVars, last_ack, staged, phase, parked, replay, superseded,
                 refused, lost, faultVars>>

(* The first structural head becomes the candidate of the window.          *)
PopFirst ==
  /\ PopHead
  /\ IsStructural(Head(ring))
  /\ drain.candidate = NoCmd
  /\ drain.budget > 0
  /\ drain' = [drain EXCEPT !.candidate = Head(ring), !.pops = @ + 1]
  /\ UNCHANGED <<mainVars, last_ack, staged, phase, parked, replay, rt, histVars,
                 faultVars>>

(* Mutation: of the candidate and a newer head the older one is kept. *)
PopSupersedingKeepsOlder ==
  /\ PopHead
  /\ drain.candidate # NoCmd
  /\ Supersedes(Head(ring), drain.candidate)
  /\ superseded' = superseded \cup {Head(ring)}
  /\ drain' = [drain EXCEPT !.pops = @ + 1, !.resolved = @ + 1]
  /\ UNCHANGED <<mainVars, last_ack, staged, phase, parked, replay, rt, installed,
                 refused, lost, faultVars>>

(* A newer head of the candidate's kind replaces it; the old one is        *)
(* discarded through the GC.                                               *)
PopSuperseding ==
  /\ PopHead
  /\ drain.candidate # NoCmd
  /\ Supersedes(Head(ring), drain.candidate)
  /\ superseded' = superseded \cup {drain.candidate}
  /\ drain' = [drain EXCEPT !.candidate = Head(ring), !.pops = @ + 1,
                            !.resolved = @ + 1]
  /\ UNCHANGED <<mainVars, last_ack, staged, phase, parked, replay, rt, installed,
                 refused, lost, faultVars>>

(* A head of another kind: the candidate is installed while the budget     *)
(* lasts and the head takes its place.                                     *)
PopFlushing ==
  /\ PopHead
  /\ IsStructural(Head(ring))
  /\ drain.candidate # NoCmd
  /\ ~Supersedes(Head(ring), drain.candidate)
  /\ drain.budget > 0
  /\ Install(drain.candidate)
  /\ drain' = [drain EXCEPT !.candidate = Head(ring), !.budget = @ - 1,
                            !.pops = @ + 1, !.resolved = @ + 1, !.applied = @ + 1]
  /\ UNCHANGED <<mainVars, last_ack, staged, phase, parked, replay, superseded,
                 refused, lost, faultVars>>

(* The window closes: empty ring, pop cap, or a head the budget blocks.    *)
WindowClosed ==
  CanPop => /\ IsStructural(Head(ring))
            /\ drain.budget = 0
            /\ drain.candidate # NoCmd => ~Supersedes(Head(ring), drain.candidate)

(* Mutation: after_drain counts one slot too many. *)
AckAfterDrainPlusOne(ack, resolved) == ack + resolved + 1

(* after_drain: the ack advances by what this drain resolved.              *)
AckAfterDrain(ack, resolved) == ack + resolved

(* Phase 2, budget left: the candidate is installed; then after_drain.     *)
EndDrain ==
  /\ drain.on
  /\ WindowClosed
  /\ drain.candidate = NoCmd \/ drain.budget > 0
  /\ IF drain.candidate = NoCmd THEN UNCHANGED <<rt, installed>>
     ELSE Install(drain.candidate)
  /\ last_ack' = AckAfterDrain(last_ack, drain.resolved + Occupied(drain.candidate))
  /\ drain' = IdleDrain
  /\ UNCHANGED <<mainVars, ring, staged, phase, processed_seq, parked, replay,
                 superseded, refused, lost, faultVars>>

(* Phase 2, budget spent: the candidate parks and its slot is rolled back. *)
EndDrainParking ==
  /\ drain.on
  /\ WindowClosed
  /\ drain.candidate # NoCmd
  /\ drain.budget = 0
  /\ parked' = drain.candidate
  /\ processed_seq' = RollbackLastPop(processed_seq)
  /\ last_ack' = AckAfterDrain(last_ack, drain.resolved)
  /\ drain' = IdleDrain
  /\ UNCHANGED <<mainVars, ring, staged, phase, replay, rt, histVars, faultVars>>

(* catch_unwind in process(): the processor is poisoned; the candidate,    *)
(* the count of resolved slots and a replay in progress unwind with it.    *)
Panic ==
  /\ Alive
  /\ failures + panics < MaxFaults
  /\ panics' = panics + 1
  /\ phase' = "poisoned"
  /\ LET unwound == IF phase = "replaying" THEN RangeOf(replay) ELSE {}
     IN lost' = lost \cup ((unwound \cup {drain.candidate}) \ {NoCmd})
  /\ replay' = IF phase = "replaying" THEN <<>> ELSE replay
  /\ drain' = IdleDrain
  /\ UNCHANGED <<mainVars, ring, last_ack, staged, processed_seq, parked, rt,
                 installed, superseded, refused, failures>>

-----------------------------------------------------------------------------
(* Lifecycle (main thread, audio thread stopped).                          *)

(* deactivate: a parked command is dropped, its slot consumed and acked;   *)
(* recovered commands not replayed yet go with the processor.              *)
Deactivate ==
  /\ phase \in {"active", "poisoned"}
  /\ MainIdle
  /\ ~drain.on
  /\ phase' = "inactive"
  /\ IF parked = NoCmd THEN UNCHANGED <<processed_seq, last_ack>>
     ELSE /\ processed_seq' = AdvanceResolved(processed_seq)
          /\ last_ack' = processed_seq'
  /\ lost' = lost \cup ((RangeOf(replay) \cup {parked}) \ {NoCmd})
  /\ parked' = NoCmd
  /\ replay' = <<>>
  /\ UNCHANGED <<mainVars, ring, staged, drain, rt, installed, superseded, refused,
                 faultVars>>

(* activate(), once buffer_size is published: flush_pending_model hands    *)
(* the deferred model to try_push_command before the processor is built.   *)
BeginActivate ==
  /\ phase = "inactive"
  /\ MainIdle
  /\ phase' = "activating"
  /\ sized' = TRUE
  /\ held' = pending_model
  /\ pending_model' = NoCmd
  /\ UNCHANGED <<issued, coalescing, bumping, next_seq, in_flight, ring, last_ack,
                 staged, audioVars, histVars, faultVars>>

(* Mutation: a new consumer counts from zero. *)
ConsumerSeedZero(ack) == 0

(* CommandConsumer::new starts counting at the acknowledged sequence.      *)
ConsumerSeed(ack) == ack

(* The rest of activate(): CommandConsumer::new seeds processed_seq from   *)
(* the ack counter and the recovered commands move into the processor.     *)
FinishActivate ==
  /\ phase = "activating"
  /\ MainIdle
  /\ phase' = "active"
  /\ processed_seq' = ConsumerSeed(last_ack)
  /\ replay' = staged
  /\ staged' = <<>>
  /\ UNCHANGED <<mainVars, ring, last_ack, parked, drain, rt, histVars, faultVars>>

(* Mutations: recovered commands staged back to front; drained models kept *)
(* among the recovered commands as well.                                   *)
RestageReversed(drained, already) ==
  [i \in 1..Len(drained) |->
     LET c == drained[Len(drained) + 1 - i]
     IN IF c.kind = "LoadModel" THEN NoCmd ELSE c] \o already

RestageWithModels(drained, already) == drained \o already

(* The order in which a rollback leaves the recovered commands: the ones   *)
(* it drained, then the ones already staged. A model leaves an empty slot. *)
Restage(drained, already) ==
  [i \in 1..Len(drained) |->
     IF drained[i].kind = "LoadModel" THEN NoCmd ELSE drained[i]] \o already

(* Of the drained models and the one in pending_model the newest is kept.  *)
KeepNewest(models) ==
  \/ /\ models = {}
     /\ pending_model' = NoCmd
     /\ UNCHANGED superseded
  \/ \E m \in models :
       /\ \A n \in models : n.id <= m.id
       /\ pending_model' = m
       /\ superseded' = superseded \cup (models \ {m})

(* A fallible stage of activate() fails and ActivateRollbackGuard::drop    *)
(* empties the ring: the newest LoadModel to pending_model, the rest to    *)
(* recovered_commands; every drained slot counts as acknowledged.          *)
ActivateFails ==
  /\ phase = "inactive"
  /\ MainIdle
  /\ failures < MaxFailures /\ failures + panics < MaxFaults
  /\ failures' = failures + 1
  /\ sized' \in {sized, TRUE}
  /\ KeepNewest({c \in RangeOf(ring) : c.kind = "LoadModel"} \cup SlotSet(pending_model))
  /\ staged' = Restage(ring, staged)
  /\ last_ack' = last_ack + Len(ring)
  /\ ring' = <<>>
  /\ UNCHANGED <<issued, coalescing, held, bumping, next_seq, in_flight, phase,
                 audioVars, installed, refused, lost, panics>>

-----------------------------------------------------------------------------
MainNext ==
  \/ BumpSeq \/ FlushParams \/ FlushInFlightParams
  \/ \E kind \in Kinds : BeginPush(kind)
  \/ DeferModel \/ FlushPendingModel \/ ForceFlushFirst \/ PushHeld \/ PushFull

DrainNext ==
  \/ ReplayRecovered \/ BeginDrain
  \/ PopLight \/ PopFirst \/ PopSuperseding \/ PopFlushing
  \/ EndDrain \/ EndDrainParking

LifecycleNext ==
  Deactivate \/ BeginActivate \/ FinishActivate \/ ActivateFails

Next == MainNext \/ DrainNext \/ Panic \/ LifecycleNext

Spec == Init /\ [][Next]_vars

(* The host keeps calling process() while the processor is active, so a    *)
(* callback that can run runs; the main thread finishes a push it began.   *)
FairSpec == Spec /\ WF_vars(DrainNext) /\ WF_vars(BumpSeq)

-----------------------------------------------------------------------------
(* Properties.                                                             *)

(* Types of the state.                                                     *)
TypeOK ==
  /\ issued \in Nat /\ next_seq \in Nat /\ last_ack \in Nat /\ processed_seq \in Nat
  /\ failures \in Nat /\ panics \in Nat
  /\ bumping \in BOOLEAN /\ sized \in BOOLEAN
  /\ coalescing \in Slot /\ held \in Slot /\ pending_model \in Slot
  /\ in_flight \in Slot /\ parked \in Slot
  /\ ring \in Seq(Command) /\ Len(ring) <= QueueCapacity
  /\ staged \in Seq(Slot) /\ replay \in Seq(Slot)
  /\ phase \in {"inactive", "activating", "active", "replaying", "poisoned"}
  /\ drain \in Drain
  /\ rt \in [Resources -> Nat]
  /\ installed \subseteq Command /\ superseded \subseteq Command
  /\ refused \subseteq Command /\ lost \subseteq Command

(* Commands pushed to the ring and neither installed nor given up.         *)
Pushed == next_seq + (IF bumping THEN 1 ELSE 0)
Unresolved == Len(ring) + Occupied(parked) + Occupied(drain.candidate)

(* The ack counter never covers a command that still sits in the ring, in  *)
(* the parked slot or in the window of the drain in progress: is_acked     *)
(* (command_scheduler.rs) is what publishes a restored state.              *)
AckNeverAhead == last_ack + drain.resolved + Unresolved <= Pushed

(* While a processor is alive the consumer's own count is the one the      *)
(* handler reproduces (events.rs: "last_ack + resolved reproduces the      *)
(* consumer's processed_seq exactly").                                     *)
AckReproducesProcessedSeq ==
  Alive =>
    processed_seq = last_ack + drain.resolved + Occupied(drain.candidate)

(* Gapless: without a panic every pushed command is either acknowledged or *)
(* still in flight, so no waiter is ever stranded.                         *)
AckGapless ==
  panics = 0 => last_ack + drain.resolved + Unresolved = Pushed

(* The ack counter never goes back, whatever deactivate, a rollback or a   *)
(* panic did to the consumer it is published from.                         *)
AckMonotone == [][last_ack' >= last_ack]_vars

(* Where a command can be; a LoadModel or any other structural command is  *)
(* always in exactly one of these places: no double free, no leak.         *)
Places ==
  [ring |-> RangeOf(ring), parked |-> SlotSet(parked), held |-> SlotSet(held),
   candidate |-> SlotSet(drain.candidate), pending |-> SlotSet(pending_model),
   staged |-> RangeOf(staged) \ {NoCmd}, replay |-> RangeOf(replay) \ {NoCmd},
   installed |-> installed, superseded |-> superseded, refused |-> refused,
   lost |-> lost]

Conservation ==
  LET at == UNION {{<<p, c>> : c \in Places[p]} : p \in DOMAIN Places}
      homes == {x \in at : IsStructural(x[2])}
      moving == SlotSet(coalescing) \cup SlotSet(in_flight)
  IN /\ Cardinality(homes) = Cardinality({x[2].id : x \in homes})
     /\ 1..issued \subseteq {x[2].id : x \in at} \cup {c.id : c \in moving}

(* Commands past the push: applied, on their way, or taken down with the   *)
(* processor that held them (what a panic or deactivate() drops is the     *)
(* subject of AckedMeansResolved, not of this property).                   *)
Delivered ==
  RangeOf(ring) \cup SlotSet(parked) \cup SlotSet(drain.candidate)
  \cup ((RangeOf(staged) \cup RangeOf(replay)) \ {NoCmd}) \cup installed \cup lost

(* A snapshot or a model the main thread keeps until the ring takes it;    *)
(* any other command it holds may still be refused.                        *)
Retained ==
  {d \in SlotSet(coalescing) \cup SlotSet(held) \cup SlotSet(pending_model) :
     d.kind \in {"Params", "LoadModel"}}

(* d reaches the audio thread after c. A model is ordered by its delivery, *)
(* not by its issue: one that waits in pending_model for room in the ring  *)
(* is pushed behind models chosen after it. Every other kind keeps the     *)
(* order in which the main thread issued it.                               *)
Follows(d, c) ==
  IF c.kind = "LoadModel" THEN d.seq > c.seq \/ d \in Retained ELSE d.id > c.id

(* A command of any kind is discarded only for one of its own kind that    *)
(* follows it and that nothing refuses, or discards in turn without a      *)
(* further follower: the last of a coalesced burst takes effect unless its *)
(* processor goes down with it. A RestoreTxn is never discarded            *)
(* (StructuralKind::is_coalescible).                                       *)
LatestWins ==
  \A c \in superseded :
    /\ c.kind # "RestoreTxn"
    /\ \E d \in Delivered \cup Retained : d.kind = c.kind /\ Follows(d, c)

(* At most SwapsPerCallback structural installs per drain (the budget the  *)
(* callback shares), phase 0 and the window together.                      *)
BudgetHolds == drain.applied <= SwapsPerCallback

(* A cabinet IR is never replaced by an older one, through deferral,       *)
(* coalescing, deactivation and one failed activation.                     *)
NoStaleIr == [][rt'["ir"] >= rt["ir"]]_vars

(* Every command in the ring of an active processor is acknowledged after  *)
(* finitely many callbacks, whatever coalesces, parks or overtakes it,     *)
(* unless the processor stops being active or a panic loses the count: an  *)
(* ack that lags behind the pushes always catches up.                      *)
EveryPushIsAcked ==
  (Alive /\ last_ack < Pushed) ~> (last_ack = Pushed \/ ~Alive \/ panics > 0)

-----------------------------------------------------------------------------
(* Statements of the repository that the code does not keep.               *)

(* shared.rs: cmd_last_ack is the "last sequence fully drained and         *)
(* processed by the audio thread"; events.rs: "the ack never covers an     *)
(* unapplied payload". No command the channel dropped is acknowledged.     *)
AckedMeansResolved == \A c \in lost : c.seq > last_ack

(* rollback.rs: non-model payloads are "staged in their original order for *)
(* replay by the next activation".                                         *)
RecoveredInOrder ==
  \A i, j \in 1..Len(staged) :
    i < j /\ staged[i] # NoCmd /\ staged[j] # NoCmd => staged[i].id < staged[j].id

(* rollback.rs: "recover the ring without losing commands": a recovered    *)
(* command leaves the replay list of the processor by being installed.     *)
RecoveredIsReplayed ==
  [][RangeOf(replay) \ RangeOf(replay') \subseteq installed' \cup {NoCmd}]_vars

(* state.rs: while a command is parked "everything still in the ring is    *)
(* causally after this command, so FIFO order is preserved".               *)
ParkedIsNotOvertaken == parked # NoCmd => \A c \in installed : c.id < parked.id

(* command_scheduler.rs: of a burst of parameter changes "only the latest  *)
(* value survives".                                                        *)
LatestParamsSurvive == [][rt'["params"] >= rt["params"]]_vars

(* state.rs: model_generation is the "monotonic generation of the          *)
(* currently active model identity".                                       *)
ModelGenerationMonotone == [][rt'["model"] >= rt["model"]]_vars

=============================================================================
