# NAM-Plug: TLA+ models and proofs

NAM-Plug is a CLAP audio plugin written in Rust. Its difficult part is not the
signal processing (floats, done by the engine crate `neural_amp_modeler_rs`) but
the coordination around it: a real-time audio thread that must neither allocate
nor lock, a main thread driven by the host, background workers, and a host that
may deactivate, re-activate or destroy an instance at any time. This directory
models that coordination from the code under `src/src/clap`, checks it with TLC
on small instances and proves the central results with TLAPS for all instances.

## 1. Inventory

Threads: **main** (lifecycle, state, parameters flush, `housekeeping()` from a
watchdog timer and from `request_callback`), **audio** (`process()`), **GUI
worker** (`nam-slint-gui`), **model loader** (`nam-model-loader`), file-dialog
threads, and a *reaper* for threads that outlive a bounded join.

| Component | State it keeps | Operations | What must hold |
|---|---|---|---|
| Command channel (`plugin/command_scheduler.rs`, `processor/events.rs`, `processor/rollback.rs`, `plugin/shared.rs`) | coalescing buffer, SPSC ring, `cmd_next_seq`, `cmd_last_ack`, consumer's `processed_seq`, parked slot, `pending_model`, `in_flight_params`, `recovered_commands` | push, flush, drain (3 phases), park, replay, rollback | ack exact, gapless and monotone; every command in one place; coalescing keeps what was delivered last; one structural install per drain |
| Activation (`processor/mod.rs`, `deactivated.rs`, `rollback.rs`) | staged swap, deactivated DSP state, channels in the shared state, poison latch | activate, fail, deactivate, panic | nothing lost or doubled when activation fails at any stage |
| Host call quiescence (`plugin/quiescence.rs`) | `active`, `in_flight`, mutex, condition variable, for log and for calls | enter, guard drop, quiesce | no call into the host after `destroy()`; no lost wake-up |
| Teardown (`plugin/main_thread/mod.rs`, `extensions/gui.rs`) | position in `drop`, panic guard, alive fence, log sink | drop, unwinding | barriers run on every path |
| State restore (`extensions/state_transaction/*`, `extensions/state.rs`) | `pending_restore`, transaction, generations | build, deliver, publish on ack, local commit | what is shown is what is applied |
| Model loader (`main_thread/model_loader.rs`, `housekeeping.rs`, `load.rs`) | request generation, result slot, rebuild slots | request, build, publish, take | no stale result is installed |
| GC cascade (`processor/gc.rs`, `main_thread/mod.rs`) | ring, 16 parking slots, overflow | retire, sweep, final drain | freed off the audio thread, exactly once |
| GUI (`gui/*`, `extensions/gui.rs`) | window, generation, worker channel | create, show, hide, close, destroy | a stale close does not close the next window |
| Process loop and DSP (`processor/dsp/*`, `processor/params.rs`) | buffers, crossfades, delay line, sub-block events | process | slicing covers the block once |
| Pre-warm (`prewarm_policy.rs`) | budget, starvation count | per callback | one callback per starvation |
| CLAP surface (`extensions/*`, `entry.rs`, `factory/*`) | small flags | getters, setters | |
| Receipts, tools, benches, packaging | files | | outside the plugin's run time |

How they interact: the main thread pushes boxed commands through the channel and
retries from two one-element slots; the audio thread drains, retires resources to
the GC and answers through atomics (`cmd_last_ack`, status flags); lifecycle calls
move the consumer end, the DSP state and recovered commands through mutexes of the
shared state; workers publish results in slots and call `request_callback` through
the quiescence barrier. `PROJECT.json` lists the hazards each part is exposed to.

## 2. The modules

| Module | Subject | Composed with | Proofs |
|---|---|---|---|
| `CommandChannel` (3) | ring, drain, ack, retry slots, rollback | the contract the others rely on | `CommandChannelProofs` |
| `HostQuiescence` (4) | both host-call coordinators and the teardown | implements `HostCallBarrier` | `HostQuiescenceProofs` |
| `AssetIdentity` (5) | which model and IR run and are shown, which model is saved | uses the outcome of the channel | `AssetIdentityProofs` |
| `ModelLoader` (6) | the asynchronous loads | hands its loads to the commit of section 5 | `LoaderProofs` |
| `AdaptiveRebuild` (7) | the slimmable rebuild | implements `RunningModel`; shares worker and ticks with section 6 | `LoaderProofs` |
| `BlockScheduler` (8) | events of a block, slicing, crossfade | one block of section 10 | `BlockSchedulerProofs` |
| `ParamSync` (9) | parameters between GUI, host, audio, main thread | snapshots travel through section 3 | `ParamSyncProofs` |
| `ProcessCallback` (10) | poison latch, amortised reset, pre-warm budget | around section 8 | `ProcessCallbackProofs` |
| `GuiLifecycle` (11) | the window, its worker, its event loop | the teardown of section 4 closes it | `GuiLifecycleProofs` |

Modules named `MC...` hold the values the configurations give to constants. A
configuration belongs to the run of its name in `PROJECT.json`; the others state what
the code does not keep, are expected to end in a counterexample, and are named at the
property they show.

What is left to do: the oversampling restart handshake and audio epochs in
`AssetIdentity`; an ordered, acknowledged channel as an abstract specification that
`CommandChannel` implements and `AssetIdentity` uses (today the composition is by the
agreed outcome only). Every invariant, action property and refinement a passing run checks
is proved; what only TLC checks is liveness and the absence of deadlock.

Where a handler filters a queue or applies a list of events, the model writes a recursive
function (`WithoutGui`, `WithoutModels`, `ApplyAll`) and not `SelectSeq` or a fold: the
library states its facts about those and its induction theorems with operator parameters,
which the provers cannot instantiate. What such a function returns is proved by induction:
the lemmas `Least` and `Induct` (a non-empty set of naturals has a least member; a set
closed under successor holds them all) follow from the well-founded order of the
naturals and speak of sets, not of operators.

## 3. CommandChannel

### State and actions

| Model | Code |
|---|---|
| `coalescing` | `CoalesceBuffer`: one pending `Params` snapshot (field-wise merge abstracted to "newest") |
| `ring`, `next_seq`, `bumping` | rtrb ring; `try_push_command` pushes *before* it increments `cmd_next_seq`, so a push is two steps |
| `held` | the command a structural push is delivering: a retained snapshot is force-flushed first |
| `last_ack`, `processed_seq` | the published counter and the consumer's private one |
| `parked`, `drain` | deferred slot and the locals of one `RtSwapDrain::drain` |
| `pending_model`, `in_flight` | the retry slots after `Full` |
| `staged`, `replay` | `recovered_commands` in the shared state and in the processor |
| `rt` | identity (`id`) of the command that last set each DSP resource |
| `installed`, `superseded`, `refused`, `lost` | history: where a command ended |

`DeliverParams`, `FlushParams`, `FlushInFlightParams`, `BeginPush`, `DeferModel`,
`FlushPendingModel`, `ForceFlushFirst`, `PushHeld`, `PushFull`, `BumpSeq` are the
main thread; `ReplayRecovered`, `BeginDrain` (phase 0: the parked command),
`PopLight`, `PopFirst`, `PopSuperseding`, `PopFlushing` (phase 1, one pop per
step, so that the main thread interleaves), `EndDrain` and `EndDrainParking`
(phase 2 with `after_drain`) the audio thread; `Deactivate`, `BeginActivate`,
`FinishActivate`, `ActivateFails`, `Panic` the lifecycle. During `activate()` the
main thread is inside the call, so only its own pushes run (`MainFree`).

Abstractions: payloads are their kind and identity; a `RestoreTxn` sets
parameters, model and IR (its oversampling part is of no concern to these
properties). `RtSwapDrain` belongs to the engine crate and is modelled from the
hooks this repository implements for it (`SwapRing`, `RtSwapHandler`) and from
`processor_swap_handler_test.rs`. The slimmable ring shares the budget but not the
ring and is left to a later module.

### Run

`channel` checks `AckGapless`, `LatestWins`, `AckReproducesProcessedSeq`,
`Conservation`, `NoStaleIr` and, under fairness, `EveryPushIsAcked`, with all five kinds
of command mixed: parameters, model loads, IR swaps, oversampling changes and restore
transactions.

`LatestWins` holds of every kind: whatever is coalesced away (a snapshot in the buffer, a
model in `pending_model`, a popped command under the head of the ring) has a follower of
its own kind that is past the push, or kept on the main thread until the ring takes it,
and a `RestoreTxn` is never coalesced away. What "follows" means differs by kind, because
the code does not treat them alike. Snapshots, IRs and oversampling changes follow in the
order they were issued. Models follow in the order they reach the ring: a model refused by
a full ring waits in `pending_model`, is pushed behind models chosen after it, and then
coalesces those away (the finding `ModelGenerationMonotone` below is this case). The
property says that the last command of a burst in the ring takes effect; a command that a
panic or `deactivate()` takes down with the processor counts as delivered here and is the
subject of `AckedMeansResolved`.

Bounds: ring of 3, window of 2 pops, budget of 1, 4 commands, one fault (`MaxFaults`: a
failed activation or a panic); 1.15 million states. The window is smaller than the ring
(pop cap and truncation happen), the ring can be full (`Full`, both retry slots), 4
commands allow a parked candidate with a window behind it and a retry in front, a failure
lets a rollback meet commands in the ring, a deferred model and an earlier processor, a
panic leaves a poisoned one whose successor takes the same ring. The kinds fare in every
way the code knows: light or structural, coalescing or not, staged or rejected by a failed
activation. A failure and a panic in one behaviour (`MaxFaults = 2`, 3.15 million states,
some minutes) satisfy the same properties and are left out for time: `EveryPushIsAcked` is
released by the panic anyway, and the others are proved for any number of panics. Deadlock
is not checked: the bounds stop every behaviour.

Fairness (`FairSpec`): weak fairness of the drain (the host keeps calling
`process()` while active) and of `BumpSeq` (a push that began ends). Nothing is
assumed of the lifecycle or of retries; `EveryPushIsAcked` is released when the
processor stops being active or a panic loses the count of a drain.

### What the code does not keep

Each of these properties, defined at the end of the module, states what a comment
of the repository says and is violated. Two are plain bugs with a configuration of
their own; the others are seen by giving the constants below and the property to
`recovered_dropped.cfg` (as an `INVARIANT`; `ModelGenerationMonotone` as a `PROPERTY`).

| Property | Shown by | Behaviour |
|---|---|---|
| `RecoveredIsReplayed` | `recovered_dropped.cfg` | activate, then deactivate before the first callback, drops what was recovered |
| `LatestParamsSurvive` | run `stale_params` | a retried old snapshot is delivered after a newer one |
| `AckedMeansResolved` | `MaxFailures = 0` | `deactivate()` (processor/mod.rs:1425) drops the parked command and acknowledges it; a parked restore is then published as applied, although `cmd_last_ack` is the "last sequence fully drained and processed" (shared.rs:757) |
| `RecoveredInOrder` | `MaxFailures = 2`, `MaxFaults = 2` | a second failed activation (rollback.rs:129) stages its commands in front of the older ones, against "staged in their original order" (rollback.rs:116) |
| `ParkedIsNotOvertaken` | `QueueCapacity = 4`, `PopsPerCallback = 4` | a snapshot behind a structural command installs first and the command parks, against the FIFO order of state.rs:291 (a test accepts this order) |
| `ModelGenerationMonotone` | `Kinds <- ModelOnly`, `QueueCapacity = 4` | a model retained on a full ring (main_thread/mod.rs:395) is delivered after a newer one |

### Proofs (`CommandChannelProofs`)

For every capacity, window, budget and bound, from `ChannelAssumption` and
`NoCmdAssumption`. The invariants the runs check are not inductive: `IInv` adds
the shape of a drain (applied plus remaining budget equals the budget, no parked
slot while a drain runs, no drain unless active) and the ledger, an equation
between `next_seq`, the ring, the candidate, the parked slot, the resolved count
and `last_ack` which is an inequality once a panic has lost a count. From
`LedgerInvariant` follow `TypesHold`, `AckIsNeverAhead`, `AckIsGapless`,
`AckIsProcessedSeq`, `BudgetIsHeld` and, as an action property, `AckIsMonotone`.
The type invariant, `AckNeverAhead`, `BudgetHolds` and `AckMonotone` are in no run:
they are proved for every instance.

`HomesInvariant` follows the commands themselves. Its invariant `CInv` says that every
structural command is in one place (`Places`: a retry slot, the push, the ring, the candidate, the
parked slot, the two recovery queues, one of the four ends) and once there (`Apart`,
`Once`), and that every command issued is in some place or is the snapshot waiting to be merged
(`Covered`).
`Conservation` is the case in which nothing is lost: `NothingIsLostOrDoubled`. On top of
it, `LatestCommandWins` proves `LatestWins` for all kinds. Its invariant `OInv` orders the
line of parked slot, candidate and ring by sequence number and, for the kinds a retry does
not reorder, by identity; it says that no command carries a number not yet given out,
that the buffered snapshot is the one kept for the retry, and that every discarded command
has a follower (`Outdone`). The argument is one lemma, `StillOutdone`: when each
follower has a successor after a step, a discarded command stays outdone; each action
then only has to name the successor: the command itself, moved on, or the one that discards it.

`IrIsNeverStale` proves `NoStaleIr` from the order in which the IRs stand in the line from
the recovery queues through the parked slot and the window to the ring (`LineInv`). It
has the hypothesis `MaxFailures <= 1`: with a second failed activation the code stages
newer commands in front of older ones, the finding `RecoveredInOrder` above, and the
property is then false. With one failure the number of pushes, panics, reactivations and
the sizes are free. Only `EveryPushIsAcked`, a liveness property, is model-checked and not
proved.

## 4. HostQuiescence

### State and actions

One record of (`active`, `in_flight`, `mutex`) per coordinator; background threads
walk through `idle`, `checking`, `admitted`, `inside`, `leaving`, `waking`
(`enter`, the host call, the guard's drop, `notify_all` after the unlock); the main
thread walks through the steps of `NamClapMainThread::drop` and, inside
`quiesce_state`, through the timed wait, the stall diagnostic and the unbounded
wait. `enter` is several steps because it reads the alive fence, which is outside
the mutex. A panic in a teardown step continues in `TeardownQuiescenceGuard`
(fence, both barriers) and skips the rest. The diagnostic is logged with the mutex
free and, while the sink is registered, comes back through the log coordinator.
Threads never stop: whatever the reaper keeps goes on knocking.

Not modelled: mutex poisoning (`enter` then returns `None`, `quiesce` recovers), a
panic inside the first barrier of the guard (it would skip the second), a host
callback that needs the main thread to return (documented as
GAP-HOST-LOG-TEARDOWN-BOUND: `destroy()` then blocks), host calls nested in one
thread, and the joins.

### Run and proofs

`quiescence` checks `NoCallAfterDestroy`, `NoCallThroughTornDown`, the absence of
deadlock, `DestroyReturns` and `ImplementsBarrier` with three threads, which allow one
inside, one leaving and one knocking on the same coordinator while the other barrier is
under way (37,782 states, no symmetry because of the temporal properties).
Fairness: strong fairness of the main thread's own steps and
of each thread that has begun a call (a host call returns; a mutex freed again and
again is eventually obtained). Timeouts and spurious wake-ups have no fairness, so
`DestroyReturns` rests on `notify_all` alone.

`HostCallBarrier` is what the host relies on: calls start behind an open gate, a
gate once shut stays shut, `destroy()` returns only with shut gates and nobody
inside. `HostQuiescence` implements it (`gate <- active`, `inside <-` the
coordinator of a thread in a call, `returned <- step = "destroyed"`).

`HostQuiescenceProofs` proves, for every finite set of threads, the inductive
invariant (`in_flight[c]` is the cardinality of the counted threads, an admitted
thread holds the mutex of an open gate, the main thread decides under the mutex,
each step has its barriers behind it), from it `TypesHold`, `NoCallOutlivesDestroy`,
`TornDownIsQuiet`, `BarrierStaysShut` (for `BarrierIsFinal`), and the refinement `ProtocolIsBarrier`.
`DestroyReturns` (liveness) is model-checked only.

## 5. AssetIdentity

Which model and which IR run, which ones the GUI names, and which model `save()`
writes. The code keeps these apart and each handler updates its own subset.

### State and actions

| Model | Code |
|---|---|
| `shown`, `shown_rate` | `ui_model_name`, `ir_path` / `ir_raw_samples`, `model_sample_rate` |
| `saved` | `params.model_path`; `save()` takes the IR from `ir_path` (`snapshot_params()`, main_thread/mod.rs:519), so that the saved IR is `shown.ir` |
| `dsp`, `latency` | the chain of the processor (or `deactivated_dsp`), `current_stream_latency` and `current_cabsim_latency` |
| `pending_model`, `pending_restore`, `pending_ir` | the retry slots of the main thread |
| `staged_swap`, `staged_restore`, `restart` | Strict Restart Policy: what waits for a restart, and whether one was asked for |
| `ring`, `parked`, `recovered`, `replay` | the command channel from outside |
| `hk` | the position inside `housekeeping()` |
| `poison_flag`, `poison_restart_requested` | the status flag of a panicked processor and the latch of its restart request |

`Commit` is the state load of the host (`LocalCommit` before the first activation,
`ContinuousCommit` through the channel, `StagedCommit` through a restart); the steps
of `housekeeping()` are `RedeliverRestore` / `PublishRestore` / `NoRestoreToFlush`,
`FlushPendingModel` (with the poison check), `LoadModel`, `LoadIr` / `RetryIr`,
`ClearIr`, `ClearModel` / `ClearModelFails`, each one atomic, in the code's order,
with the audio thread between them. `Drain`, `ReplayRecovered` and `Panic` are the
audio thread; `Activate`, `ActivateFails` (the guards put everything back),
`ActivateFailsLate` (the last fallible call, after they let go) and `Deactivate` the
lifecycle, which the host calls between housekeeping calls.

Abstractions: an asset is a model value with a rate; the latency of a stream is 0 at
the host rate and 1 otherwise, that of every IR 1 (same partition); the sample rate
is fixed, the buffer size may be renegotiated by any activation (`resized`). Whether
a restore differs in oversampling is a free choice (`os_differs`). A drain is one
step over `CommandChannel`'s outcome: at most one install, the next structural
command possibly parked. Panics fall outside the drain here; inside it they are in
`CommandChannel`.

### The situations a property excludes

`met` records eleven situations (`Hazards`) in which the code lets what is
shown and what runs, or the latency, drift apart. They are history, never a guard: the
system goes on, and `ShownIsRunning` speaks of behaviours that met none of them.
Each was seen to break it when left out. Properties at the end of the module state
what the repository says about them; those with a configuration are plain bugs, the others
are seen by putting the property in `late_failure.cfg` in place of its own, as an
`INVARIANT` but for `LatencyNeverShifts` (`ClearedIrIsGone` with `MaxOps = 3`).

| Property | Configuration or situation | Behaviour |
|---|---|---|
| `KeptChainSurvives` | `late_failure.cfg` | `flush_pending_model()?` fails `activate()` after the guards let go |
| `PoisonAsksForRestart` | `poisoned_again.cfg` | a processor poisoned twice is not asked to restart |
| `SavedModelIsShown` | always | a preset restore shows its model and does not set `params.model_path` (commit.rs:512) |
| `LatestChangeRuns` | `overtaken` | an older change waiting in a slot or the ring lands after a newer one |
| `StagedModelRuns` | `staged_dropped` | a restore (commit.rs:120) drops a staged load that the GUI shows and the restore keeps |
| `ClearedIrIsGone` | `clear_over_restore` | a staged clear of the IR loses against an older staged restore (processor/mod.rs:804) |
| `InactiveIrRuns` | `ir_inactive` | an IR loaded without a processor is shown; `activate()` keeps or installs another one |
| `LatencyNeverShifts` | `carried` | a queued change is installed in a chain of another latency (processor/mod.rs:1281) |

The remaining situations: `reordered`, `recovered_dropped` and `parked_dropped` come
from the channel (section 3), `clear_failed` clears the identity before the
pass-through stream is built, `poisoned` discards the chain of a panicked processor
on purpose, `late_failure` is the first row.

### Run

`assets` checks the types, `StagedAsksForRestart`, `ShownIsRunning`, `LatencyHeld` and,
under fairness, `RestoreSettles` with two operations, a panic, a failure and a restart
(1.0 million states).

Two models (one at the host rate, one resampled) give equal and different latencies
and a change of asset; one IR gives a present and an absent one; the ring of 2 is
filled by a snapshot and one change, so every retry slot is used. Two operations are an
older and a newer change in any two routes. A third operation adds behaviours in which
a failed activation meets two changes under way at once; no property is claimed for
those. Deadlock is not checked, the bounds stop every behaviour. Fairness (`assets`): `housekeeping()` runs again
(`request_callback`, the watchdog timer) and an active processor is called back;
nothing is assumed of requests, restarts or failures.

### Proofs (`AssetIdentityProofs`)

For any assets, rates, capacity and bounds, every property of the run but the liveness
of a restore.

`StagedIsAnnounced` (`StagedAsksForRestart`) is inductive together with
`UnsizedIsInactive` (without a buffer size nothing has been activated): a swap staged
before the first activation asks nobody, and it is this fact that says no processor
runs then.

`ChainInvariant` is about what a processor has and what may reach it. `CInv` consists of
the types; `Shapes` (each queue and slot holds only commands of the kinds its handlers
put there); `Phases` (an active processor has a chain, an inactive one no parked
command); `Unsized`, which extends `UnsizedIsInactive` to the ring and the slots; and
`SameLatency` (no command under way changes the latency of the chain it will meet,
unless `carried` was met). `AssetTypes` and `LatencyNeverMoves` (the action property
`LatencyHeld`) follow.

`ShownRuns` (`ShownIsRunning`) is the longest proof of the project. `ShownIsRunning` says
nothing until everything has been delivered, so it needs an invariant that says, while
changes are still on their way, where they will land. `Sound` is that invariant: the
model that will run is the staged one, else the one in the retry slot, else what the
channel (recovered, replayed and queued commands, one after the other) makes of the
chain; it is the model that the GUI shows now, or will show once the delivered restore
is published (`ModelAgrees`; `IrAgrees` and `IrShown` for the IR). The rest of `Sound`
says that a component has no change in a slot or in the channel while one is staged
(`ModelAlone`, `IrAlone`, `RestoreAlone`), that the slot is newer than the ring (`Newer`)
and that there is a chain to land on (`HasChain`), without which that order would not be
the order in which the code delivers. `Sound` holds as long as none of the `Hazards` was met, which is what the property
claims; TLC checked the invariant on the instance of the run before it was proved. What a
rollback keeps when it drops the model loads of the ring (`WithoutModels`) is shown by
induction over the ring. `RestoreSettles` is model-checked only.

## 6. ModelLoader

The way of a load that is not done at once: picked in the dialog (`OpenDialog`,
`CompleteDialog`) or asked for by the host (`LoadFromLocation`), through the ingress
queue, the queue of accepted loads, the worker's channel and its result slot.

| Model | Code |
|---|---|
| `ingress`, `pending` | `pending_model_requests` and `pending_async_loads`, both bounded by `MAX_PENDING_MODEL_REQUESTS`; an accepted load over the bound evicts the oldest |
| `busy`, `dispatched`, `dispatched_gui` | `model_worker_busy`, generation and origin of the job with the worker |
| `ui_loading`, `ui_dialog_open` | the spinner and the open dialog; either disables the load button |
| `channel`, `working`, `slot`, `reporting` | the worker thread, up to the two steps of a contained panic |
| `tick` | the position in `housekeeping()`: `TakeDialog`, `Accept`, `Poll`, `Dispatch`, each atomic, the worker and the GUI between them |
| `callback` | a requested `on_main_thread()` |

A worker that cannot be spawned is `LoadSynchronously`. `ChangeModel` is any other
change of the model (restore, clear, remote control) that takes a generation. The work
of the worker is its outcome, good or bad.

`loader` checks `OneJobAtATime`, `SpinnerCoversLoads`, `LoadsInOrder`,
`NewestPickWins`, `PresetsAnswered`, `ButtonComesBack` and the absence of deadlock with
four requests, changes or panics and queues of two, so that an accepted load is evicted
while another is with the worker. Fairness: a requested callback is answered, a tick
that began ends, the worker goes on. Nothing relies on the host timer, so the two
liveness properties also say that every step that needs another tick asks for it. After
a panic (`panics > 0`) four of the properties make no claim; the code then does not keep
`SpinnerStops` (`spinner_stuck.cfg`: the report is taken for the result of the job still
in the channel, so the next job is dispatched beside it, both results are discarded as
superseded and the spinner turns for ever, against housekeeping.rs:1005). `late_load.cfg` shows
`NoLoadOverNewerModel`: a load that ends after a restore replaces it.

### Proofs (`LoaderProofs`)

For any number of requests, changes and panics and queues of any size: `LoaderTypes`
(`TypeOK`, which also says that a preset request is answered at most once), `BusyIsOneJob`,
`SpinnerTurns`, and the action properties `CommitsInOrder` and `LastPickWins`. The invariant
`LInv` has three parts. `Homes`: a preset request is in one place of the pipeline, and
unanswered while it is there; so no eviction, commit or synchronous load answers what
another has answered. `Order`: generations are handed out, queued, dispatched and
committed in one order, and what the main thread believes is with the worker is what
the worker has. `Work`: while no panic has happened, the worker's channel, its hands
and its result slot hold one job between them if `busy`, and none otherwise. The
liveness properties, `PresetsAnswered` and `ButtonComesBack`, are model-checked only.

## 7. AdaptiveRebuild

The audio thread asks for its WaveNet at another width, by two stores and a flag
(`StoreWidth`, `RaiseFlag`); the worker reads them (`ReadRequest`), slices whatever
`full_wavenet_model` is by then (`BuildSlice`), fills the slot; a housekeeping tick
(`TakeSlot`, then `Deliver`, `PutBack` or `NothingBuilt`) pushes the slice and lowers
the flag; the audio thread installs it if the generation it is tagged with runs
(`InstallSlice`). Meanwhile `LoadModel`, `Restart`, `PushRestore` and `PublishRestore`
change the model, in the order of the code: a load publishes before it runs, a restore
runs before it is published. A worker that cannot be spawned is `RebuildInline`.

`RunningModel` is the abstract specification of what comes of it on the audio thread
(`running`, `weights`, and the restores so far): whole models run, and slices that are no
older than the model they run under. `AdaptiveRebuild` extends it, adds the threads, and
implements it with the identity as refinement mapping: `RunningSpec`, which is proved (TLC
finds it to hold on the instance below as well) and of which `NoOlderSlice` is the
invariant a run checks.

`rebuild` checks `NoOlderSlice`, `NoRedundantBuild`, `FlagIsServed` and the absence of
deadlock with three requests, a load, a restore, a ring of one and a width below the
least that is sliced. One load and one restore give every order of publication and
installation around a request; a ring of one is full as soon as a slice waits.
Fairness: the audio thread finishes its callback and drains its rings, the worker polls
(every 10 ms), the timer brings ticks.

Not kept by the code: `SliceOfTheRunningModel` (`slice_of_other.cfg`: with a restore
installed and not yet published the slice is cut from the model before and carries the
tag of the new one) and `NewestRequestServed` (`rebuild_lost.cfg`: a request raised
between the worker's poll and the delivery of the one before loses its flag).

`LoaderProofs`, whose instance `R` is this module with its own state, proves
`RebuildTypes`, `NoOlderSliceRuns`, `RebuildImplementsRunning` and `NothingIsBuiltTwice`
for every set of widths, capacity and number of requests, loads and restores (the theorems
that need it name `RebuildAssumption` as their hypothesis). `NoOlderSlice` speaks of the
moment a slice is installed; the invariant that carries it there says that as long as
nothing was restored `full` is the newest generation or none, so that no request, command,
staged load or slice in the slot, in the tick's hand or in the ring is newer than the model
it was, or would be, cut from. A step of the refinement is an install (`RunModel`), a slice
(`RunSlice`, by that invariant), a restore pushed (`BeginRestore`), or a stutter.
`NothingIsBuiltTwice` (`NoRedundantBuild`) has an invariant of its own, `OnceInv`: while
one request was made, what is under way for it is in one place, the worker's hands, its
slot or the tick's hand, and once it is built the worker remembers it until the flag is
down. `FlagIsServed` is model-checked only.

## 8. BlockScheduler

A block with its parameter events: scheduled, late ones applied first, the rest cut at
the events that need a boundary, gains fused as steps of a ramp, each sub-block rendered
by the wet, the dry, the crossfade or the tail-drain leg, the block itself cut into
slices of `MaxFrames` when the host's block is longer. Audio is reduced to what decides
how a sample sounds: side, two gains, gate threshold. `SyncParam` is a change by the GUI
or a snapshot, `Reset` the host's `reset()`, `Restart` the reactivation that honours a
request. `FailBlock` and `FailDryBlock` are the early error returns on a port pair whose
channels cannot be read (`channels()?`, orchestrator.rs:161 and 343, 1046 and 1163). The
pipeline meets the error before the first event and loses those of the callback; the dry
leg has applied them by then and skips the request for a restart. Both end the callback
where it began, between blocks, so that the properties of a finished block do not speak
of them; `BadPorts` says whether the host may pass such a pair.

`block` checks, besides `TypeOK`, three properties against a reference that does not slice at all.
`SampleAccurate` compares every rendered sample with `AutomatedAt`, in which every event
takes effect at its own time; `EventsAllApplied` compares the end of the block with all
events applied in order, unless the callback returned an error; `AnomalyIsTrue` compares the reported anomaly with its
definition. The instance enumerates every list of up to two events, at every offset up to
the end of a block of three over slices of two, one fused step, a crossfade of one
sample, and two calls in a row, so that each boundary (offset 0, slice end, block end,
more gains than steps, an event behind a slice, disorder) occurs. Without fairness,
nothing here waits. The two history variables are `start`, the parameters when the block
began to apply events, and `heard`, what every rendered sample was rendered with.

### Proofs (`BlockSchedulerProofs`)

`BlockTypes`, `BlockIsAccurate`, `BlockAppliesAll` and `BlockReportIsTrue` prove all four
for any frame maximum, fuse limit, number of ramp steps and crossfade length, and for a
block of any length with any list of events. Assumed of an event is what the scheduler
stores: the bypass is a Boolean, the other values are integers (they stand for decibels;
only sums and comparisons matter), and only gains and the gate are modulated
(`apply_scheduled_event` ignores other modulations).

`SampleAccurate` is not inductive: it says nothing of the events to come, nor of the
parameters in between. The invariant `BlockInv` adds:

- `Heeded`: the parameters are what the first `event_idx - 1` events make of `start`,
  whatever was fused, late or clamped (`Followed`, up to the gate threshold, which is
  refreshed apart);
- `Rendering`: inside a slice the gate is not dirty, the crossfader goes to the side of
  the bypass parameter, exactly the samples before the current one were heard, and in an
  ordered block every event to come is at or behind the current sample;
- `Over`: when the samples are done, what the report says is true, and no event is left
  but in a block without audio;
- `Typed`, `Placed`: the types and the index arithmetic.

The step that renders is `Sounds`: whichever leg renders a sample of the sub-block, it is
rendered as automated. It rests on `CutExists` (a sub-block ends in its slice, at the
first event that needs a boundary, at the ramp's last step, or at the end of the slice),
`SortedEnds` (so no more gains are fused than the ramp has steps: `Steps` keeps the first
`MaxGainSteps` as the array of the code does, and a wrong cut would lose the rest),
`GainRuns` (fused events change nothing but gains) and `StepsReach` (the ramp's last step
of a gain is its last event). `ApplySplit` (a list of events may be applied in two runs)
connects one sub-block to the next.

Not kept by the code: `PendingIsAsked` (run `restart_unasked`) and
`TargetsAreEffective` (`reset_modulated.cfg`: `reset()` snaps the smoothers to a target
that includes the modulation it clears next). With `BadPorts`, `PendingIsAsked` has a
second counterexample, `FailDryBlock`; the run leaves it out to show the first. The events
`FailBlock` loses are against the "zero event loss" of orchestrator.rs:444.

## 9. ParamSync

The value of a parameter in the shared atomics, in the processor, in the main thread and
at the host. A GUI callback is a list of atomic operations (store, bump of the
generation, gesture flag) with everything else between them; a call of the host runs its
steps in the code's order: `EchoSlot` (flags become output events, the host's queue may
be full), `LoadGeneration`, `DrainSnapshots`, `SyncParams`, `ProcessEvents` or
`FlushEvents`; while inactive `MainFlush`. `RetryInFlight`, `Save`, `Activate` and
`Deactivate` are the main thread. A continuous and a discrete parameter stand for the
eight. State loads are not modelled here. A restore stores its parameters in the same
atomics (`publish_restore`, commit.rs:522; `local_commit`, commit.rs:780), bumps the
generation, has the host rescan the values, and reaches the audio thread in a
transaction; `SyncedAgrees` and `ToldIsShared` speak of behaviours without one.

`params` checks `SyncedAgrees` and `ToldIsShared` with two GUI callbacks, two host
events and two lifecycle steps on a ring of one: a callback that overtakes a callback, a
host event inside either, a full ring, a full output queue.

`ParamSyncProofs` proves the types, `SyncedAgrees` and `ToldIsShared` for every set of
values and every bound. Both speak of moments without a GUI callback under way; the
invariant carries them through one: where the processor or the host still lags behind
the shared value, a pending flag, a generation not yet read, or the rest of the callback
(each store is followed by its flag and its bump) will bring it.

Not kept by the code: `PublishedIsPlayed` (run `reactivation_forgets`), `DiscreteIsTold`
(`discrete_echo.cfg`: a discrete value is echoed as float bits, shared.rs) and
`GesturesClose` (`gesture_left_open.cfg`: flags taken while a new gesture sets them leave
a gesture open at the host). The run `stale_params` of section 3 belongs here too: the
retry of an old snapshot after a newer one.

## 10. ProcessCallback

The callback around its DSP. A model is the number of zeroed samples it still needs
after a reset and whether non-finite input reached it. `Process` is one callback: the
command it drains, containment of what the block before found, the step of the amortised
window, the block wet or dry; `ProcessPanics` and `ProcessPoisoned` the latch; `Reset`,
`StartProcessing`, `StopProcessing`, `Activate`, `Deactivate` the host. `PrewarmStep` and
`Refined` are the arithmetic of `prewarm_policy.rs`: available time with its margin,
table or measured cost, ewma rounded up, clamps, and zero, in units of time instead of
nanoseconds.

`callback` checks `WetIsConverged`, `HitsAreContained`, `StepFitsBudget` and
`WindowCloses` with four resets, loads, rebuilds, bad blocks, panics or restarts; one or
two models of depth three need several callbacks; blocks of no frame, and costs, lie on
both sides of what a callback affords. `WindowCloses` needs only that a processing host
calls back, and `TableIsAffordable`: with a table cost over the budget of the smallest
callback the window cannot close, in the code neither. The fairness is stated on
`block`, which flips with every callback, because two callbacks may otherwise leave the
same state.

`ProcessCallbackProofs` proves types, `WetIsConverged`, `HitsAreContained` and
`StepFitsBudget` for every depth, cost, budget and number of models. The invariant adds
what holds between callbacks: with the window shut every model has converged, and a
model that saw non-finite input, in the processor or in the DSP state a deactivation
kept, is still flagged. `WindowCloses` is model-checked only.

A note on `prewarm_policy.rs:135` and `state.rs:409`: they say that starvation latches
`HOST_CONTRACT_VIOLATION`; `processor/mod.rs:1733` explicitly does not, and the model
follows the code. The warm-up job at activation is left out; a load brings a
cost from `Costs`, measured while it was prepared, or none.

## 11. GuiLifecycle

The host's calls (`Create`, `SpawnGui` for `set_parent` and `set_transient`, `Show`,
`Hide`, `Destroy`), `Housekeeping` for a close signal, and `Teardown`; the bounded wait
of `open_window()` (`WindowOpened`, `WindowRefused`, `OpenTimesOut`, then `GiveUp`, two
steps because the receiver outlives the wait); the persistent worker (`TakeJob` to
`WorkerExits`) with one window generation after the other; the event-loop queue, one for
the process; the user, who may close the window. The state machine (`Transition`) is
translated with its illegal and terminal cases.

`gui` checks `BelievedIsSeen`, `QuitHitsItsWindow`, `ClosedWindowGoes` and `WorkerEnds`
with three generations and eight calls: a window, the one that replaces it while its
loop drains, and a third one queued behind both. Fairness: the worker goes on and the
bounded wait ends. Nothing forces the host, the user or a callback. One assumption about
Slint, which is not part of the repository, carries all four properties: its event loop
returns on a posted quit only, as worker.rs:300 reads it, and not when the last window is
hidden. `WindowFailed` is a state-machine event nobody fires.

Not kept by the code: `ShownOnRequest` (`shown_unasked.cfg`: the worker shows each
window it opens), `CloseIsOwn` (`close_inherited.cfg`: `set_transient()` keeps the close
signal of the window it replaces), `NoOrphanStays` (`orphan_window.cfg`: an answer
between the end of the wait and the end of the receiver leaves a window nobody has a
handle of, and no later one opens). `WorkerEnds` excludes such an orphan.

`GuiLifecycleProofs` proves types and `QuitHitsItsWindow` for any number of windows and
calls. A quit does not name the loop it ends, so the invariant is about the queue: while
the main thread holds a window, or the answer that brings it one, there is no quit in
it; with a worker between windows there is none either; otherwise there is at most one,
and it belongs to a window the main thread has closed, or to the drain. `BelievedIsSeen`
is proved too, from an invariant on the last closure on its way to the window: it shows
or hides the window as the state machine believes, or there is none and the window
already is as believed; generations are counted, so that no closure in the queue is for
the window being opened. The liveness properties are model-checked only.

## 12. How to check

    tlc -config channel.cfg MCCommandChannel.tla
    tlc -config quiescence.cfg MCHostQuiescence.tla
    tlc -config assets.cfg MCAssetIdentity.tla
    tlc -config loader.cfg MCModelLoader.tla
    tlc -config rebuild.cfg MCAdaptiveRebuild.tla
    tlc -config block.cfg MCBlockScheduler.tla
    tlc -config params.cfg MCParamSync.tla
    tlc -config callback.cfg MCProcessCallback.tla
    tlc -config gui.cfg MCGuiLifecycle.tla
    tlapm CommandChannelProofs.tla        (and the other *Proofs modules)

The longest runs, `channel`, `assets` and `block`, take two to three minutes each. Configurations
that end in a counterexample go with the module of their property:
`stale_params`, `recovered_dropped` (`MCCommandChannel`); `late_failure`, `poisoned_again` (`MCAssetIdentity`); `late_load`, `spinner_stuck`
(`MCModelLoader`); `slice_of_other`, `rebuild_lost` (`MCAdaptiveRebuild`);
`restart_unasked`, `reset_modulated` (`MCBlockScheduler`); `reactivation_forgets`,
`discrete_echo`, `gesture_left_open` (`MCParamSync`); `shown_unasked`,
`close_inherited`, `orphan_window` (`MCGuiLifecycle`).

`PROJECT.json` names, for every property of a passing run, a plausible change of a
definition that the run refutes; the changed operators stand beside the definitions.

Proofs cover safety. Liveness, and everything said above to be model-checked only,
rests on the instances described with each run. The assumptions of the proofs are the
`ASSUME`s of the modules, which every run evaluates.

## 13. Not modelled, and why

- The GC cascade: rings and overflow buffer are in the engine crate, outside this
  repository; `gc.rs` only retries the parking lot.
- Floating-point signal processing, meters, gate detection, dry delay and the engine
  crate itself (arithmetic on floats).
- File parsing, validation of saved state, preset indexing, factory and entry (I/O and
  constants); the small getters and setters of the CLAP surface.
- The Slint view model, drawing, X11 embedding, scale and size negotiation, dialogs but
  for their result.
- The parameters of a state load: their stores to the atomics of section 9 and what the
  transaction sets (sections 3 and 5 model its delivery).
- The oversampling factor of restores and audio epochs (a sample rate that changes
  between commands): the restart handshake of the factor is in `BlockScheduler` as far
  as one processor asks for it.
- The quantised rebuild: it takes the path of the slimmable one.
- Watchdog cadence, telemetry, latency reporting, the pre-warming job of the GUI worker.
- Receipts, tools, benches, packaging: outside the plugin's run time.
