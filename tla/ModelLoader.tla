----------------------------- MODULE ModelLoader -----------------------------
(***************************************************************************)
(* The asynchronous model loader: a request picked in the file dialog or   *)
(* sent by the host (preset-load) travels through the ingress queue, the   *)
(* queue of accepted loads, the job channel of the worker thread and the   *)
(* result slot, until the main thread commits it, reports it or discards   *)
(* it as superseded.                                                       *)
(*                                                                         *)
(* The main thread takes one housekeeping() tick at a time: accept one     *)
(* request, poll the result slot, dispatch one job.  The worker prepares   *)
(* one job at a time and, between jobs, polls the adaptive rebuilds        *)
(* (AdaptiveRebuild); a panic of that poll is contained and reported       *)
(* through the same result slot.  Teardown is HostQuiescence's subject:    *)
(* here the fence is up.                                                   *)
(***************************************************************************)
EXTENDS Naturals, Sequences, Functions

CONSTANTS
  MaxPending,    \* MAX_PENDING_MODEL_REQUESTS, of the ingress and of the accepted loads
  None,          \* an empty slot
  MaxOps,        \* bound: requests, restores and clears, and panics together
  MaxChanges,    \* bound: restores and clears of the model
  MaxPanics      \* bound: panics of the rebuild poll

Id == 1 .. MaxOps
Generation == 0 .. (2 * MaxOps)
Origin == {"gui", "preset"}
Request == [id : Id, origin : Origin, real : BOOLEAN]
Job == [id : Id, origin : Origin, generation : Generation]
PreparedModelResult == [id : Id \cup {0}, origin : Origin, generation : Generation,
                        ok : BOOLEAN]

ASSUME LoaderAssumption ==
  /\ MaxPending \in Nat \ {0}
  /\ {MaxOps, MaxChanges, MaxPanics} \subseteq Nat
  /\ None \notin Request \cup Job \cup PreparedModelResult

VARIABLES
  issued,         \* requests issued so far
  ui_dialog_open, \* the GUI believes a picker is open
  picker,         \* request of the open picker (DialogSharedState::active), 0: none
  dialog,         \* outcome of the picker (DialogSharedState::pending_model)
  ingress,        \* pending_model_requests
  pending,        \* pending_async_loads
  busy,           \* model_worker_busy
  dispatched,     \* dispatched_model_generation, 0: none
  dispatched_gui, \* dispatched_model_is_gui
  ui_loading,     \* the spinner; the load button is dead while it turns
  generation,     \* the allocator ColdShared::model_generation
  tick,           \* where the main thread is in housekeeping()
  callback,       \* a host callback is requested
  loader,         \* the worker thread exists
  channel,        \* jobs sent to the worker
  working,        \* the job the worker prepares
  slot,           \* model_result_slot
  reporting,      \* the worker has put its panic into the slot, not yet into the GUI
  model,          \* generation of the adopted model identity
  loaded,         \* history: generation of the last committed load
  answers,        \* history: how often each preset request was answered
  newest_gui,     \* history: generation of the newest accepted GUI request
  changes, panics

guiVars == <<issued, ui_dialog_open, picker, dialog, ingress>>
loadVars == <<pending, busy, dispatched, dispatched_gui, ui_loading>>
workerVars == <<channel, working, slot, reporting, panics>>
identityVars == <<generation, model, loaded, answers, newest_gui, changes>>
vars == <<guiVars, loadVars, workerVars, identityVars, tick, callback, loader>>

(* The bound on what may still happen.                                    *)
MayGoOn == issued + changes + panics < MaxOps

Init ==
  /\ issued = 0 /\ ui_dialog_open = FALSE /\ picker = 0 /\ dialog = None
  /\ ingress = << >> /\ pending = << >>
  /\ busy = FALSE /\ dispatched = 0 /\ dispatched_gui = FALSE /\ ui_loading = FALSE
  /\ generation = 0 /\ tick = "idle" /\ callback = FALSE /\ loader = FALSE
  /\ channel = << >> /\ working = None /\ slot = None /\ reporting = FALSE
  /\ model = 0 /\ loaded = 0 /\ answers = [i \in Id |-> 0] /\ newest_gui = 0
  /\ changes = 0 /\ panics = 0

-----------------------------------------------------------------------------
(* Requests.                                                               *)

(* GUI: the load button opens a picker, unless one is open or a load runs. *)
OpenDialog ==
  /\ ~ui_loading /\ ~ui_dialog_open /\ picker = 0
  /\ MayGoOn
  /\ issued' = issued + 1
  /\ ui_dialog_open' = TRUE /\ picker' = issued'
  /\ UNCHANGED <<dialog, ingress, loadVars, workerVars, identityVars, tick, callback, loader>>

(* The picker thread ends: a path or the cancelled sentinel.               *)
CompleteDialog ==
  /\ picker # 0
  /\ \E selected \in BOOLEAN :
       dialog' = [id |-> picker, origin |-> "gui", real |-> selected]
  /\ picker' = 0
  /\ callback' = TRUE
  /\ UNCHANGED <<issued, ui_dialog_open, ingress, loadVars, workerVars, identityVars,
                 tick, loader>>

(* preset-load: load_from_location().  A full queue is reported to the     *)
(* caller and nothing is queued.                                           *)
LoadFromLocation ==
  /\ tick = "idle" /\ MayGoOn
  /\ Len(ingress) < MaxPending
  /\ issued' = issued + 1
  /\ ingress' = Append(ingress, [id |-> issued', origin |-> "preset", real |-> TRUE])
  /\ callback' = TRUE
  /\ UNCHANGED <<ui_dialog_open, picker, dialog, loadVars, workerVars, identityVars,
                 tick, loader>>

(* A state restore or Clear Model adopts another model identity while      *)
(* requests are under way (AssetIdentity has what it installs).            *)
ChangeModel ==
  /\ tick = "idle" /\ changes < MaxChanges /\ MayGoOn
  /\ generation' = generation + 1
  /\ model' = generation'
  /\ changes' = changes + 1
  /\ UNCHANGED <<guiVars, loadVars, workerVars, loaded, answers, newest_gui, tick,
                 callback, loader>>

-----------------------------------------------------------------------------
(* housekeeping(), on a host callback or on the timer.                     *)

(* on_main_thread(), timer: the adaptive-rebuild handlers come first and   *)
(* may spawn the worker.                                                   *)
StartTick ==
  /\ tick = "idle"
  /\ tick' = "dialog" /\ callback' = FALSE
  /\ loader' \in {loader, TRUE}
  /\ UNCHANGED <<guiVars, loadVars, workerVars, identityVars>>

(* The outcome of the picker moves into the ingress queue, or is dropped   *)
(* when that queue is full.                                                *)
TakeDialog ==
  /\ tick = "dialog" /\ tick' = "accept"
  /\ IF dialog = None
     THEN UNCHANGED <<ui_dialog_open, dialog, ingress>>
     ELSE /\ ui_dialog_open' = FALSE /\ dialog' = None
          /\ ingress' = IF Len(ingress) < MaxPending THEN Append(ingress, dialog)
                        ELSE ingress
  /\ UNCHANGED <<issued, picker, loadVars, workerVars, identityVars, callback, loader>>

(* Answer to the host: notify_preset_loaded or notify_preset_error.        *)
AnswerTo(request) ==
  IF request.origin = "preset"
  THEN [answers EXCEPT ![request.id] = @ + 1]
  ELSE answers

(* retain(): the jobs the GUI did not ask for, in their order.             *)
WithoutGui(jobs) ==
  LET kept[n \in 0 .. Len(jobs)] ==
        IF n = 0 THEN << >>
        ELSE IF jobs[n].origin # "gui" THEN Append(kept[n - 1], jobs[n])
        ELSE kept[n - 1]
  IN kept[Len(jobs)]

(* What a new request leaves of the accepted loads: a GUI request takes    *)
(* the place of the GUI requests before it.                                *)
SupersededBy(request) ==
  IF request.origin = "gui" THEN WithoutGui(pending) ELSE pending

(* A GUI request also disowns a GUI load the worker has.                   *)
DisownsNothing(request) == FALSE
Disowns(request) == request.origin = "gui" /\ busy /\ dispatched_gui

(* A queue at its limit gives up its oldest load.                          *)
OverfullLate(kept) == Len(kept) > MaxPending
Overfull(kept) == Len(kept) >= MaxPending

EnqueueFirst(kept, job) == <<job>> \o kept
Enqueue(kept, job) == Append(kept, job)

AcceptReal(request) ==
  LET kept == SupersededBy(request)
      evict == Overfull(kept)
      job == [id |-> request.id, origin |-> request.origin, generation |-> generation + 1]
  IN /\ generation' = generation + 1
     /\ ui_loading' = TRUE
     /\ ui_dialog_open' = FALSE
     /\ dispatched' = IF Disowns(request) THEN 0 ELSE dispatched
     /\ pending' = Enqueue(IF evict THEN Tail(kept) ELSE kept, job)
     /\ answers' = IF evict THEN AnswerTo(Head(kept)) ELSE answers
     /\ newest_gui' = IF request.origin = "gui" THEN generation' ELSE newest_gui

(* A cancelled picker only stops a spinner nobody needs.                   *)
SpinnerNeverNeeded == FALSE
SpinnerStillNeeded == busy \/ pending # << >>

AcceptSentinel ==
  /\ ui_dialog_open' = FALSE
  /\ ui_loading' = (ui_loading /\ SpinnerStillNeeded)
  /\ UNCHANGED <<generation, dispatched, pending, answers, newest_gui>>

(* accept_queued_model_request(): one request per tick; more of them ask   *)
(* for another tick.                                                       *)
NothingMoreToAccept == FALSE
MoreToAccept == Tail(ingress) # << >>

Accept ==
  /\ tick = "accept" /\ tick' = "poll"
  /\ IF ingress = << >>
     THEN UNCHANGED <<ingress, generation, ui_loading, ui_dialog_open, dispatched, pending,
                      answers, newest_gui, callback>>
     ELSE /\ ingress' = Tail(ingress)
          /\ callback' = (callback \/ MoreToAccept)
          /\ IF Head(ingress).real THEN AcceptReal(Head(ingress)) ELSE AcceptSentinel
  /\ UNCHANGED <<issued, picker, dialog, busy, dispatched_gui, workerVars, model, loaded,
                 changes, loader>>

(* The identity a finished load leaves behind: the model of an Ok outcome. *)
Commit(ok, at) ==
  /\ model' = IF ok THEN at ELSE model
  /\ loaded' = IF ok THEN at ELSE loaded

(* A result that is not the dispatched one was superseded.                 *)
Superseded(result) == result.generation = 0 \/ result.generation # dispatched

(* maybe_finish_loading_ui().                                              *)
StillLoadingDispatched == pending # << >> \/ dispatched # 0
StillLoading == pending # << >>

(* poll_model_loader_result().                                             *)
Poll ==
  /\ tick = "poll" /\ tick' = "dispatch"
  /\ IF slot = None
     THEN UNCHANGED <<slot, busy, dispatched, dispatched_gui, ui_loading, model, loaded, answers>>
     ELSE /\ slot' = None
          /\ busy' = FALSE /\ dispatched' = 0 /\ dispatched_gui' = FALSE
          /\ IF Superseded(slot)
             THEN UNCHANGED <<ui_loading, model, loaded, answers>>
             ELSE /\ ui_loading' = StillLoading
                  /\ Commit(slot.ok, slot.generation)
                  /\ answers' = AnswerTo(slot)
  /\ UNCHANGED <<guiVars, pending, channel, working, reporting, panics, generation,
                 newest_gui, changes, callback, loader>>

(* The job goes to the worker.                                             *)
DispatchToWorker ==
  /\ channel' = Append(channel, Head(pending))
  /\ busy' = TRUE
  /\ dispatched' = Head(pending).generation
  /\ dispatched_gui' = (Head(pending).origin = "gui")
  /\ loader' = TRUE
  /\ UNCHANGED <<ui_loading, generation, model, loaded, answers>>

(* run_sync_model_load(): the worker cannot be spawned; the load runs here *)
(* and its commit allocates a generation of its own.                       *)
LoadSynchronously ==
  /\ ~loader
  /\ ui_loading' = FALSE
  /\ \E ok \in BOOLEAN :
       /\ generation' = IF ok THEN generation + 1 ELSE generation
       /\ Commit(ok, generation')
  /\ answers' = AnswerTo(Head(pending))
  /\ UNCHANGED <<channel, busy, dispatched, dispatched_gui, loader>>

(* dispatch_pending_model_load(): one job at a time.                       *)
MayDispatchWhileBusy == pending # << >>
MayDispatch == ~busy /\ pending # << >>

Dispatch ==
  /\ tick = "dispatch" /\ tick' = "idle"
  /\ IF ~MayDispatch
     THEN UNCHANGED <<pending, channel, busy, dispatched, dispatched_gui, ui_loading,
                      generation, model, loaded, answers, loader>>
     ELSE /\ pending' = Tail(pending)
          /\ DispatchToWorker \/ LoadSynchronously
  /\ UNCHANGED <<guiVars, working, slot, reporting, panics, newest_gui, changes, callback>>

-----------------------------------------------------------------------------
(* The worker thread.                                                      *)

Receive ==
  /\ loader /\ working = None /\ ~reporting /\ channel # << >>
  /\ working' = Head(channel) /\ channel' = Tail(channel)
  /\ UNCHANGED <<guiVars, loadVars, identityVars, slot, reporting, panics, tick, callback,
                 loader>>

(* prepare_model_offthread() ends, with a model, an error or a contained   *)
(* panic; the result takes the slot and the main thread is woken.          *)
PublishResult ==
  /\ working # None
  /\ \E ok \in BOOLEAN :
       slot' = [id |-> working.id, origin |-> working.origin,
                generation |-> working.generation, ok |-> ok]
  /\ working' = None
  /\ callback' = TRUE
  /\ UNCHANGED <<guiVars, loadVars, identityVars, channel, reporting, panics, tick, loader>>

(* poll_rebuilds() panics: a result of generation 0 takes the slot, also   *)
(* from a result the main thread has not seen.                             *)
PanicInPoll ==
  /\ loader /\ working = None /\ ~reporting /\ panics < MaxPanics /\ MayGoOn
  /\ slot' = [id |-> 0, origin |-> "gui", generation |-> 0, ok |-> FALSE]
  /\ reporting' = TRUE /\ panics' = panics + 1
  /\ UNCHANGED <<guiVars, loadVars, identityVars, channel, working, tick, callback, loader>>

ReportPanic ==
  /\ reporting /\ reporting' = FALSE
  /\ ui_loading' = FALSE
  /\ callback' = TRUE
  /\ UNCHANGED <<guiVars, pending, busy, dispatched, dispatched_gui, identityVars, channel,
                 working, slot, panics, tick, loader>>

-----------------------------------------------------------------------------
GuiNext == OpenDialog \/ CompleteDialog
MainNext == LoadFromLocation \/ ChangeModel \/ StartTick \/ TakeDialog \/ Accept
              \/ Poll \/ Dispatch
WorkerNext == Receive \/ PublishResult \/ PanicInPoll \/ ReportPanic
Next == GuiNext \/ MainNext \/ WorkerNext

(* The host answers request_callback() with on_main_thread(), a tick that  *)
(* has begun ends, the worker works its channel off.  The host timer is    *)
(* not relied upon: nothing forces a tick that nobody requested.           *)
Fairness ==
  /\ WF_vars(callback /\ StartTick)
  /\ WF_vars(TakeDialog \/ Accept \/ Poll \/ Dispatch)
  /\ WF_vars(Receive) /\ WF_vars(PublishResult) /\ WF_vars(ReportPanic)

Spec == Init /\ [][Next]_vars /\ Fairness

-----------------------------------------------------------------------------
TypeOK ==
  /\ issued \in 0 .. MaxOps /\ picker \in 0 .. MaxOps
  /\ {ui_dialog_open, busy, dispatched_gui, ui_loading, callback, loader, reporting}
       \subseteq BOOLEAN
  /\ dialog \in Request \cup {None}
  /\ ingress \in Seq(Request) /\ Len(ingress) <= MaxPending
  /\ pending \in Seq(Job) /\ Len(pending) <= MaxPending
  /\ channel \in Seq(Job)
  /\ working \in Job \cup {None} /\ slot \in PreparedModelResult \cup {None}
  /\ {dispatched, generation, model, loaded, newest_gui} \subseteq Generation
  /\ tick \in {"idle", "dialog", "accept", "poll", "dispatch"}
  /\ answers \in [Id -> 0 .. 1]
  /\ changes \in 0 .. MaxChanges /\ panics \in 0 .. MaxPanics

(* Jobs the worker side holds: sent, being prepared, or finished.          *)
Outstanding ==
  Len(channel) + (IF working = None THEN 0 ELSE 1) + (IF slot = None THEN 0 ELSE 1)

(* busy says exactly whether one job is with the worker: the slot is never *)
(* written over and dispatched names that job or nothing                   *)
(* (housekeeping.rs:903, 950).                                             *)
OneJobAtATime ==
  panics = 0 => Outstanding = (IF busy THEN 1 ELSE 0)

(* With the spinner off no load waits and none is with the worker          *)
(* (maybe_finish_loading_ui, housekeeping.rs:787).                         *)
SpinnerCoversLoads ==
  panics = 0 /\ ~ui_loading => pending = << >> /\ ~busy

(* A load that ends never replaces a load that was requested after it.     *)
LoadsInOrder == [][loaded' >= loaded]_loaded

(* Last wins: of the user's picks only the newest accepted one is adopted  *)
(* (housekeeping.rs:751-759).                                              *)
NewestPickWins ==
  [][tick = "poll" /\ model' # model /\ slot.origin = "gui"
       => slot.generation = newest_gui]_vars

(* Every preset the host asked for is answered, and TypeOK has that it is  *)
(* answered once, although requests are evicted, superseded, fail or fall  *)
(* back to the main thread.  No step waits for the host timer.             *)
PresetsAnswered ==
  \A i \in Id :
    (\E r \in Range(ingress) : r.id = i /\ r.origin = "preset")
      ~> (answers[i] = 1 \/ panics > 0)

(* The load button comes back: after a picker has ended and after a load   *)
(* was accepted, the spinner stops and no closed picker counts as open.    *)
ButtonComesBack ==
  (ui_loading \/ dialog # None)
    ~> ((~ui_loading /\ (ui_dialog_open => picker # 0)) \/ panics > 0)

(* Not kept by the code.  A load that ends late never replaces a model     *)
(* adopted after the load was requested: "a result that a newer request    *)
(* already superseded" is discarded (model_loader.rs:84).                  *)
NoLoadOverNewerModel == [][model' >= model]_model

(* Not kept by the code.  A contained panic of the rebuild poll leaves the *)
(* loader usable: "cannot leave the UI stuck in the loading state"         *)
(* (housekeeping.rs:1005).                                                 *)
SpinnerStops == ui_loading ~> ~ui_loading
=============================================================================
