---------------------------- MODULE GuiLifecycle ----------------------------
(***************************************************************************)
(* The plugin window.  The host drives it from the main thread (create,    *)
(* set_parent or set_transient, show, hide, destroy); the window itself    *)
(* lives on the persistent GUI worker, one generation after the other, and *)
(* its event loop takes its work from one process-wide queue; the user may *)
(* close it at any moment.  The lifecycle state machine is all the main    *)
(* thread knows of that.                                                   *)
(*                                                                         *)
(* The main thread blocks while it opens a generation, and gives up after  *)
(* OPEN_WINDOW_TIMEOUT; the worker answers before it shows the window.     *)
(* Left out: the pre-warming job (it only keeps the worker busy), scale,   *)
(* size, negotiation, and the refusals before anything changed.            *)
(***************************************************************************)
EXTENDS Naturals, Sequences

CONSTANTS
  None,
  MaxGenerations,  \* bound: windows asked for
  MaxRequests      \* bound: host calls

Generation == 1 .. MaxGenerations

ASSUME GuiAssumption ==
  /\ {MaxGenerations, MaxRequests} \subseteq Nat
  /\ None \notin Nat

Event == [kind : {"quit", "show", "hide"}, of : Generation]

VARIABLES
  lifecycle,     \* gui_lifecycle
  slint_window,  \* generation of the window handle, or None
  user_closed,   \* gui_user_closed; the generation the user closed, or None
  gui_worker,    \* the worker: "none", "running" or "shut" (channel closed)
  opening,       \* generation open_window() holds the receiver of, or None
  timed_out,     \* its bounded wait is over, the receiver not yet dropped
  reply,         \* what is in that receiver: "none", "ok" or "failed"
  jobs,          \* generations queued for the worker
  thread,        \* where the worker thread is, and with which generation
  visible,       \* that generation's window is on the screen
  events,        \* the event-loop queue of the process
  created,       \* the host has created the GUI and not destroyed it
  torn,          \* the instance is being destroyed
  asked,         \* history: last visibility request the host was granted
  taken,         \* history: generations whose handle the main thread held
  closed,        \* history: generations the main thread closed
  opened, requests

hostVars == <<created, torn, asked, opened, requests>>
openVars == <<opening, timed_out, reply>>
workerVars == <<thread, visible>>
vars == <<lifecycle, slint_window, user_closed, gui_worker, openVars, jobs, workerVars,
          events, hostVars, taken, closed>>

Init ==
  /\ lifecycle = "Hidden" /\ slint_window = None /\ user_closed = None
  /\ gui_worker = "none" /\ opening = None /\ timed_out = FALSE /\ reply = "none"
  /\ jobs = << >> /\ thread = [at |-> "idle", of |-> None] /\ visible = FALSE
  /\ events = << >>
  /\ created = FALSE /\ torn = FALSE /\ asked = "none"
  /\ taken = {} /\ closed = {} /\ opened = 0 /\ requests = 0

-----------------------------------------------------------------------------
(* The state machine: where an event leads from a state, if anywhere.      *)
Transition ==
  [Show |-> [Hidden |-> "ShowRequested"],
   WindowReady |-> [ShowRequested |-> "Active"],
   Hide |-> [ShowRequested |-> "HideRequested", Active |-> "HideRequested"],
   WindowHidden |-> [HideRequested |-> "Hidden"],
   UserClosed |-> [ShowRequested |-> "Hidden", Active |-> "Hidden"]]

Legal(state, event) == state = "Destroyed" \/ state \in DOMAIN Transition[event]
After(state, event) ==
  IF state \in DOMAIN Transition[event] THEN Transition[event][state] ELSE state

(* reconcile_pending_gui_close() before a transition; an illegal UserClosed *)
(* is dropped.  discard_pending_gui_close() takes the signal unapplied.    *)
ReconcileDiscards == lifecycle
Reconciled == IF user_closed = None THEN lifecycle ELSE After(lifecycle, "UserClosed")

(* promote_window_ready().                                                 *)
Promoted(state) == IF state = "ShowRequested" THEN "Active" ELSE state

(* hide() does not wait: the hide counts as done once it is dispatched.    *)
HideRequested(state) == After(state, "Hide")
HiddenAtOnce(state) == After(After(state, "Hide"), "WindowHidden")

(* Work for the event loop, behind what is queued.                         *)
PostFirst(event) == <<event>> \o events
Post(event) == Append(events, event)

(* close_current_window(): only a window handle justifies a quit.          *)
QuitsAnyway == opened > 0
QuitsItsWindow == slint_window # None

CloseCurrentWindow ==
  /\ events' = IF QuitsItsWindow
               THEN Post([kind |-> "quit", of |-> opened])
               ELSE events
  /\ slint_window' = None
  /\ closed' = closed \cup ({slint_window} \ {None})

-----------------------------------------------------------------------------
(* The host.  One call at a time, none while open_window() waits.          *)
HostCalls ==
  /\ opening = None /\ ~torn /\ requests < MaxRequests
  /\ requests' = requests + 1

(* create(): also starts the worker, unless that fails.                    *)
Create ==
  /\ HostCalls /\ ~created
  /\ created' = TRUE /\ asked' = "none"
  /\ user_closed' = None /\ lifecycle' = "Hidden"
  /\ gui_worker' \in IF gui_worker = "none" THEN {"none", "running"} ELSE {gui_worker}
  /\ UNCHANGED <<slint_window, openVars, jobs, workerVars, events, torn, taken, closed, opened>>

(* set_parent(), set_transient(): the window before goes, the worker gets  *)
(* the next one to open and the main thread waits.                         *)
AskedAnew == IF asked = "hide" THEN "none" ELSE asked

SpawnGui ==
  /\ HostCalls /\ created /\ opened < MaxGenerations
  /\ CloseCurrentWindow
  /\ asked' = AskedAnew
  /\ \/ /\ gui_worker' = "running"
        /\ opened' = opened + 1
        /\ jobs' = Append(jobs, opened') /\ opening' = opened'
     \/ /\ gui_worker = "none"
        /\ UNCHANGED <<gui_worker, opened, jobs, opening>>
  /\ UNCHANGED <<lifecycle, user_closed, timed_out, reply, workerVars, created, torn, taken>>

(* show(): a close signal first.  With a window the event loop is asked to *)
(* show it, and the state machine takes it for mapped.                     *)
Show ==
  /\ HostCalls /\ created
  /\ user_closed' = None
  /\ IF Legal(Reconciled, "Show")
     THEN /\ asked' = "show"
          /\ IF slint_window = None
             THEN lifecycle' = After(Reconciled, "Show") /\ UNCHANGED events
             ELSE /\ lifecycle' = Promoted(After(Reconciled, "Show"))
                  /\ events' = Post([kind |-> "show", of |-> slint_window])
     ELSE lifecycle' = Reconciled /\ UNCHANGED <<asked, events>>
  /\ UNCHANGED <<slint_window, gui_worker, openVars, jobs, workerVars, created, torn, opened,
                 taken, closed>>

(* hide(): the host's wish stands for a close signal.                      *)
Hide ==
  /\ HostCalls /\ created
  /\ user_closed' = None
  /\ IF Legal(lifecycle, "Hide")
     THEN /\ asked' = "hide"
          /\ lifecycle' = HiddenAtOnce(lifecycle)
          /\ events' = IF slint_window = None THEN events
                       ELSE Post([kind |-> "hide", of |-> slint_window])
     ELSE UNCHANGED <<lifecycle, asked, events>>
  /\ UNCHANGED <<slint_window, gui_worker, openVars, jobs, workerVars, created, torn, opened,
                 taken, closed>>

(* destroy(): the worker stays for the next create().                      *)
Destroy ==
  /\ HostCalls /\ created
  /\ CloseCurrentWindow
  /\ created' = FALSE /\ asked' = "none"
  /\ user_closed' = None /\ lifecycle' = "Destroyed"
  /\ UNCHANGED <<gui_worker, openVars, jobs, workerVars, torn, opened, taken>>

(* housekeeping(), asked for by the close callback.                        *)
Housekeeping ==
  /\ opening = None /\ ~torn /\ user_closed # None
  /\ user_closed' = None /\ lifecycle' = Reconciled
  /\ UNCHANGED <<slint_window, gui_worker, openVars, jobs, workerVars, events, hostVars, taken,
                 closed>>

(* teardown_gui_resources(), when the instance goes: the channel closes,   *)
(* the bounded join has no say in what follows.                            *)
KeepsOnTeardown == UNCHANGED <<slint_window, events, closed>>
ClosesOnTeardown == CloseCurrentWindow

Teardown ==
  /\ opening = None /\ ~torn
  /\ torn' = TRUE
  /\ ClosesOnTeardown
  /\ gui_worker' = IF gui_worker = "running" THEN "shut" ELSE gui_worker
  /\ UNCHANGED <<lifecycle, user_closed, openVars, jobs, workerVars, created, asked, opened,
                 requests, taken>>

-----------------------------------------------------------------------------
(* open_window(): the bounded wait.                                        *)
ReceiverDropped ==
  /\ opening' = None /\ timed_out' = FALSE /\ reply' = "none"
  /\ UNCHANGED <<user_closed, gui_worker, jobs, workerVars, events, hostVars, closed>>

WindowOpened ==
  /\ opening # None /\ ~timed_out /\ reply = "ok"
  /\ slint_window' = opening /\ taken' = taken \cup {opening}
  /\ lifecycle' = Promoted(lifecycle)
  /\ ReceiverDropped

WindowRefused ==
  /\ opening # None /\ ~timed_out /\ reply = "failed"
  /\ ReceiverDropped
  /\ UNCHANGED <<lifecycle, slint_window, taken>>

(* The wait ends empty-handed; the receiver lives a moment longer.         *)
OpenTimesOut ==
  /\ opening # None /\ reply = "none" /\ ~timed_out
  /\ timed_out' = TRUE
  /\ UNCHANGED <<lifecycle, slint_window, user_closed, gui_worker, opening, reply, jobs,
                 workerVars, events, hostVars, taken, closed>>

GiveUp ==
  /\ timed_out
  /\ ReceiverDropped
  /\ UNCHANGED <<lifecycle, slint_window, taken>>

-----------------------------------------------------------------------------
(* The worker thread.                                                      *)
WorkerStep ==
  UNCHANGED <<lifecycle, slint_window, gui_worker, opening, timed_out, hostVars, taken, closed>>

TakeJob ==
  /\ gui_worker # "none" /\ thread.at = "idle" /\ jobs # << >>
  /\ thread' = [at |-> "creating", of |-> Head(jobs)] /\ jobs' = Tail(jobs)
  /\ UNCHANGED <<user_closed, reply, visible, events>> /\ WorkerStep

Idle == [at |-> "idle", of |-> None]

(* No backend or no window: an error, if anybody still listens.            *)
CreateFails ==
  /\ thread.at = "creating"
  /\ thread' = Idle
  /\ reply' = IF opening = thread.of THEN "failed" ELSE reply
  /\ UNCHANGED <<user_closed, jobs, visible, events>> /\ WorkerStep

(* The window exists.  Nobody listens any more: it is dropped unseen.      *)
AnswerOpen ==
  /\ thread.at = "creating"
  /\ IF opening = thread.of
     THEN reply' = "ok" /\ thread' = [thread EXCEPT !.at = "answered"]
     ELSE thread' = Idle /\ UNCHANGED reply
  /\ UNCHANGED <<user_closed, jobs, visible, events>> /\ WorkerStep

(* window.show() and the start of the event loop.                          *)
ShowAndRun ==
  /\ thread.at = "answered"
  /\ thread' = [thread EXCEPT !.at = "looping"] /\ visible' = TRUE
  /\ UNCHANGED <<user_closed, reply, jobs, events>> /\ WorkerStep

(* A closure for a window that is gone finds nothing to upgrade.           *)
RunClosure ==
  /\ thread.at \in {"looping", "draining"} /\ events # << >> /\ Head(events).kind # "quit"
  /\ events' = Tail(events)
  /\ visible' = IF thread.at = "looping" /\ Head(events).of = thread.of
                THEN Head(events).kind = "show" ELSE visible
  /\ UNCHANGED <<user_closed, reply, jobs, thread>> /\ WorkerStep

(* A quit ends the loop that runs, whoever it was meant for.  The window is *)
(* hidden and dropped, and the loop run again up to a quit of its own, so  *)
(* that the display server hears of it.                                    *)
DrainWithoutQuit == Tail(events)
DrainEvents == Append(Tail(events), [kind |-> "quit", of |-> thread.of])

QuitLoop ==
  /\ thread.at = "looping" /\ events # << >> /\ Head(events).kind = "quit"
  /\ events' = DrainEvents
  /\ thread' = [thread EXCEPT !.at = "draining"] /\ visible' = FALSE
  /\ UNCHANGED <<user_closed, reply, jobs>> /\ WorkerStep

Drained ==
  /\ thread.at = "draining" /\ events # << >> /\ Head(events).kind = "quit"
  /\ events' = Tail(events)
  /\ thread' = Idle
  /\ UNCHANGED <<user_closed, reply, jobs, visible>> /\ WorkerStep

(* on_close_requested: the window is hidden, the loop goes on.             *)
UserCloses ==
  /\ thread.at = "looping" /\ visible
  /\ visible' = FALSE /\ user_closed' = thread.of
  /\ UNCHANGED <<reply, jobs, thread, events>> /\ WorkerStep

(* The channel is closed and empty.                                        *)
WorkerExits ==
  /\ gui_worker = "shut" /\ thread.at = "idle" /\ jobs = << >>
  /\ thread' = [at |-> "exited", of |-> None]
  /\ UNCHANGED <<user_closed, reply, jobs, visible, events>> /\ WorkerStep

-----------------------------------------------------------------------------
HostNext == Create \/ SpawnGui \/ Show \/ Hide \/ Destroy \/ Housekeeping \/ Teardown
OpenNext == WindowOpened \/ WindowRefused \/ OpenTimesOut \/ GiveUp
WorkerNext == TakeJob \/ CreateFails \/ AnswerOpen \/ ShowAndRun \/ RunClosure \/ QuitLoop
                \/ Drained \/ WorkerExits
Next == HostNext \/ OpenNext \/ WorkerNext \/ UserCloses

(* The worker goes on with what it has and the bounded wait ends.  Nothing *)
(* forces the host, the user or the host callback.                         *)
Spec == Init /\ [][Next]_vars /\ WF_vars(WorkerNext) /\ WF_vars(OpenNext)

-----------------------------------------------------------------------------
TypeOK ==
  /\ lifecycle \in {"Hidden", "ShowRequested", "Active", "Destroyed"}
  /\ {slint_window, user_closed, opening} \subseteq Generation \cup {None}
  /\ gui_worker \in {"none", "running", "shut"}
  /\ reply \in {"none", "ok", "failed"} /\ asked \in {"none", "show", "hide"}
  /\ {timed_out, visible, created, torn} \subseteq BOOLEAN
  /\ jobs \in Seq(Generation) /\ events \in Seq(Event)
  /\ thread \in [at : {"idle", "creating", "answered", "looping", "draining", "exited"},
                 of : Generation \cup {None}]
  /\ taken \subseteq Generation /\ closed \subseteq taken
  /\ opened \in 0 .. MaxGenerations /\ requests \in 0 .. MaxRequests

(* The event loop of the current window has caught up with the main thread. *)
Settled ==
  /\ slint_window # None /\ thread = [at |-> "looping", of |-> slint_window]
  /\ events = << >>

(* No window loses its event loop to a quit meant for another one: a loop  *)
(* ends only after the main thread closed its own window (gui.rs:107-113). *)
QuitHitsItsWindow ==
  [][thread.at = "looping" /\ thread'.at # "looping" => thread.of \in closed]_vars

(* What the state machine believes is what the user sees, once the loop    *)
(* has caught up: a window that counts as active, with no close pending,   *)
(* is on the screen, and one the host was granted to hide is not           *)
(* (lifecycle.rs:25, gui.rs:612-616).                                      *)
BelievedIsSeen ==
  Settled =>
    /\ lifecycle = "Active" /\ user_closed = None => visible
    /\ asked = "hide" => ~visible

(* A generation nobody has a handle of: its answer was sent between the    *)
(* end of the bounded wait and the end of its receiver.                    *)
Orphan == thread.of # None /\ thread.of \notin taken /\ opening # thread.of

(* Every window the main thread closes goes, also when it is closed before *)
(* its loop runs, and leaves the worker free for the next one.             *)
ClosedWindowGoes == \A g \in Generation : g \in closed ~> thread.of # g

(* The worker ends after the instance, except with an orphan.              *)
WorkerEnds == (torn /\ gui_worker = "shut") ~> (thread.at = "exited" \/ Orphan)

(* Not kept by the code.  "Never shows the window before the host calls    *)
(* show()" (lifecycle.rs:10): the worker shows every window it opens.      *)
ShownOnRequest == visible /\ thread.of = slint_window => asked # "none"

(* Not kept by the code.  "A new GUI generation must not inherit a close   *)
(* signal from a previous window" (gui.rs:478): set_transient() replaces   *)
(* the window and keeps the signal.                                        *)
CloseIsOwn == user_closed # None /\ slint_window # None => user_closed = slint_window

(* Not kept by the code.  A window "the host main thread gave up waiting"  *)
(* for is dropped (worker.rs:258): one answered between the end of the     *)
(* wait and the end of the receiver stays, and no later one opens.         *)
NoOrphanStays == Orphan ~> ~Orphan
=============================================================================
