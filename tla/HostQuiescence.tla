--------------------------- MODULE HostQuiescence ---------------------------
(***************************************************************************)
(* Teardown of a plugin instance against the threads that may be inside a  *)
(* call to the host: GUI worker, model loader, file dialogs and whoever    *)
(* logs. Two coordinators, HostLogQuiescence and HostCallQuiescence, each  *)
(* a mutex over (active, in_flight) and a condition variable; the drop of  *)
(* NamClapMainThread quiesces them, through an RAII guard when a teardown  *)
(* step panics. Threads may outlive destroy() (the reaper keeps them), so  *)
(* they go on trying to enter for ever.                                    *)
(*                                                                         *)
(* A critical section in which another thread could change what the holder *)
(* reads (the fence is outside the mutex) is two steps; every other one is *)
(* a single step taken while the mutex is free.                            *)
(***************************************************************************)
EXTENDS Naturals, FiniteSets

CONSTANTS
  Threads,   \* threads that call the host or log
  Main,      \* the main thread, which runs destroy()
  Nobody     \* a free mutex, an absent coordinator

Coordinators == {"log", "call"}

ASSUME QuiescenceAssumption ==
  /\ IsFiniteSet(Threads)
  /\ Main \notin Threads
  /\ Nobody \notin Threads \cup {Main} \cup Coordinators

VARIABLES
  (* one entry per coordinator *)
  active,      \* QuiescenceState.active
  in_flight,   \* QuiescenceState.in_flight
  mutex,       \* who holds the state mutex, or Nobody
  (* shared *)
  alive_fence, \* ColdShared.alive_fence
  sink,        \* the log sink of the instance is registered in NamLogger
  (* background threads *)
  at,          \* where thread t is in enter / call / guard drop
  via,         \* the coordinator it goes through
  (* main thread *)
  step,        \* the step of NamClapMainThread::drop
  wait,        \* where quiesce_state is
  unwinding    \* a teardown step panicked

threadVars == <<at, via>>
mainVars == <<step, wait, unwinding>>
vars == <<active, in_flight, mutex, alive_fence, sink, threadVars, mainVars>>

Places == {"idle", "checking", "admitted", "inside", "leaving", "waking"}

Steps == {"alive", "emit_logs", "unregister", "quiesce_log", "clear_sink",
          "timer", "fence", "requiesce_log", "quiesce_call", "gui", "destroyed"}

Waits == {"start", "timed", "timed_wait", "timed_woken",
          "stalled", "relock", "untimed", "untimed_wait"}

Init ==
  /\ active = [c \in Coordinators |-> TRUE]
  /\ in_flight = [c \in Coordinators |-> 0]
  /\ mutex = [c \in Coordinators |-> Nobody]
  /\ alive_fence = TRUE
  /\ sink = TRUE
  /\ at = [t \in Threads |-> "idle"]
  /\ via = [t \in Threads |-> "log"]
  /\ step = "alive"
  /\ wait = "start"
  /\ unwinding = FALSE

-----------------------------------------------------------------------------
(* Background threads: enter(), the host call, the drop of the guard.      *)

(* Mutations: the gate is not looked at, or only the fence is.             *)
AdmitsAlways(c) == TRUE
AdmitsByFence(c) == c = "call" => alive_fence

(* enter() lets a call through: only HostCallQuiescence reads the fence.   *)
Admits(c) == active[c] /\ (c = "call" => alive_fence)

(* enter(): state.lock().                                                  *)
LockToEnter(t, c) ==
  /\ at[t] = "idle"
  /\ mutex[c] = Nobody
  /\ mutex' = [mutex EXCEPT ![c] = t]
  /\ at' = [at EXCEPT ![t] = "checking"]
  /\ via' = [via EXCEPT ![t] = c]
  /\ UNCHANGED <<active, in_flight, alive_fence, sink, mainVars>>

(* enter() returns None: the host is not contacted.                        *)
Refused(t) ==
  /\ at[t] = "checking"
  /\ ~Admits(via[t])
  /\ mutex' = [mutex EXCEPT ![via[t]] = Nobody]
  /\ at' = [at EXCEPT ![t] = "idle"]
  /\ UNCHANGED <<active, in_flight, alive_fence, sink, via, mainVars>>

Admitted(t) ==
  /\ at[t] = "checking"
  /\ Admits(via[t])
  /\ at' = [at EXCEPT ![t] = "admitted"]
  /\ UNCHANGED <<active, in_flight, mutex, alive_fence, sink, via, mainVars>>

(* in_flight += 1, unlock: the thread goes on into the host.               *)
EnterHost(t) ==
  /\ at[t] = "admitted"
  /\ in_flight' = [in_flight EXCEPT ![via[t]] = @ + 1]
  /\ mutex' = [mutex EXCEPT ![via[t]] = Nobody]
  /\ at' = [at EXCEPT ![t] = "inside"]
  /\ UNCHANGED <<active, alive_fence, sink, via, mainVars>>

(* The host returns from log(), request_callback(), request_flush(),       *)
(* closed().                                                               *)
HostReturns(t) ==
  /\ at[t] = "inside"
  /\ at' = [at EXCEPT ![t] = "leaving"]
  /\ UNCHANGED <<active, in_flight, mutex, alive_fence, sink, via, mainVars>>

(* Mutation: the count is left alone. *)
CountKept(n) == n

(* in_flight.saturating_sub(1).                                            *)
Decrement(n) == IF n = 0 THEN 0 ELSE n - 1

(* Mutation: the last guard is recognised by the count before it leaves.   *)
WakesOnOldCount(n) == n = 0

(* The guard that brings the count to zero wakes the main thread.          *)
Wakes(n) == Decrement(n) = 0

(* Drop of the guard: lock, decrement, unlock.                             *)
DropGuard(t) ==
  /\ at[t] = "leaving"
  /\ mutex[via[t]] = Nobody
  /\ in_flight' = [in_flight EXCEPT ![via[t]] = Decrement(@)]
  /\ at' = [at EXCEPT ![t] = IF Wakes(in_flight[via[t]]) THEN "waking" ELSE "idle"]
  /\ UNCHANGED <<active, mutex, alive_fence, sink, via, mainVars>>

-----------------------------------------------------------------------------
(* Main thread: quiesce_state.                                             *)

(* The coordinator a step of the teardown quiesces.                        *)
Quiescing ==
  CASE step \in {"quiesce_log", "requiesce_log"} -> "log"
    [] step = "quiesce_call"                     -> "call"
    [] OTHER                                     -> Nobody

(* The step that follows: drop runs top to bottom; after a panic the guard *)
(* runs the fence and the two barriers and the rest is skipped.            *)
After(s) ==
  CASE s = "alive"         -> "emit_logs"
    [] s = "emit_logs"     -> "unregister"
    [] s = "unregister"    -> "quiesce_log"
    [] s = "quiesce_log"   -> "clear_sink"
    [] s = "clear_sink"    -> "timer"
    [] s = "timer"         -> "fence"
    [] s = "fence"         -> "requiesce_log"
    [] s = "requiesce_log" -> "quiesce_call"
    [] s = "quiesce_call"  -> IF unwinding THEN "destroyed" ELSE "gui"
    [] OTHER               -> "destroyed"

(* notify_all, outside the mutex: wakes the main thread if it sleeps on    *)
(* that condition variable, and is lost otherwise.                         *)
Notify(t) ==
  /\ at[t] = "waking"
  /\ at' = [at EXCEPT ![t] = "idle"]
  /\ wait' = IF Quiescing # via[t] THEN wait
             ELSE IF wait = "timed_wait" THEN "timed_woken"
             ELSE IF wait = "untimed_wait" THEN "relock"
             ELSE wait
  /\ UNCHANGED <<active, in_flight, mutex, alive_fence, sink, via, step, unwinding>>

(* Lock, then active = false: no call is admitted from here on.            *)
CloseGate ==
  /\ Quiescing # Nobody
  /\ wait = "start"
  /\ mutex[Quiescing] = Nobody
  /\ mutex' = [mutex EXCEPT ![Quiescing] = Main]
  /\ active' = [active EXCEPT ![Quiescing] = FALSE]
  /\ wait' = "timed"
  /\ UNCHANGED <<in_flight, alive_fence, sink, threadVars, step, unwinding>>

(* The count is zero: unlock and return, in either wait.                   *)
Quiesced ==
  /\ wait \in {"timed", "untimed"}
  /\ in_flight[Quiescing] = 0
  /\ mutex' = [mutex EXCEPT ![Quiescing] = Nobody]
  /\ step' = After(step)
  /\ wait' = "start"
  /\ UNCHANGED <<active, in_flight, alive_fence, sink, threadVars, unwinding>>

(* wait_timeout and wait: unlock and sleep in one step.                    *)
Sleep ==
  /\ wait \in {"timed", "untimed"}
  /\ in_flight[Quiescing] > 0
  /\ mutex' = [mutex EXCEPT ![Quiescing] = Nobody]
  /\ wait' = IF wait = "timed" THEN "timed_wait" ELSE "untimed_wait"
  /\ UNCHANGED <<active, in_flight, alive_fence, sink, threadVars, step, unwinding>>

(* The timeout of the first wait, or a wake-up nobody asked for.           *)
WakeUnasked ==
  /\ wait \in {"timed_wait", "untimed_wait"}
  /\ wait' = IF wait = "timed_wait" THEN "timed_woken" ELSE "relock"
  /\ UNCHANGED <<active, in_flight, mutex, alive_fence, sink, threadVars, step,
                 unwinding>>

Relock ==
  /\ wait \in {"timed_woken", "relock"}
  /\ mutex[Quiescing] = Nobody
  /\ mutex' = [mutex EXCEPT ![Quiescing] = Main]
  /\ wait' = IF wait = "timed_woken" THEN "timed" ELSE "untimed"
  /\ UNCHANGED <<active, in_flight, alive_fence, sink, threadVars, step, unwinding>>

(* The grace period is over with calls in flight: unlock.                  *)
Stall ==
  /\ wait = "timed"
  /\ in_flight[Quiescing] > 0
  /\ mutex' = [mutex EXCEPT ![Quiescing] = Nobody]
  /\ wait' = "stalled"
  /\ UNCHANGED <<active, in_flight, alive_fence, sink, threadVars, step, unwinding>>

(* Mutation: after the grace period quiesce gives up. *)
StallGivesUp == [step |-> After(step), wait |-> "start"]

(* Where quiesce_state goes after the diagnostic: to the unbounded wait.   *)
StallContinues == [step |-> step, wait |-> "relock"]

(* The E2130 / E2131 diagnostic. While the sink is registered it comes     *)
(* back into the plugin's own sink, which locks the log coordinator.       *)
ReportStall ==
  /\ wait = "stalled"
  /\ sink => mutex["log"] = Nobody
  /\ step' = StallContinues.step
  /\ wait' = StallContinues.wait
  /\ UNCHANGED <<active, in_flight, mutex, alive_fence, sink, threadVars, unwinding>>

-----------------------------------------------------------------------------
(* Main thread: NamClapMainThread::drop.                                   *)

(* Mutation: teardown without the guard. *)
PanicSkipsGuard == "destroyed"

(* What a panic in a teardown step unwinds into: TeardownQuiescenceGuard.  *)
PanicRuns == "fence"

(* A step that does not quiesce: its effect, then the next one.            *)
TeardownStep ==
  /\ Quiescing = Nobody
  /\ step # "destroyed"
  /\ step' = After(step)
  /\ sink' = (sink /\ step # "unregister")
  /\ alive_fence' = (alive_fence /\ step # "fence")
  /\ UNCHANGED <<active, in_flight, mutex, threadVars, wait, unwinding>>

(* A step before the guard ran panics; drop unwinds into the guard.        *)
TeardownPanics ==
  /\ step \in {"emit_logs", "unregister", "clear_sink", "timer"}
  /\ step' = PanicRuns
  /\ unwinding' = TRUE
  /\ UNCHANGED <<active, in_flight, mutex, alive_fence, sink, threadVars, wait>>

-----------------------------------------------------------------------------
(* A thread that has begun a call finishes it.                             *)
Proceed(t) ==
  \/ Refused(t) \/ Admitted(t) \/ EnterHost(t)
  \/ HostReturns(t) \/ DropGuard(t) \/ Notify(t)

ThreadNext(t) == Proceed(t) \/ \E c \in Coordinators : LockToEnter(t, c)

(* What the main thread does by itself: a sleeping wait is not in it.      *)
MainProceeds ==
  CloseGate \/ Quiesced \/ Sleep \/ Relock \/ Stall \/ ReportStall \/ TeardownStep

MainNext == MainProceeds \/ WakeUnasked \/ TeardownPanics

Next == MainNext \/ \E t \in Threads : ThreadNext(t)

Spec == Init /\ [][Next]_vars

(* Every host call returns (without that, destroy() is documented to block *)
(* for ever) and a thread waiting for a mutex that is free again and again *)
(* gets it. Nothing is assumed of timeouts and spurious wake-ups.          *)
FairSpec ==
  /\ Spec
  /\ SF_vars(MainProceeds)
  /\ \A t \in Threads : SF_vars(Proceed(t))

-----------------------------------------------------------------------------
(* Properties.                                                             *)

(* Types; a call is counted at most once per thread.                       *)
TypeOK ==
  /\ active \in [Coordinators -> BOOLEAN]
  /\ in_flight \in [Coordinators -> 0..Cardinality(Threads)]
  /\ mutex \in [Coordinators -> Threads \cup {Main, Nobody}]
  /\ alive_fence \in BOOLEAN /\ sink \in BOOLEAN /\ unwinding \in BOOLEAN
  /\ at \in [Threads -> Places]
  /\ via \in [Threads -> Coordinators]
  /\ step \in Steps
  /\ wait \in Waits

InHost(t) == at[t] = "inside"

(* The host may free its handle once destroy() has returned: no thread is  *)
(* inside a host call then, on the normal path and after a panic alike.    *)
NoCallAfterDestroy == step = "destroyed" => \A t \in Threads : ~InHost(t)

(* The sink is taken out of the shared state, and the GUI torn down, only  *)
(* when no thread is dispatching through what goes away.                   *)
NoCallThroughTornDown ==
  \A t \in Threads : InHost(t) =>
    /\ step \in {"clear_sink", "timer"} => via[t] # "log"
    /\ step # "gui"

(* A call admitted before the fence fell may still be counted after it,    *)
(* but once a barrier has returned its count never rises again, however    *)
(* often the threads that outlive the instance knock.                      *)
BarrierIsFinal ==
  [][\A c \in Coordinators :
       (~active[c] /\ in_flight[c] = 0) => (~active'[c] /\ in_flight'[c] = 0)]_vars

(* destroy() returns whenever the host returns from its calls: the wake-up *)
(* of the last guard is not lost between the check and the sleep, and the  *)
(* diagnostic does not deadlock on the mutex it reports about.             *)
DestroyReturns == step # "alive" ~> step = "destroyed"

(* The protocol implements the barrier the host relies on.                 *)
Barrier == INSTANCE HostCallBarrier WITH
  gate <- active,
  inside <- [t \in Threads |-> IF InHost(t) THEN via[t] ELSE Nobody],
  returned <- step = "destroyed"

ImplementsBarrier == Barrier!Spec

=============================================================================
