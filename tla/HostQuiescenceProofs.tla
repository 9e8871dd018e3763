------------------------ MODULE HostQuiescenceProofs ------------------------
(***************************************************************************)
(* Proofs about HostQuiescence, for any finite set of threads. The         *)
(* argument: a thread is let in only under the mutex and with the gate     *)
(* open, so a count that is zero behind a shut gate stays zero, and        *)
(* in_flight counts exactly the threads between the two halves of the      *)
(* guard. Every path to "destroyed" goes through both barriers.            *)
(***************************************************************************)
EXTENDS HostQuiescence, FiniteSetTheorems, TLAPS

Types ==
  /\ active \in [Coordinators -> BOOLEAN]
  /\ in_flight \in [Coordinators -> Nat]
  /\ mutex \in [Coordinators -> Threads \cup {Main, Nobody}]
  /\ alive_fence \in BOOLEAN /\ sink \in BOOLEAN /\ unwinding \in BOOLEAN
  /\ at \in [Threads -> Places]
  /\ via \in [Threads -> Coordinators]
  /\ step \in Steps
  /\ wait \in Waits

(* The threads whose guard is counted in in_flight[c].                     *)
Counted(c) == {t \in Threads : at[t] \in {"inside", "leaving"} /\ via[t] = c}

Ledger == \A c \in Coordinators : in_flight[c] = Cardinality(Counted(c))

(* A thread inside enter() holds the mutex of its coordinator.             *)
Holder == \A t \in Threads : at[t] \in {"checking", "admitted"} => mutex[via[t]] = t

AdmittedOpen == \A t \in Threads : at[t] = "admitted" => active[via[t]]

(* quiesce_state is under way on a coordinator whose gate it has shut.     *)
WaitShape == wait # "start" => Quiescing # Nobody /\ ~active[Quiescing]

(* It looks at the count under the mutex.                                  *)
MainHolds == wait \in {"timed", "untimed"} => mutex[Quiescing] = Main

Drained(c) == ~active[c] /\ in_flight[c] = 0

(* The barriers a step of the teardown has behind it.                      *)
Behind ==
  /\ step \in {"clear_sink", "timer", "quiesce_call", "gui", "destroyed"} => Drained("log")
  /\ step \in {"gui", "destroyed"} => Drained("call")

IInv == Types /\ Ledger /\ Holder /\ AdmittedOpen /\ WaitShape /\ MainHolds /\ Behind

-----------------------------------------------------------------------------
(* The steps of a teardown, named by the coordinator they quiesce.         *)
LEMMA QuiescingValues ==
  /\ step \in {"quiesce_log", "requiesce_log"} <=> Quiescing = "log"
  /\ step = "quiesce_call" <=> Quiescing = "call"
  /\ Quiescing \in Coordinators \cup {Nobody}
BY QuiescenceAssumption DEF Quiescing, Coordinators

(* The order of the teardown.                                              *)
LEMMA AfterValues ==
  /\ step = "alive" => After(step) = "emit_logs"
  /\ step = "emit_logs" => After(step) = "unregister"
  /\ step = "unregister" => After(step) = "quiesce_log"
  /\ step = "quiesce_log" => After(step) = "clear_sink"
  /\ step = "clear_sink" => After(step) = "timer"
  /\ step = "timer" => After(step) = "fence"
  /\ step = "fence" => After(step) = "requiesce_log"
  /\ step = "requiesce_log" => After(step) = "quiesce_call"
  /\ step = "quiesce_call" => After(step) \in {"destroyed", "gui"}
  /\ step \in {"gui", "destroyed"} => After(step) = "destroyed"
BY Zenon DEF After

(* A step that leaves the threads and the counters alone keeps the ledger  *)
(* of the guards.                                                          *)
LEMMA ThreadsUntouched ==
  ASSUME Ledger, UNCHANGED <<at, via, in_flight>>
  PROVE  Ledger'
<1>1. \A c \in Coordinators : Counted(c)' = Counted(c)
  BY DEF Counted
<1> QED BY <1>1 DEF Ledger

(* A set of counted threads is finite and its count a natural number.      *)
LEMMA CountedFinite ==
  ASSUME NEW c \in Coordinators
  PROVE  IsFiniteSet(Counted(c)) /\ Cardinality(Counted(c)) \in Nat
<1>1. Counted(c) \subseteq Threads
  BY DEF Counted
<1>2. IsFiniteSet(Counted(c))
  BY <1>1, FS_Subset, QuiescenceAssumption
<1> QED BY <1>2, FS_CardinalityType

(* A zero count means that nobody is inside.                               *)
LEMMA ZeroMeansNobody ==
  ASSUME Ledger, NEW c \in Coordinators, in_flight[c] = 0,
         NEW t \in Threads, via[t] = c
  PROVE  at[t] \notin {"inside", "leaving"}
<1>1. Counted(c) = {}
  BY CountedFinite, FS_EmptySet DEF Ledger
<1> QED BY <1>1 DEF Counted

LEMMA InitIInv == Init => IInv
<1> SUFFICES ASSUME Init PROVE IInv
  OBVIOUS
<1>1. Types
  BY DEF Init, Types, Places, Steps, Waits, Coordinators
<1>2. Ledger
  <2>1. \A c \in Coordinators : Counted(c) = {}
    BY DEF Init, Counted
  <2> QED BY <2>1, FS_EmptySet DEF Ledger, Init
<1>3. Holder /\ AdmittedOpen
  BY DEF Init, Holder, AdmittedOpen
<1>4. WaitShape /\ MainHolds /\ Behind
  BY DEF Init, WaitShape, MainHolds, Behind
<1> QED BY <1>1, <1>2, <1>3, <1>4 DEF IInv

-----------------------------------------------------------------------------
(* The steps of a thread that do not touch the counters.                   *)
LEMMA QuietThreadStep ==
  ASSUME IInv, NEW t \in Threads, NEW p \in Places,
         at' = [at EXCEPT ![t] = p], UNCHANGED <<via, in_flight>>,
         at[t] \in {"inside", "leaving"} <=> p \in {"inside", "leaving"}
  PROVE  Ledger'
<1>1. \A c \in Coordinators : Counted(c)' = Counted(c)
  BY DEF IInv, Types, Counted
<1> QED BY <1>1 DEF IInv, Ledger

LEMMA LockToEnterStep ==
  ASSUME IInv, NEW t \in Threads, NEW c \in Coordinators, LockToEnter(t, c)
  PROVE  IInv'
<1>1. Types'
  BY DEF IInv, Types, LockToEnter, mainVars, Places
<1>2. Ledger'
  <2>1. \A d \in Coordinators : Counted(d)' = Counted(d)
    BY DEF IInv, Types, LockToEnter, Counted
  <2> QED BY <2>1 DEF IInv, Ledger, LockToEnter
<1>3. Holder'
  <2> SUFFICES ASSUME NEW u \in Threads, at'[u] \in {"checking", "admitted"}
               PROVE  mutex'[via'[u]] = u
    BY DEF Holder
  <2>1. CASE u = t
    BY <2>1 DEF IInv, Types, LockToEnter
  <2>2. CASE u # t
    <3>1. mutex[via[u]] = u /\ at[u] = at'[u] /\ via'[u] = via[u]
      BY <2>2 DEF IInv, Types, LockToEnter, Holder
    <3>2. via[u] # c
      BY <3>1, QuiescenceAssumption DEF LockToEnter
    <3> QED BY <3>1, <3>2 DEF IInv, Types, LockToEnter
  <2> QED BY <2>1, <2>2
<1>4. AdmittedOpen'
  BY DEF IInv, Types, LockToEnter, AdmittedOpen
<1>5. WaitShape' /\ Behind'
  BY DEF IInv, WaitShape, Behind, Drained, LockToEnter, mainVars, Quiescing
<1>7. MainHolds'
  <2>1. Quiescing' = Quiescing /\ wait' = wait
    BY DEF LockToEnter, mainVars, Quiescing
  <2>2. wait \in {"timed", "untimed"} => Quiescing \in Coordinators /\ mutex[Quiescing] = Main
    BY QuiescingValues DEF IInv, WaitShape, MainHolds
  <2> QED BY <2>1, <2>2, QuiescenceAssumption DEF IInv, Types, LockToEnter, Holder, MainHolds
<1> QED BY <1>1, <1>2, <1>3, <1>4, <1>5, <1>7 DEF IInv

LEMMA RefusedStep ==
  ASSUME IInv, NEW t \in Threads, Refused(t)
  PROVE  IInv'
<1>1. Types'
  BY DEF IInv, Types, Refused, mainVars, Places
<1>2. Ledger'
  BY QuietThreadStep DEF Refused, Places
<1>3. Holder'
  BY QuiescenceAssumption DEF IInv, Types, Refused, Holder
<1>4. AdmittedOpen'
  BY DEF IInv, Types, Refused, AdmittedOpen
<1>5. WaitShape' /\ Behind'
  BY DEF IInv, WaitShape, Behind, Drained, Refused, mainVars, Quiescing
<1>7. MainHolds'
  <2>1. Quiescing' = Quiescing /\ wait' = wait
    BY DEF Refused, mainVars, Quiescing
  <2>2. wait \in {"timed", "untimed"} => Quiescing \in Coordinators /\ mutex[Quiescing] = Main
    BY QuiescingValues DEF IInv, WaitShape, MainHolds
  <2> QED BY <2>1, <2>2, QuiescenceAssumption DEF IInv, Types, Refused, Holder, MainHolds
<1> QED BY <1>1, <1>2, <1>3, <1>4, <1>5, <1>7 DEF IInv

LEMMA AdmittedStep ==
  ASSUME IInv, NEW t \in Threads, Admitted(t)
  PROVE  IInv'
<1>1. Types'
  BY DEF IInv, Types, Admitted, mainVars, Places
<1>2. Ledger'
  BY QuietThreadStep DEF Admitted, Places
<1>3. Holder'
  BY DEF IInv, Types, Admitted, Holder
<1>4. AdmittedOpen'
  BY DEF IInv, Types, Admitted, Admits, AdmittedOpen
<1>5. WaitShape' /\ Behind'
  BY DEF IInv, WaitShape, Behind, Drained, Admitted, mainVars, Quiescing
<1>7. MainHolds'
  BY DEF IInv, Admitted, mainVars, MainHolds, Quiescing
<1> QED BY <1>1, <1>2, <1>3, <1>4, <1>5, <1>7 DEF IInv

LEMMA HostReturnsStep ==
  ASSUME IInv, NEW t \in Threads, HostReturns(t)
  PROVE  IInv'
<1>1. Types'
  BY DEF IInv, Types, HostReturns, mainVars, Places
<1>2. Ledger'
  BY QuietThreadStep DEF HostReturns, Places
<1>3. Holder' /\ AdmittedOpen'
  BY DEF IInv, Types, HostReturns, Holder, AdmittedOpen
<1>4. WaitShape' /\ Behind'
  BY DEF IInv, WaitShape, Behind, Drained, HostReturns, mainVars, Quiescing
<1>7. MainHolds'
  BY DEF IInv, HostReturns, mainVars, MainHolds, Quiescing
<1> QED BY <1>1, <1>2, <1>3, <1>4, <1>7 DEF IInv

(* The guard is created: one more thread is counted, behind an open gate.  *)
LEMMA EnterHostStep ==
  ASSUME IInv, NEW t \in Threads, EnterHost(t)
  PROVE  IInv'
<1> DEFINE c == via[t]
<1>0. c \in Coordinators /\ active[c] /\ mutex[c] = t
  BY DEF IInv, Types, EnterHost, AdmittedOpen, Holder
<1>1. Types'
  BY DEF IInv, Types, EnterHost, mainVars, Places
<1>2. Ledger'
  <2> SUFFICES ASSUME NEW d \in Coordinators
               PROVE  in_flight'[d] = Cardinality(Counted(d)')
    BY DEF Ledger
  <2>1. CASE d = c
    <3>1. t \notin Counted(d) /\ Counted(d)' = Counted(d) \cup {t}
      BY <2>1 DEF IInv, Types, EnterHost, Counted
    <3>2. Cardinality(Counted(d) \cup {t}) = Cardinality(Counted(d)) + 1
      BY <3>1, CountedFinite, FS_AddElement
    <3>3. in_flight'[d] = in_flight[d] + 1
      BY <2>1 DEF IInv, Types, EnterHost
    <3> QED BY <3>1, <3>2, <3>3 DEF IInv, Ledger
  <2>2. CASE d # c
    <3>1. Counted(d)' = Counted(d)
      BY <2>2 DEF IInv, Types, EnterHost, Counted
    <3>2. in_flight'[d] = in_flight[d]
      BY <2>2 DEF IInv, Types, EnterHost
    <3> QED BY <3>1, <3>2 DEF IInv, Ledger
  <2> QED BY <2>1, <2>2
<1>3. Holder'
  BY QuiescenceAssumption DEF IInv, Types, EnterHost, Holder
<1>4. AdmittedOpen'
  BY DEF IInv, Types, EnterHost, AdmittedOpen
<1>5. WaitShape'
  BY DEF IInv, WaitShape, EnterHost, mainVars, Quiescing
<1>6. Behind'
  <2>1. \A d \in Coordinators : Drained(d) => Drained(d)'
    BY <1>0 DEF IInv, Types, Drained, EnterHost
  <2> QED BY <2>1 DEF IInv, Behind, EnterHost, mainVars, Coordinators
<1>7. MainHolds'
  <2>1. Quiescing' = Quiescing /\ wait' = wait
    BY DEF EnterHost, mainVars, Quiescing
  <2>2. wait \in {"timed", "untimed"} => Quiescing \in Coordinators /\ mutex[Quiescing] = Main
    BY QuiescingValues DEF IInv, WaitShape, MainHolds
  <2> QED BY <2>1, <2>2, QuiescenceAssumption DEF IInv, Types, EnterHost, Holder, MainHolds
<1> QED BY <1>1, <1>2, <1>3, <1>4, <1>5, <1>6, <1>7 DEF IInv

(* The guard is dropped: one thread less is counted.                       *)
LEMMA DropGuardStep ==
  ASSUME IInv, NEW t \in Threads, DropGuard(t)
  PROVE  IInv'
<1> DEFINE c == via[t]
<1>0. c \in Coordinators /\ t \in Counted(c) /\ at'[t] \in {"waking", "idle"}
  BY DEF IInv, Types, DropGuard, Counted
<1>1. Types'
  BY DEF IInv, Types, DropGuard, Decrement, mainVars, Places
<1>2. Ledger'
  <2> SUFFICES ASSUME NEW d \in Coordinators
               PROVE  in_flight'[d] = Cardinality(Counted(d)')
    BY DEF Ledger
  <2>1. CASE d = c
    <3>1. Counted(d)' = Counted(d) \ {t}
      BY <1>0, <2>1 DEF IInv, Types, DropGuard, Counted
    <3>2. Cardinality(Counted(d) \ {t}) = Cardinality(Counted(d)) - 1
      BY <1>0, <2>1, CountedFinite, FS_RemoveElement
    <3>3. Counted(d) # {}
      BY <1>0, <2>1
    <3>4. in_flight[d] # 0
      BY <3>3, CountedFinite, FS_EmptySet DEF IInv, Ledger
    <3>5. in_flight'[d] = in_flight[d] - 1
      BY <2>1, <3>4 DEF IInv, Types, DropGuard, Decrement
    <3> QED BY <3>1, <3>2, <3>5 DEF IInv, Ledger
  <2>2. CASE d # c
    <3>1. Counted(d)' = Counted(d)
      BY <1>0, <2>2 DEF IInv, Types, DropGuard, Counted
    <3>2. in_flight'[d] = in_flight[d]
      BY <2>2 DEF IInv, Types, DropGuard
    <3> QED BY <3>1, <3>2 DEF IInv, Ledger
  <2> QED BY <2>1, <2>2
<1>3. Holder'
  BY <1>0 DEF IInv, Types, DropGuard, Holder
<1>4. AdmittedOpen'
  BY <1>0 DEF IInv, Types, DropGuard, AdmittedOpen
<1>5. WaitShape'
  BY DEF IInv, WaitShape, DropGuard, mainVars, Quiescing
<1>6. Behind'
  <2>1. \A d \in Coordinators : Drained(d) => Drained(d)'
    BY <1>0 DEF IInv, Types, Drained, DropGuard, Decrement
  <2> QED BY <2>1 DEF IInv, Behind, DropGuard, mainVars, Coordinators
<1>7. MainHolds'
  BY DEF IInv, DropGuard, mainVars, MainHolds, Quiescing
<1> QED BY <1>1, <1>2, <1>3, <1>4, <1>5, <1>6, <1>7 DEF IInv

LEMMA NotifyStep ==
  ASSUME IInv, NEW t \in Threads, Notify(t)
  PROVE  IInv'
<1>1. Types'
  BY DEF IInv, Types, Notify, Places, Waits
<1>2. Ledger'
  BY QuietThreadStep DEF Notify, Places
<1>3. Holder' /\ AdmittedOpen'
  BY DEF IInv, Types, Notify, Holder, AdmittedOpen
<1>4. WaitShape' /\ MainHolds' /\ Behind'
  BY DEF IInv, WaitShape, MainHolds, Behind, Drained, Notify, Quiescing
<1> QED BY <1>1, <1>2, <1>3, <1>4 DEF IInv

-----------------------------------------------------------------------------
(* The main thread shuts a gate: nobody is between check and count then.   *)
LEMMA CloseGateStep ==
  ASSUME IInv, CloseGate
  PROVE  IInv'
<1>0. Quiescing \in Coordinators
  BY QuiescingValues DEF CloseGate
<1>1. Types'
  BY <1>0 DEF IInv, Types, CloseGate, threadVars, Waits
<1>2. Ledger'
  BY ThreadsUntouched DEF IInv, CloseGate, threadVars
<1>3. \A t \in Threads : at[t] \in {"checking", "admitted"} => via[t] # Quiescing
  BY QuiescenceAssumption DEF IInv, Types, CloseGate, Holder
<1>4. Holder' /\ AdmittedOpen'
  BY <1>0, <1>3 DEF IInv, Types, CloseGate, threadVars, Holder, AdmittedOpen
<1>5. WaitShape'
  BY <1>0 DEF IInv, Types, WaitShape, CloseGate, Quiescing
<1>6. Behind'
  BY <1>0 DEF IInv, Types, Behind, Drained, CloseGate, Coordinators
<1>7. MainHolds'
  BY <1>0 DEF IInv, Types, CloseGate, MainHolds, Quiescing
<1> QED BY <1>1, <1>2, <1>4, <1>5, <1>6, <1>7 DEF IInv

(* The barrier returns: the coordinator it quiesced is drained.            *)
LEMMA QuiescedStep ==
  ASSUME IInv, Quiesced
  PROVE  IInv'
<1>0. Quiescing \in Coordinators /\ Drained(Quiescing)
  BY QuiescingValues DEF IInv, Quiesced, WaitShape, Drained
<1>1. Types'
  <2>1. After(step) \in Steps
    BY AfterValues DEF IInv, Types, Steps
  <2>2. step' = After(step)
    BY DEF Quiesced
  <2>3. /\ mutex' \in [Coordinators -> Threads \cup {Main, Nobody}]
        /\ wait' \in Waits
    BY <1>0 DEF IInv, Types, Quiesced, Waits
  <2> QED BY <2>1, <2>2, <2>3 DEF IInv, Types, Quiesced, threadVars
<1>2. Ledger'
  BY ThreadsUntouched DEF IInv, Quiesced, threadVars
<1>3. Holder'
  <2> SUFFICES ASSUME NEW t \in Threads, at[t] \in {"checking", "admitted"}
               PROVE  mutex'[via[t]] = t
    BY DEF Holder, Quiesced, threadVars
  <2>2. mutex[via[t]] = t
    BY DEF IInv, Holder
  <2>3. CASE via[t] # Quiescing
    BY <2>2, <2>3, <1>0 DEF IInv, Types, Quiesced
  <2>4. CASE via[t] = Quiescing
    BY <2>2, <2>4, QuiescenceAssumption DEF IInv, MainHolds, Quiesced
  <2> QED BY <2>3, <2>4
<1>4. AdmittedOpen'
  BY DEF IInv, Quiesced, threadVars, AdmittedOpen
<1>5. WaitShape'
  BY DEF Quiesced, WaitShape
<1>6. Behind'
  <2>1. CASE step \in {"quiesce_log", "requiesce_log"}
    BY <2>1, <1>0, QuiescingValues, AfterValues DEF IInv, Behind, Drained, Quiesced
  <2>2. CASE step = "quiesce_call"
    BY <2>2, <1>0, QuiescingValues, AfterValues DEF IInv, Behind, Drained, Quiesced
  <2> QED BY <2>1, <2>2, <1>0, QuiescingValues DEF Coordinators
<1>7. MainHolds'
  BY DEF Quiesced, MainHolds
<1> QED BY <1>1, <1>2, <1>3, <1>4, <1>5, <1>6, <1>7 DEF IInv

(* Waiting, waking and reporting move only the main thread and its mutex.  *)
LEMMA SleepStep ==
  ASSUME IInv, Sleep
  PROVE  IInv'
<1>0. Quiescing \in Coordinators /\ mutex[Quiescing] = Main
  BY QuiescingValues DEF IInv, Sleep, WaitShape, MainHolds
<1>1. Types'
  BY <1>0 DEF IInv, Types, Sleep, threadVars, Waits
<1>2. Ledger'
  BY ThreadsUntouched DEF IInv, Sleep, threadVars
<1>3. Holder' /\ AdmittedOpen'
  BY <1>0, QuiescenceAssumption DEF IInv, Types, Sleep, threadVars, Holder, AdmittedOpen
<1>4. WaitShape' /\ MainHolds' /\ Behind'
  BY DEF IInv, WaitShape, MainHolds, Behind, Drained, Sleep, Quiescing
<1> QED BY <1>1, <1>2, <1>3, <1>4 DEF IInv

LEMMA StallStep ==
  ASSUME IInv, Stall
  PROVE  IInv'
<1>0. Quiescing \in Coordinators /\ mutex[Quiescing] = Main
  BY QuiescingValues DEF IInv, Stall, WaitShape, MainHolds
<1>1. Types'
  BY <1>0 DEF IInv, Types, Stall, threadVars, Waits
<1>2. Ledger'
  BY ThreadsUntouched DEF IInv, Stall, threadVars
<1>3. Holder' /\ AdmittedOpen'
  BY <1>0, QuiescenceAssumption DEF IInv, Types, Stall, threadVars, Holder, AdmittedOpen
<1>4. WaitShape' /\ MainHolds' /\ Behind'
  BY DEF IInv, WaitShape, MainHolds, Behind, Drained, Stall, Quiescing
<1> QED BY <1>1, <1>2, <1>3, <1>4 DEF IInv

LEMMA RelockStep ==
  ASSUME IInv, Relock
  PROVE  IInv'
<1>0. Quiescing \in Coordinators /\ mutex[Quiescing] = Nobody
  BY QuiescingValues DEF IInv, Relock, WaitShape
<1>1. Types'
  BY <1>0 DEF IInv, Types, Relock, threadVars, Waits
<1>2. Ledger'
  BY ThreadsUntouched DEF IInv, Relock, threadVars
<1>3. Holder' /\ AdmittedOpen'
  BY <1>0, QuiescenceAssumption DEF IInv, Types, Relock, threadVars, Holder, AdmittedOpen
<1>4. WaitShape' /\ MainHolds' /\ Behind'
  BY <1>0 DEF IInv, Types, WaitShape, MainHolds, Behind, Drained, Relock, Quiescing
<1> QED BY <1>1, <1>2, <1>3, <1>4 DEF IInv

LEMMA WakeUnaskedStep ==
  ASSUME IInv, WakeUnasked
  PROVE  IInv'
<1>1. Types'
  BY DEF IInv, Types, WakeUnasked, threadVars, Waits
<1>2. Ledger'
  BY ThreadsUntouched DEF IInv, WakeUnasked, threadVars
<1>3. Holder' /\ AdmittedOpen'
  BY DEF IInv, WakeUnasked, threadVars, Holder, AdmittedOpen
<1>4. WaitShape' /\ MainHolds' /\ Behind'
  BY DEF IInv, WaitShape, MainHolds, Behind, Drained, WakeUnasked, Quiescing
<1> QED BY <1>1, <1>2, <1>3, <1>4 DEF IInv

LEMMA ReportStallStep ==
  ASSUME IInv, ReportStall
  PROVE  IInv'
<1>1. Types'
  BY DEF IInv, Types, ReportStall, StallContinues, threadVars, Waits
<1>2. Ledger'
  BY ThreadsUntouched DEF IInv, ReportStall, threadVars
<1>3. Holder' /\ AdmittedOpen'
  BY DEF IInv, ReportStall, threadVars, Holder, AdmittedOpen
<1>4. WaitShape' /\ MainHolds' /\ Behind'
  BY DEF IInv, WaitShape, MainHolds, Behind, Drained, ReportStall, StallContinues,
         Quiescing
<1> QED BY <1>1, <1>2, <1>3, <1>4 DEF IInv

(* A step that does not quiesce never leads past a barrier not yet run.    *)
LEMMA TeardownStepStep ==
  ASSUME IInv, TeardownStep
  PROVE  IInv'
<1>0. /\ step \in {"alive", "emit_logs", "unregister", "clear_sink", "timer",
                    "fence", "gui"}
      /\ wait = "start"
  BY QuiescingValues, QuiescenceAssumption
     DEF IInv, Types, Steps, TeardownStep, WaitShape, Coordinators
<1>1. Types'
  <2>1. After(step) \in Steps
    BY AfterValues DEF IInv, Types, Steps
  <2>2. sink' \in BOOLEAN /\ alive_fence' \in BOOLEAN
    BY Zenon DEF TeardownStep
  <2>3. step' = After(step)
    BY DEF TeardownStep
  <2> QED BY <2>1, <2>2, <2>3 DEF IInv, Types, TeardownStep, threadVars
<1>2. Ledger'
  BY ThreadsUntouched DEF IInv, TeardownStep, threadVars
<1>3. Holder' /\ AdmittedOpen'
  BY DEF IInv, TeardownStep, threadVars, Holder, AdmittedOpen
<1>4. WaitShape' /\ MainHolds'
  BY <1>0 DEF TeardownStep, WaitShape, MainHolds
<1>5. Behind'
  BY <1>0, AfterValues DEF IInv, Behind, Drained, TeardownStep
<1> QED BY <1>1, <1>2, <1>3, <1>4, <1>5 DEF IInv

LEMMA TeardownPanicsStep ==
  ASSUME IInv, TeardownPanics
  PROVE  IInv'
<1>0. wait = "start"
  BY QuiescingValues, QuiescenceAssumption
     DEF IInv, TeardownPanics, WaitShape, Coordinators
<1>1. Types'
  BY DEF IInv, Types, Steps, TeardownPanics, PanicRuns, threadVars
<1>2. Ledger'
  BY ThreadsUntouched DEF IInv, TeardownPanics, threadVars
<1>3. Holder' /\ AdmittedOpen'
  BY DEF IInv, TeardownPanics, threadVars, Holder, AdmittedOpen
<1>4. WaitShape' /\ MainHolds'
  BY <1>0 DEF TeardownPanics, WaitShape, MainHolds
<1>5. Behind'
  BY DEF Behind, TeardownPanics, PanicRuns
<1> QED BY <1>1, <1>2, <1>3, <1>4, <1>5 DEF IInv

LEMMA StepIInv == IInv /\ [Next]_vars => IInv'
<1> SUFFICES ASSUME IInv, [Next]_vars PROVE IInv'
  OBVIOUS
<1>1. CASE MainNext
  BY <1>1, CloseGateStep, QuiescedStep, SleepStep, RelockStep, StallStep,
     ReportStallStep, TeardownStepStep, WakeUnaskedStep, TeardownPanicsStep
     DEF MainNext, MainProceeds
<1>2. ASSUME NEW t \in Threads, ThreadNext(t) PROVE IInv'
  BY <1>2, LockToEnterStep, RefusedStep, AdmittedStep, EnterHostStep,
     HostReturnsStep, DropGuardStep, NotifyStep DEF ThreadNext, Proceed
<1>3. CASE UNCHANGED vars
  <2>1. Ledger'
    BY <1>3, ThreadsUntouched DEF IInv, vars, threadVars
  <2> QED BY <1>3, <2>1 DEF IInv, Types, Holder, AdmittedOpen, WaitShape, MainHolds,
             Behind, Drained, Quiescing, vars, threadVars, mainVars
<1> QED BY <1>1, <1>2, <1>3 DEF Next

-----------------------------------------------------------------------------
(* The inductive invariant of the teardown protocol.                       *)
THEOREM QuiescenceInvariant == Spec => []IInv
BY InitIInv, StepIInv, PTL DEF Spec

(* TypeOK: no thread is counted twice (quiescence.rs in_flight).           *)
THEOREM TypesHold == Spec => []TypeOK
<1>1. IInv => TypeOK
  <2> SUFFICES ASSUME IInv PROVE in_flight \in [Coordinators -> 0..Cardinality(Threads)]
    BY DEF IInv, Types, TypeOK
  <2>1. \A c \in Coordinators : Counted(c) \subseteq Threads
    BY DEF Counted
  <2>2. \A c \in Coordinators : Cardinality(Counted(c)) <= Cardinality(Threads)
    BY <2>1, FS_Subset, QuiescenceAssumption
  <2>3. Cardinality(Threads) \in Nat
    BY FS_CardinalityType, QuiescenceAssumption
  <2> QED BY <2>2, <2>3, CountedFinite DEF IInv, Types, Ledger
<1> QED BY <1>1, QuiescenceInvariant, PTL

(* NoCallAfterDestroy: once destroy() has returned (main_thread/mod.rs     *)
(* drop, normally or by a panic) no thread is inside a host call.          *)
THEOREM NoCallOutlivesDestroy == Spec => []NoCallAfterDestroy
<1>1. IInv => NoCallAfterDestroy
  <2> SUFFICES ASSUME IInv, step = "destroyed", NEW t \in Threads PROVE ~InHost(t)
    BY DEF NoCallAfterDestroy
  <2>1. via[t] \in Coordinators /\ in_flight[via[t]] = 0
    BY DEF IInv, Types, Behind, Drained, Coordinators
  <2> QED BY <2>1, ZeroMeansNobody DEF IInv, InHost
<1> QED BY <1>1, QuiescenceInvariant, PTL

(* NoCallThroughTornDown: the log sink and the GUI are taken down with     *)
(* nobody inside what they serve.                                          *)
THEOREM TornDownIsQuiet == Spec => []NoCallThroughTornDown
<1>1. IInv => NoCallThroughTornDown
  <2> SUFFICES ASSUME IInv, NEW t \in Threads, InHost(t)
               PROVE  /\ step \in {"clear_sink", "timer"} => via[t] # "log"
                      /\ step # "gui"
    BY DEF NoCallThroughTornDown
  <2>1. via[t] \in Coordinators /\ in_flight[via[t]] # 0
    BY ZeroMeansNobody DEF IInv, Types, InHost
  <2> QED BY <2>1 DEF IInv, Behind, Drained, Coordinators
<1> QED BY <1>1, QuiescenceInvariant, PTL

(* BarrierIsFinal: once a barrier has returned, no thread is counted       *)
(* behind its gate again.                                                  *)
THEOREM BarrierStaysShut == Spec => BarrierIsFinal
<1> DEFINE Final == \A c \in Coordinators :
             (~active[c] /\ in_flight[c] = 0) => (~active'[c] /\ in_flight'[c] = 0)
<1>1. ASSUME IInv, [Next]_vars PROVE Final
  <2> SUFFICES ASSUME NEW c \in Coordinators, ~active[c], in_flight[c] = 0
               PROVE  ~active'[c] /\ in_flight'[c] = 0
    OBVIOUS
  <2>1. CASE MainNext
    <3>1. CASE CloseGate
      BY <1>1, <3>1, QuiescingValues DEF IInv, Types, CloseGate
    <3>2. CASE UNCHANGED <<active, in_flight>>
      BY <3>2
    <3>3. MainNext => CloseGate \/ UNCHANGED <<active, in_flight>>
      BY Zenon DEF MainNext, MainProceeds, Quiesced, Sleep, Relock, Stall,
         ReportStall, TeardownStep, WakeUnasked, TeardownPanics
    <3> QED BY <2>1, <3>1, <3>2, <3>3
  <2>2. ASSUME NEW t \in Threads, ThreadNext(t) PROVE ~active'[c] /\ in_flight'[c] = 0
    <3>1. CASE EnterHost(t)
      <4>1. active[via[t]] /\ via[t] \in Coordinators
        BY <1>1, <3>1 DEF IInv, Types, EnterHost, AdmittedOpen
      <4>2. via[t] # c
        BY <4>1
      <4>3. in_flight'[c] = in_flight[c]
        BY <1>1, <3>1, <4>2 DEF IInv, Types, EnterHost
      <4>4. active' = active
        BY <3>1 DEF EnterHost
      <4> QED BY <4>3, <4>4
    <3>2. CASE DropGuard(t)
      BY <1>1, <3>2 DEF IInv, Types, DropGuard, Decrement
    <3>3. CASE UNCHANGED <<active, in_flight>>
      BY <3>3
    <3> QED BY <2>2, <3>1, <3>2, <3>3 DEF ThreadNext, Proceed, LockToEnter, Refused,
               Admitted, HostReturns, Notify
  <2>3. CASE UNCHANGED vars
    BY <2>3 DEF vars
  <2> QED BY <1>1, <2>1, <2>2, <2>3 DEF Next
<1>2. IInv /\ [Next]_vars => [Final]_vars
  BY <1>1
<1> QED BY <1>2, QuiescenceInvariant, PTL DEF Spec, BarrierIsFinal

-----------------------------------------------------------------------------
(* Refinement: what the host sees of the protocol is the barrier.          *)

InsideOf == [t \in Threads |-> IF InHost(t) THEN via[t] ELSE Nobody]

Returned == step = "destroyed"

LEMMA RefinesInit == Init => Barrier!Init
BY DEF Init, Barrier!Init, InHost

(* A step that moves no thread across the border of the host, opens or     *)
(* shuts no gate and does not return is invisible to the host.             *)
LEMMA Invisible ==
  ASSUME active' = active, InsideOf' = InsideOf, Returned' = Returned
  PROVE  UNCHANGED Barrier!barrierVars
BY DEF Barrier!barrierVars, InsideOf, Returned

(* A main-thread step that leaves the gates alone: it is invisible, or it  *)
(* is the return of destroy(), with both barriers behind it.               *)
LEMMA MainStepVisible ==
  ASSUME IInv, IInv', UNCHANGED <<active, in_flight, at, via>>,
         step = "destroyed" => step' = "destroyed"
  PROVE  [Barrier!Next]_(Barrier!barrierVars)
<1>1. InsideOf' = InsideOf
  BY DEF InsideOf, InHost
<1>2. CASE step' # "destroyed" \/ step = "destroyed"
  <2>1. Returned' = Returned
    BY <1>2 DEF Returned
  <2> QED BY <1>1, <2>1, Invisible
<1>3. CASE step' = "destroyed" /\ step # "destroyed"
  <2>1. \A c \in Coordinators : ~active'[c] /\ in_flight'[c] = 0
    BY <1>3 DEF IInv, Behind, Drained, Coordinators
  <2>2. \A c \in Coordinators : ~active[c]
    BY <2>1
  <2>3. \A t \in Threads : ~InHost(t)
    BY <2>1, ZeroMeansNobody DEF IInv, Types, InHost
  <2>4. Barrier!Return
    BY <1>1, <1>3, <2>2, <2>3 DEF Barrier!Return, InsideOf
  <2> QED BY <2>4 DEF Barrier!Next
<1> QED BY <1>2, <1>3

LEMMA RefinesStep ==
  ASSUME IInv, IInv', [Next]_vars
  PROVE  [Barrier!Next]_(Barrier!barrierVars)
<1>1. CASE CloseGate
  <2>1. Quiescing \in Coordinators
    BY <1>1, QuiescingValues DEF CloseGate
  <2>2. InsideOf' = InsideOf /\ Returned' = Returned
    BY <1>1 DEF CloseGate, threadVars, InsideOf, InHost, Returned
  <2>3. Barrier!Shut(Quiescing)
    BY <1>1, <2>2 DEF CloseGate, Barrier!Shut, InsideOf, Returned
  <2> QED BY <2>1, <2>3 DEF Barrier!Next
<1>2. CASE MainNext /\ ~CloseGate
  <2>1. UNCHANGED <<active, in_flight, at, via>>
    BY <1>2, Zenon DEF MainNext, MainProceeds, Quiesced, Sleep, Relock, Stall,
       ReportStall, TeardownStep, WakeUnasked, TeardownPanics, threadVars
  <2>2. step = "destroyed" => step' = "destroyed"
    BY <1>2, AfterValues DEF MainNext, MainProceeds, Quiesced, Sleep, Relock, Stall,
       ReportStall, StallContinues, TeardownStep, WakeUnasked, TeardownPanics
  <2> QED BY <2>1, <2>2, MainStepVisible
<1>3. ASSUME NEW t \in Threads, ThreadNext(t)
      PROVE  [Barrier!Next]_(Barrier!barrierVars)
  <2>0. step' = step
    BY <1>3 DEF ThreadNext, Proceed, LockToEnter, Refused, Admitted, EnterHost,
       HostReturns, DropGuard, Notify, mainVars
  <2>1. CASE EnterHost(t)
    <3>1. via[t] \in Coordinators /\ active[via[t]] /\ at[t] = "admitted"
      BY <2>1 DEF IInv, Types, EnterHost, AdmittedOpen
    <3>2. InsideOf' = [InsideOf EXCEPT ![t] = via[t]]
      BY <2>1, <3>1 DEF IInv, Types, EnterHost, InsideOf, InHost
    <3>3. active' = active /\ ~InHost(t)
      BY <2>1 DEF EnterHost, InHost
    <3>4. PICK c \in Coordinators : c = via[t]
      BY <3>1
    <3>5. Barrier!Enter(t, c)
      <4>1. InsideOf[t] = Nobody
        BY <3>3 DEF InsideOf
      <4>2. active[c] = TRUE
        BY <3>1, <3>4 DEF IInv, Types
      <4>3. UNCHANGED <<active, Returned>>
        BY <2>0, <3>3 DEF Returned
      <4> QED BY <3>2, <3>4, <4>1, <4>2, <4>3 DEF Barrier!Enter, InsideOf, Returned
    <3> QED BY <3>5 DEF Barrier!Next
  <2>2. CASE HostReturns(t)
    <3>1. InsideOf' = [InsideOf EXCEPT ![t] = Nobody]
      BY <2>2 DEF IInv, Types, HostReturns, InsideOf, InHost
    <3>2. active' = active /\ InHost(t) /\ via[t] \in Coordinators
      BY <2>2 DEF IInv, Types, HostReturns, InHost
    <3>3. Barrier!Leave(t)
      BY <2>0, <3>1, <3>2, QuiescenceAssumption DEF Barrier!Leave, InsideOf
    <3> QED BY <3>3 DEF Barrier!Next
  <2>3. CASE ~EnterHost(t) /\ ~HostReturns(t)
    <3>1. active' = active
      BY <1>3, <2>3 DEF ThreadNext, Proceed, LockToEnter, Refused, Admitted,
         DropGuard, Notify
    <3>2. \A u \in Threads : (InHost(u)' <=> InHost(u)) /\ (InHost(u) => via'[u] = via[u])
      BY <1>3, <2>3 DEF IInv, Types, ThreadNext, Proceed, LockToEnter, Refused,
         Admitted, DropGuard, Notify, InHost
    <3>3. InsideOf' = InsideOf
      BY <3>2 DEF InsideOf
    <3>4. Returned' = Returned
      BY <2>0 DEF Returned
    <3> QED BY <3>1, <3>3, <3>4, Invisible
  <2> QED BY <2>1, <2>2, <2>3
<1>4. CASE UNCHANGED vars
  BY <1>4, Invisible DEF vars, threadVars, mainVars, InsideOf, InHost, Returned
<1> QED BY <1>1, <1>2, <1>3, <1>4 DEF Next

(* ImplementsBarrier: mutexes, counters and condition variables of         *)
(* quiescence.rs and the order of the teardown implement the barrier the   *)
(* host relies on when it frees its handle.                                *)
THEOREM ProtocolIsBarrier == Spec => ImplementsBarrier
<1>1. IInv /\ IInv' /\ [Next]_vars => [Barrier!Next]_(Barrier!barrierVars)
  BY RefinesStep
<1> QED BY <1>1, RefinesInit, QuiescenceInvariant, PTL
        DEF Spec, ImplementsBarrier, Barrier!Spec

=============================================================================
