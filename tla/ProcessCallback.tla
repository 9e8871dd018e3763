--------------------------- MODULE ProcessCallback ---------------------------
(***************************************************************************)
(* The audio callback of a processor around its DSP: the poison latch that *)
(* contains a panic, the two-phase reset whose second phase feeds a model  *)
(* a few zeroed samples per callback while its blocks stay dry, the budget *)
(* that sizes those steps, and the containment of non-finite input.        *)
(*                                                                         *)
(* A model is reduced to the zeroed samples it still needs (the engine's   *)
(* prewarm_complete() is left = 0) and whether non-finite input has        *)
(* reached it since it was reset.  Times are in units of a nanosecond's    *)
(* multiple; a cost is time per sample.                                    *)
(***************************************************************************)
EXTENDS Integers, Sequences, FiniteSets

CONSTANTS
  Depth,              \* zeroed samples a reset model needs
  MaxChains,          \* models of an instance: 1, or 2 for dual mono
  FrameCounts,        \* frames of a callback, 0 included
  MinFrames,          \* min_frames_count of the activation
  Period,             \* time of one frame
  Overhead,           \* OVERHEAD_NS
  FamilyFactor,       \* family_factor() of the installed family
  TableCost,          \* worst_case_sample_cost_ns() of the family
  MaxCost,            \* MAX_PLAUSIBLE_SAMPLE_COST_NS
  MaxStep,            \* PREWARM_STEP_MAX
  Costs,              \* costs measured away from the audio thread
  Elapsed,            \* times a step can take
  MaxElapsed,         \* MAX_PLAUSIBLE_ELAPSED_NS
  StarvationLimit,    \* PREWARM_ZERO_BUDGET_STARVATION_LIMIT
  MaxEvents,          \* bound: resets, installs, non-finite blocks, restarts, panics
  None

Larger(a, b) == IF a >= b THEN a ELSE b
Smaller(a, b) == IF a <= b THEN a ELSE b
EffectiveFrames(n) == IF n > 0 THEN n ELSE Larger(MinFrames, 1)

(* period_ns * BUDGET_SAFETY_MARGIN - OVERHEAD_NS                          *)
Available(n) == (EffectiveFrames(n) * Period * 3) \div 4 - Overhead

ASSUME CallbackAssumption ==
  /\ {Depth, MaxChains, Period, FamilyFactor, TableCost, MaxCost, MaxStep, StarvationLimit}
       \subseteq Nat \ {0}
  /\ FrameCounts \subseteq Nat /\ MinFrames \in Nat /\ Overhead \in Nat
  /\ Costs \subseteq Nat \ {0} /\ Elapsed \subseteq Nat /\ MaxElapsed \in Nat
  /\ MaxEvents \in Nat /\ None \notin Nat

(* The smallest callback affords a sample of the family's table cost.      *)
TableIsAffordable ==
  \A n \in FrameCounts : Available(n) >= TableCost * MaxChains

VARIABLES
  phase,        \* "inactive", "stopped", "processing"
  chains,       \* sequence of models, empty without a model
  kept,         \* the models of the deactivated DSP state
  pending,      \* prewarm_pending
  zero_count,   \* prewarm_zero_budget_count
  cost,         \* prewarm_cost_ns_per_sample
  static,       \* prewarm_static: the measured cost is ignored
  poisoned,     \* the latch of the processor
  poison_flag,  \* RT_STATUS_PROCESSOR_POISONED
  non_finite,   \* RT_STATUS_NON_FINITE_INPUT_DETECTED
  epoch,        \* non_finite_epoch
  output,       \* the last block: what the host got
  drain,        \* history: the last drain, its budget and its estimated cost
  hits,         \* history: blocks in which non-finite input was found
  block,        \* history: flips with every callback
  events        \* bound: see MaxEvents

window == <<pending, zero_count, cost>>
faults == <<poisoned, poison_flag, non_finite, epoch>>
vars == <<phase, chains, kept, window, static, faults, output, drain, hits, block, events>>

Model(left, tainted) == [left |-> left, tainted |-> tainted]
Converged == Model(0, FALSE)
ResetModel == Model(Depth, FALSE)          \* prewarm_reset()
Models == [left : 0..Depth, tainted : BOOLEAN]
Chains == UNION {[1..n -> Models] : n \in 0..MaxChains}
EachChain(cs, F(_)) == [i \in DOMAIN cs |-> F(cs[i])]
Complete(cs) == \A i \in DOMAIN cs : cs[i].left = 0

NoDrain == [budget |-> 0, estimate |-> 0]

Init ==
  /\ phase = "inactive"
  /\ \E n \in 0..MaxChains : kept = [i \in 1..n |-> Converged]
  /\ chains = << >>
  /\ pending = FALSE /\ zero_count = 0 /\ cost = None
  /\ static \in BOOLEAN
  /\ poisoned = FALSE /\ poison_flag = FALSE /\ non_finite = FALSE /\ epoch = 0
  /\ output = "none" /\ drain = NoDrain /\ hits = 0 /\ block = 0 /\ events = 0

Called == block' = 1 - block
Counted == events < MaxEvents /\ events' = events + 1

------------------------------------------------------------------------------
(* The budget of one callback: compute_prewarm_step().                     *)

UnitCost(measured) == IF measured = None THEN TableCost ELSE Smaller(measured, MaxCost)
StepCost(measured, n) == UnitCost(measured) * Larger(n, 1)

StepPerChain(frames, measured, n) ==
  LET fits == Available(frames) \div UnitCost(measured)
      raw == (EffectiveFrames(frames) * FamilyFactor) \div Larger(n, 1)
  IN IF Available(frames) < StepCost(measured, n) THEN 0
     ELSE Smaller(Larger(Smaller(raw, Larger(fits, 1)), 1), MaxStep)

PrewarmStep(frames, measured, n) ==
  LET fits == Available(frames) \div StepCost(measured, n)
      raw == (EffectiveFrames(frames) * FamilyFactor) \div Larger(n, 1)
  IN IF Available(frames) < StepCost(measured, n) THEN 0
     ELSE Smaller(Larger(Smaller(raw, Larger(fits, 1)), 1), MaxStep)

(* The EWMA of the cost, raised to the worst sample when a step took more  *)
(* than half of the period; rounded up, so that a positive cost stays one. *)
Up(a, b) == (a + b - 1) \div b
Refined(frames, step, n, elapsed) ==
  LET sample == Up(elapsed, step * n)
      ewma == IF cost = None THEN sample ELSE Up(3 * cost + sample, 4)
      overran == 2 * elapsed > EffectiveFrames(frames) * Period
      new == IF overran THEN Larger(ewma, sample) ELSE ewma
  IN IF static \/ elapsed > MaxElapsed THEN cost ELSE IF new = 0 THEN None ELSE new

------------------------------------------------------------------------------
(* process(), stage by stage on the models and the window.                 *)

(* process_events(): a model load ends the window and brings its cost, a   *)
(* clear brings none; a slimmable rebuild replaces the left model only.    *)
Commands == {"none", "load", "clear", "slim"}
Now == [chains |-> chains, pending |-> pending, zeros |-> zero_count, cost |-> cost]

ClearsLatch(s) == [s EXCEPT !.pending = FALSE, !.zeros = 0]
AfterCommand(command, new_cost) ==
  CASE command = "load" ->
         ClearsLatch([Now EXCEPT !.chains = [i \in 1..Larger(Len(chains), 1) |-> Converged],
                                 !.cost = new_cost])
    [] command = "clear" -> ClearsLatch([Now EXCEPT !.chains = << >>, !.cost = None])
    [] command = "slim" -> IF chains = << >> THEN Now
                           ELSE [Now EXCEPT !.chains[1] = Converged]
    [] OTHER -> Now

(* A zero budget: the count, and at the limit the estimate is thrown away. *)
StarvedForGood(s) == [s EXCEPT !.zeros = Smaller(@ + 1, StarvationLimit + 1)]
Starved(s) ==
  LET zeros == Smaller(s.zeros + 1, StarvationLimit + 1)
  IN [s EXCEPT !.zeros = zeros, !.cost = IF zeros = StarvationLimit THEN None ELSE @]

SteppedPast(cs, step) ==
  LET Fed(m) == [m EXCEPT !.left = @ - step] IN EachChain(cs, Fed)
Stepped(cs, step) ==
  LET Fed(m) == [m EXCEPT !.left = Larger(0, @ - step)] IN EachChain(cs, Fed)

MeasuredCost(s) == IF static THEN None ELSE s.cost
StepOf(s, frames) == PrewarmStep(frames, MeasuredCost(s), Len(s.chains))

Window(s, frames, elapsed) ==
  LET step == StepOf(s, frames)
  IN IF step = 0 THEN Starved(s)
     ELSE [s EXCEPT !.zeros = 0, !.chains = Stepped(@, step),
                    !.cost = Refined(frames, step, Len(s.chains), elapsed)]

Drains(s) == s.pending /\ s.chains # << >>
Stays(s) == s.pending /\ ~Complete(s.chains)

(* Phase zero of a reset, by the host or after non-finite input.           *)
ResetAll(s) ==
  LET Reset(m) == ResetModel
  IN [s EXCEPT !.chains = EachChain(@, Reset), !.zeros = 0,
               !.pending = @ \/ s.chains # << >>]

Becomes(s) ==
  chains' = s.chains /\ pending' = s.pending /\ zero_count' = s.zeros /\ cost' = s.cost

Poisons == poisoned' = TRUE /\ poison_flag' = TRUE

(* A block held on the delayed dry signal.                                 *)
DryBlock(s) ==
  /\ Becomes(s) /\ output' = "dry"
  /\ UNCHANGED <<faults, hits>>

ContainedAgain(s) ==
  /\ Becomes(ResetAll(s))
  /\ epoch' = epoch + 1
  /\ output' = "dry"
  /\ UNCHANGED <<poisoned, poison_flag, non_finite, hits>>

(* Containment: the block after non-finite input.                          *)
ContainedBlock(s) ==
  /\ Becomes(ResetAll(s))
  /\ non_finite' = FALSE /\ epoch' = epoch + 1
  /\ output' = "dry"
  /\ UNCHANGED <<poisoned, poison_flag, hits>>

(* The DSP: non-finite input reaches the models and raises the flag.       *)
WetBlock(s, finite) ==
  LET Hit(m) == [m EXCEPT !.tainted = TRUE]
      clean == \A i \in DOMAIN s.chains : s.chains[i] = Converged
  IN /\ output' = IF clean THEN "wet" ELSE "stale wet"
     /\ IF finite THEN Becomes(s) /\ UNCHANGED <<non_finite, hits>>
        ELSE /\ Becomes([s EXCEPT !.chains = EachChain(@, Hit)])
             /\ non_finite' = TRUE /\ hits' = hits + 1
     /\ UNCHANGED <<poisoned, poison_flag, epoch>>

Process(frames, finite, command, new_cost, elapsed) ==
  /\ phase = "processing" /\ ~poisoned /\ Called
  /\ IF finite /\ command = "none" THEN UNCHANGED events ELSE Counted
  /\ LET c == AfterCommand(command, new_cost)
         w == IF Drains(c) THEN Window(c, frames, elapsed) ELSE c
     IN /\ drain' = IF Drains(c)
                    THEN [budget |-> Available(frames),
                          estimate |-> StepOf(c, frames) * StepCost(MeasuredCost(c), Len(c.chains))]
                    ELSE drain
        /\ IF Stays(w) THEN DryBlock(w)
           ELSE LET s == IF w.pending THEN ClearsLatch(w) ELSE w
                IN IF non_finite THEN ContainedBlock(s) ELSE WetBlock(s, finite)
  /\ UNCHANGED <<phase, kept, static>>

(* O(1) silence of a poisoned processor.                                   *)
ProcessPoisoned ==
  /\ phase = "processing" /\ poisoned /\ Called
  /\ output' = "silence"
  /\ UNCHANGED <<phase, chains, kept, window, static, faults, drain, hits, events>>

(* A panic anywhere in process(): what it leaves behind is never used.     *)
ProcessPanics ==
  /\ phase = "processing" /\ ~poisoned /\ Called /\ Counted
  /\ Poisons /\ output' = "silence"
  /\ UNCHANGED <<phase, chains, kept, window, static, non_finite, epoch, drain, hits>>

------------------------------------------------------------------------------
(* The other calls of the host.                                            *)

(* reset(): nothing of a poisoned processor.                               *)
Reset ==
  /\ phase # "inactive" /\ ~poisoned /\ Counted
  /\ \/ Becomes(ResetAll(Now)) /\ UNCHANGED <<poisoned, poison_flag>>
     \/ Poisons /\ UNCHANGED <<chains, window>>
  /\ UNCHANGED <<phase, kept, static, non_finite, epoch, output, drain, hits, block>>

(* start_processing(): its one-shot thread setup may panic too.            *)
StartProcessing ==
  /\ phase = "stopped" /\ phase' = "processing"
  /\ \/ UNCHANGED <<poisoned, poison_flag, events>>
     \/ ~poisoned /\ Poisons /\ Counted
  /\ UNCHANGED <<chains, kept, window, static, non_finite, epoch, output, drain, hits, block>>

StopProcessing ==
  /\ phase = "processing" /\ Counted /\ phase' = "stopped"
  /\ UNCHANGED <<chains, kept, window, static, faults, output, drain, hits, block>>

(* activate(): outstanding passes are completed here, the cost of the left *)
(* model is measured, the latch of the new processor is clear.             *)
KeptAsIs(cs) == cs
Restored(cs) ==
  LET Completed(m) == [m EXCEPT !.left = 0] IN EachChain(cs, Completed)
Activate ==
  /\ phase = "inactive" /\ phase' = "stopped"
  /\ chains' = Restored(kept) /\ kept' = << >>
  /\ IF static \/ kept = << >> THEN cost' = None ELSE cost' \in Costs
  /\ pending' = FALSE /\ zero_count' = 0
  /\ poisoned' = FALSE /\ poison_flag' = FALSE
  /\ UNCHANGED <<static, non_finite, epoch, output, drain, hits, block, events>>

(* deactivate(): the models of a poisoned processor are dropped.           *)
Deactivate ==
  /\ phase = "stopped" /\ Counted /\ phase' = "inactive"
  /\ kept' = IF poisoned THEN << >> ELSE chains
  /\ chains' = << >> /\ pending' = FALSE /\ zero_count' = 0 /\ cost' = None
  /\ poisoned' = FALSE /\ output' = "none"
  /\ UNCHANGED <<static, poison_flag, non_finite, epoch, drain, hits, block>>

NewCosts(command) == IF command = "load" THEN Costs \cup {None} ELSE {None}
Times(command) == IF pending /\ command \in {"none", "slim"} THEN Elapsed ELSE {0}

ProcessSome ==
  \/ \E n \in FrameCounts, finite \in BOOLEAN, command \in Commands :
       \E c \in NewCosts(command), t \in Times(command) :
         Process(n, finite, command, c, t)
  \/ ProcessPoisoned

Next ==
  \/ ProcessSome \/ ProcessPanics \/ Reset \/ StartProcessing \/ StopProcessing
  \/ Activate \/ Deactivate

(* A host that processes calls back again and again: every step that       *)
(* flips block is a callback.                                              *)
Callback == phase = "processing" /\ Called
Spec == Init /\ [][Next]_vars /\ WF_block(Callback)

------------------------------------------------------------------------------
(* Properties.                                                             *)

TypeOK ==
  /\ phase \in {"inactive", "stopped", "processing"}
  /\ chains \in Chains /\ kept \in Chains
  /\ zero_count \in 0..StarvationLimit + 1 /\ cost \in (Nat \ {0}) \cup {None}
  /\ pending \in BOOLEAN /\ static \in BOOLEAN /\ non_finite \in BOOLEAN
  /\ poisoned \in BOOLEAN /\ poison_flag \in BOOLEAN
  /\ output \in {"none", "wet", "stale wet", "dry", "silence"}

(* Wet sound comes from converged models only: no block reaches the DSP    *)
(* while a reset model is still being fed, or before the models that saw   *)
(* non-finite input were reset, whichever of loads, rebuilds, resets and   *)
(* restarts fall between.                                                  *)
WetIsConverged == output # "stale wet"

(* Containment runs once per occurrence: every block in which non-finite   *)
(* input was found is either counted or the very next thing to count, also *)
(* across a window, a model load or a restart of the processor.            *)
HitsAreContained == hits = epoch + IF non_finite THEN 1 ELSE 0

(* A drain never takes more than the budget of its callback, by the cost   *)
(* it was sized with, over both chains.                                    *)
StepFitsBudget == drain.estimate <= Larger(drain.budget, 0)

(* The window closes: an estimate that was measured too high starves it    *)
(* for a bounded number of callbacks only, then the table cost is tried.   *)
WindowOpen == phase = "processing" /\ ~poisoned /\ pending
WindowCloses == TableIsAffordable => (WindowOpen ~> ~WindowOpen)

=============================================================================
