------------------------ MODULE ProcessCallbackProofs ------------------------
(***************************************************************************)
(* Proofs about ProcessCallback, for every depth, cost, budget and number  *)
(* of models.                                                              *)
(*                                                                         *)
(* WetIsConverged needs to know what holds between callbacks: with the     *)
(* window shut every model has converged, and a model that saw non-finite  *)
(* input, in the processor or kept aside by a deactivation, still has the  *)
(* flag raised that will reset it.                                         *)
(***************************************************************************)
EXTENDS ProcessCallback, TLAPS

USE DEF CallbackAssumption

Zeros == 0..StarvationLimit + 1
Estimates == (Nat \ {0}) \cup {None}
Stage == [chains : Chains, pending : BOOLEAN, zeros : Zeros, cost : Estimates]

(* A model that saw non-finite input waits for its containment.            *)
Flagged(cs, flag) == \A i \in DOMAIN cs : cs[i].tainted => flag

ShutIsComplete(s) == ~s.pending => Complete(s.chains)

BetweenCalls ==
  /\ ~pending => Complete(chains)
  /\ Flagged(chains, non_finite)
  /\ Flagged(kept, non_finite)
  /\ phase # "inactive" => kept = << >>

IInv ==
  /\ TypeOK
  /\ hits \in Nat /\ epoch \in Nat
  /\ BetweenCalls
  /\ WetIsConverged
  /\ HitsAreContained
  /\ StepFitsBudget

-----------------------------------------------------------------------------
(* Lemmas about sequences of models.                                       *)

LEMMA ChainsType ==
  ASSUME NEW cs PROVE cs \in Chains <=> \E n \in 0..MaxChains : cs \in [1..n -> Models]
BY DEF Chains

LEMMA EmptyChains == << >> \in Chains /\ Complete(<< >>)
<1>1. << >> \in [1..0 -> Models] BY SMT
<1>2. 0 \in 0..MaxChains BY CallbackAssumption
<1>3. << >> \in Chains BY <1>1, <1>2, ChainsType
<1>4. DOMAIN << >> = {} BY <1>1
<1> QED BY <1>3, <1>4 DEF Complete

LEMMA StageType ==
  ASSUME NEW cs \in Chains, NEW p \in BOOLEAN, NEW z \in Zeros, NEW e \in Estimates
  PROVE  [chains |-> cs, pending |-> p, zeros |-> z, cost |-> e] \in Stage
BY DEF Stage

LEMMA ZeroType == 0 \in Zeros /\ None \in Estimates
<1>1. StarvationLimit \in Nat BY CallbackAssumption
<1> QED BY <1>1 DEF Zeros, Estimates

LEMMA ConvergedType ==
  /\ Converged \in Models /\ Converged.left = 0 /\ Converged.tainted = FALSE
  /\ ResetModel \in Models /\ ResetModel.tainted = FALSE
BY CallbackAssumption DEF Converged, ResetModel, Model, Models

-----------------------------------------------------------------------------
(* Lemmas about the budget.                                                *)

LEMMA DivBounds ==
  ASSUME NEW a \in Nat, NEW b \in Nat \ {0}
  PROVE  a \div b \in Nat /\ (a \div b) * b <= a
BY SMT

LEMMA MulMono ==
  ASSUME NEW a \in Nat, NEW b \in Nat, NEW c \in Nat, a <= b
  PROVE  a * c <= b * c
BY SMT

LEMMA UnitCostType ==
  ASSUME NEW measured \in Estimates
  PROVE  UnitCost(measured) \in Nat \ {0}
BY CallbackAssumption DEF UnitCost, Smaller, Estimates

LEMMA MulPositive ==
  ASSUME NEW a \in Nat \ {0}, NEW b \in Nat \ {0}
  PROVE  a * b \in Nat \ {0}
BY SMT

LEMMA StepCostType ==
  ASSUME NEW measured \in Estimates, NEW n \in Nat
  PROVE  StepCost(measured, n) \in Nat \ {0}
<1>1. Larger(n, 1) \in Nat \ {0} BY DEF Larger
<1> QED BY <1>1, UnitCostType, MulPositive DEF StepCost

LEMMA FramesType ==
  ASSUME NEW n \in FrameCounts
  PROVE  EffectiveFrames(n) \in Nat \ {0}
BY CallbackAssumption DEF EffectiveFrames, Larger

LEMMA AvailableType ==
  ASSUME NEW n \in FrameCounts
  PROVE  Available(n) \in Int
<1> DEFINE p == EffectiveFrames(n) * Period
<1>1. p \in Nat \ {0} BY FramesType, MulPositive, CallbackAssumption
<1> HIDE DEF p
<1>2. (p * 3) \div 4 \in Nat BY <1>1, SMT
<1>3. (p * 3) \div 4 - Overhead \in Int BY <1>2, CallbackAssumption
<1> QED BY <1>3 DEF Available, p

(* A step is a natural number and its estimated cost stays in the budget.  *)
LEMMA StepBounded ==
  ASSUME NEW n \in FrameCounts, NEW measured \in Estimates,
         NEW chained \in Nat
  PROVE  LET step == PrewarmStep(n, measured, chained)
         IN /\ step \in Nat
            /\ step * StepCost(measured, chained) <= Larger(Available(n), 0)
<1> DEFINE c == StepCost(measured, chained)
           a == Available(n)
           raw == (EffectiveFrames(n) * FamilyFactor) \div Larger(chained, 1)
           fits == a \div c
<1>1. c \in Nat \ {0} BY StepCostType
<1>2. a \in Int BY AvailableType
<1>3. raw \in Nat
  <2>1. EffectiveFrames(n) * FamilyFactor \in Nat \ {0}
    BY FramesType, MulPositive, CallbackAssumption
  <2>2. Larger(chained, 1) \in Nat \ {0} BY DEF Larger
  <2> QED BY <2>1, <2>2, DivBounds
<1> HIDE DEF c, a, raw
<1>4. CASE a < c
  <2>1. PrewarmStep(n, measured, chained) = 0 BY <1>4 DEF PrewarmStep, a, c
  <2>2. 0 * c = 0 /\ 0 <= Larger(a, 0) BY <1>1, <1>2 DEF Larger
  <2> QED BY <2>1, <2>2 DEF a, c
<1>5. CASE a >= c
  <2> DEFINE step == Smaller(Larger(Smaller(raw, Larger(fits, 1)), 1), MaxStep)
  <2>1. a \in Nat BY <1>1, <1>2, <1>5
  <2>2. fits \in Nat /\ fits * c <= a BY <1>1, <2>1, DivBounds
  <2>3. fits >= 1 BY <1>1, <1>5, <2>1, SMT
  <2> HIDE DEF fits
  <2>4. step \in Nat /\ step <= fits
    BY <1>3, <2>2, <2>3, CallbackAssumption DEF Smaller, Larger
  <2>5. PrewarmStep(n, measured, chained) = step
    <3>1. ~(a < c) BY <1>1, <1>2, <1>5
    <3> QED BY <3>1 DEF PrewarmStep, a, c, raw, fits
  <2> HIDE DEF step
  <2>6. step * c <= fits * c BY <1>1, <2>2, <2>4, MulMono
  <2>7. step * c \in Nat /\ fits * c \in Nat BY <1>1, <2>2, <2>4, SMT
  <2>8. step * c <= a BY <2>1, <2>2, <2>6, <2>7
  <2>9. a <= Larger(a, 0) BY <2>1 DEF Larger
  <2>10. Larger(a, 0) \in Nat BY <2>1 DEF Larger
  <2>11. step * c <= Larger(a, 0) BY <2>1, <2>7, <2>8, <2>9, <2>10
  <2> QED BY <2>4, <2>5, <2>11 DEF a, c
<1> QED BY <1>1, <1>2, <1>4, <1>5

-----------------------------------------------------------------------------
(* Lemmas about the stages of a callback.                                  *)

LEMMA UpType ==
  ASSUME NEW a \in Nat, NEW b \in Nat \ {0}
  PROVE  Up(a, b) \in Nat
<1>1. a + b - 1 \in Nat OBVIOUS
<1> QED BY <1>1, DivBounds DEF Up

LEMMA RefinedType ==
  ASSUME NEW frames \in FrameCounts, NEW step \in Nat \ {0}, NEW n \in Nat \ {0},
         NEW elapsed \in Nat, cost \in Estimates
  PROVE  Refined(frames, step, n, elapsed) \in Estimates
<1> DEFINE sample == Up(elapsed, step * n)
           ewma == IF cost = None THEN sample ELSE Up(3 * cost + sample, 4)
           overran == 2 * elapsed > EffectiveFrames(frames) * Period
           new == IF overran THEN Larger(ewma, sample) ELSE ewma
<1>1. sample \in Nat BY MulPositive, UpType
<1> HIDE DEF sample
<1>2. ewma \in Nat
  <2>1. CASE cost = None BY <1>1, <2>1
  <2>2. CASE cost # None
    <3>1. cost \in Nat BY <2>2 DEF Estimates
    <3>2. 3 * cost + sample \in Nat BY <1>1, <3>1
    <3> QED BY <2>2, <3>2, UpType
  <2> QED BY <2>1, <2>2
<1> HIDE DEF ewma, overran
<1>3. new \in Nat BY <1>1, <1>2 DEF Larger
<1> HIDE DEF new
<1>4. Refined(frames, step, n, elapsed)
        = IF static \/ elapsed > MaxElapsed THEN cost ELSE IF new = 0 THEN None ELSE new
  BY DEF Refined, new, overran, ewma, sample
<1> QED BY <1>3, <1>4 DEF Estimates

(* The stages keep the type of the models and what is flagged.             *)
LEMMA ConvergedChains ==
  ASSUME NEW n \in 0..MaxChains, NEW flag \in BOOLEAN
  PROVE  LET cs == [i \in 1..n |-> Converged]
         IN cs \in Chains /\ Flagged(cs, flag) /\ Complete(cs)
BY ConvergedType, ChainsType DEF Flagged, Complete

LEMMA SteppedChains ==
  ASSUME NEW cs \in Chains, NEW step \in Nat, NEW flag \in BOOLEAN, Flagged(cs, flag)
  PROVE  /\ Stepped(cs, step) \in Chains /\ Flagged(Stepped(cs, step), flag)
         /\ DOMAIN Stepped(cs, step) = DOMAIN cs
<1>1. PICK n \in 0..MaxChains : cs \in [1..n -> Models] BY ChainsType
<1>2. Stepped(cs, step) = [i \in 1..n |-> [cs[i] EXCEPT !.left = Larger(0, @ - step)]]
  BY <1>1 DEF Stepped, EachChain
<1>3. \A i \in 1..n : [cs[i] EXCEPT !.left = Larger(0, @ - step)] \in Models
                      /\ [cs[i] EXCEPT !.left = Larger(0, @ - step)].tainted = cs[i].tainted
  <2> TAKE i \in 1..n
  <2>1. cs[i] \in Models BY <1>1
  <2>2. cs[i].left \in 0..Depth BY <2>1 DEF Models
  <2>3. Larger(0, cs[i].left - step) \in 0..Depth
    BY <2>2, CallbackAssumption DEF Larger
  <2> QED BY <2>1, <2>3 DEF Models
<1>4. Stepped(cs, step) \in [1..n -> Models] BY <1>2, <1>3
<1> QED BY <1>1, <1>2, <1>3, <1>4, ChainsType DEF Flagged

LEMMA ResetChains ==
  ASSUME NEW s \in Stage, NEW flag \in BOOLEAN
  PROVE  /\ ResetAll(s) \in Stage
         /\ Flagged(ResetAll(s).chains, flag)
         /\ ShutIsComplete(s) => ShutIsComplete(ResetAll(s))
<1>1. PICK n \in 0..MaxChains : s.chains \in [1..n -> Models] BY ChainsType DEF Stage
<1> DEFINE reset == [i \in 1..n |-> ResetModel]
<1>2. /\ ResetAll(s) \in [chains : {reset}, pending : BOOLEAN, zeros : {0}, cost : Estimates]
      /\ ResetAll(s).chains = reset
      /\ ResetAll(s).pending = (s.pending \/ s.chains # << >>)
  BY <1>1 DEF ResetAll, EachChain, Stage
<1>3. reset \in [1..n -> Models] BY ConvergedType
<1>4. reset \in Chains BY <1>3, ChainsType
<1>5. 0 \in Zeros BY CallbackAssumption DEF Zeros
<1>6. ResetAll(s) \in Stage BY <1>2, <1>4, <1>5 DEF Stage
<1>7. Flagged(reset, flag) BY ConvergedType DEF Flagged
<1>8. ASSUME ~ResetAll(s).pending PROVE Complete(reset)
  <2>1. s.chains = << >> BY <1>2, <1>8
  <2>2. n = 0
    <3>1. DOMAIN s.chains = 1..n BY <1>1
    <3>2. DOMAIN << >> = {} OBVIOUS
    <3> QED BY <2>1, <3>1, <3>2, <1>1
  <2> QED BY <2>2 DEF Complete
<1> QED BY <1>2, <1>6, <1>7, <1>8 DEF ShutIsComplete

LEMMA HitChains ==
  ASSUME NEW cs \in Chains, Complete(cs)
  PROVE  LET Hit(m) == [m EXCEPT !.tainted = TRUE]
         IN EachChain(cs, Hit) \in Chains /\ Complete(EachChain(cs, Hit))
<1>1. PICK n \in 0..MaxChains : cs \in [1..n -> Models] BY ChainsType
<1> DEFINE hit == [i \in 1..n |-> [cs[i] EXCEPT !.tainted = TRUE]]
<1>2. hit \in [1..n -> Models] /\ \A i \in 1..n : hit[i].left = cs[i].left
  BY <1>1 DEF Models
<1>3. LET Hit(m) == [m EXCEPT !.tainted = TRUE] IN EachChain(cs, Hit) = hit
  BY <1>1 DEF EachChain
<1>4. hit \in Chains /\ Complete(hit) BY <1>1, <1>2, ChainsType DEF Complete
<1> QED BY <1>3, <1>4

(* What a command leaves is a stage like the one between callbacks.        *)
LEMMA CommandKeeps ==
  ASSUME IInv, NEW command \in Commands, NEW new_cost \in Estimates
  PROVE  LET s == AfterCommand(command, new_cost)
         IN s \in Stage /\ Flagged(s.chains, non_finite) /\ ShutIsComplete(s)
<1> DEFINE s == AfterCommand(command, new_cost)
<1>1. /\ chains \in Chains /\ pending \in BOOLEAN /\ zero_count \in Zeros
      /\ cost \in Estimates /\ non_finite \in BOOLEAN
  BY DEF IInv, TypeOK, Zeros, Estimates
<1>2. PICK n \in 0..MaxChains : chains \in [1..n -> Models] BY <1>1, ChainsType
<1>3. Flagged(chains, non_finite) /\ (~pending => Complete(chains))
  BY DEF IInv, BetweenCalls
<1>4. Now \in Stage /\ Flagged(Now.chains, non_finite) /\ ShutIsComplete(Now)
  BY <1>1, <1>3 DEF Now, Stage, ShutIsComplete
<1>5. 0 \in Zeros BY CallbackAssumption DEF Zeros
<1>6. CASE command = "load"
  <2> DEFINE fresh == [i \in 1..Larger(Len(chains), 1) |-> Converged]
  <2>1. Len(chains) = n BY <1>2
  <2>2. Larger(Len(chains), 1) \in 0..MaxChains
    BY <2>1, CallbackAssumption DEF Larger
  <2>3. fresh \in Chains /\ Flagged(fresh, non_finite) /\ Complete(fresh)
    BY <1>1, <2>2, ConvergedChains
  <2> HIDE DEF fresh
  <2>4. s = [chains |-> fresh, pending |-> FALSE, zeros |-> 0, cost |-> new_cost]
    BY <1>6 DEF AfterCommand, ClearsLatch, Now, fresh
  <2> QED BY <1>5, <2>3, <2>4 DEF Stage, ShutIsComplete
<1>7. CASE command = "clear"
  <2>1. s = [chains |-> << >>, pending |-> FALSE, zeros |-> 0, cost |-> None]
    BY <1>7 DEF AfterCommand, ClearsLatch, Now
  <2>2. Flagged(<< >>, non_finite)
    <3>1. DOMAIN << >> = {} OBVIOUS
    <3> QED BY <3>1 DEF Flagged
  <2> QED BY <1>5, <2>1, <2>2, EmptyChains DEF Stage, ShutIsComplete, Estimates
<1>8. CASE command = "slim"
  <2>1. CASE chains = << >> BY <1>4, <1>8, <2>1 DEF AfterCommand
  <2>2. CASE chains # << >>
    <3> DEFINE cs == [chains EXCEPT ![1] = Converged]
    <3>1. cs \in [1..n -> Models] BY <1>2, ConvergedType
    <3>2. \A i \in 1..n : cs[i] = IF i = 1 THEN Converged ELSE chains[i] BY <1>2
    <3>3. cs \in Chains BY <3>1, ChainsType
    <3>4. Flagged(cs, non_finite) BY <1>2, <1>3, <3>1, <3>2, ConvergedType DEF Flagged
    <3>5. Complete(chains) => Complete(cs)
      BY <1>2, <3>1, <3>2, ConvergedType DEF Complete
    <3> HIDE DEF cs
    <3>6. s = [Now EXCEPT !.chains = cs]
      BY <1>8, <2>2 DEF AfterCommand, Now, cs
    <3>7. s = [chains |-> cs, pending |-> pending, zeros |-> zero_count, cost |-> cost]
      BY <3>6 DEF Now
    <3> QED BY <1>1, <1>3, <3>3, <3>4, <3>5, <3>7 DEF Stage, ShutIsComplete
  <2> QED BY <2>1, <2>2
<1>9. CASE command = "none" BY <1>4, <1>9 DEF AfterCommand
<1> QED BY <1>6, <1>7, <1>8, <1>9 DEF Commands

(* A turn of the window keeps it open.                                     *)
LEMMA WindowKeeps ==
  ASSUME TypeOK, NEW s \in Stage, Drains(s), Flagged(s.chains, non_finite),
         NEW frames \in FrameCounts, NEW elapsed \in Nat
  PROVE  LET w == Window(s, frames, elapsed)
         IN w \in Stage /\ Flagged(w.chains, non_finite) /\ w.pending
<1> DEFINE w == Window(s, frames, elapsed)
           step == StepOf(s, frames)
<1>1. /\ s.chains \in Chains /\ s.pending /\ s.zeros \in Zeros /\ s.cost \in Estimates
      /\ s = [chains |-> s.chains, pending |-> s.pending, zeros |-> s.zeros, cost |-> s.cost]
  BY DEF Stage, Drains
<1>2. PICK n \in 0..MaxChains : s.chains \in [1..n -> Models] BY <1>1, ChainsType
<1>3. Len(s.chains) = n /\ n # 0
  <2>1. Len(s.chains) = n BY <1>2
  <2>2. s.chains # << >> BY DEF Drains
  <2> QED BY <1>2, <2>1, <2>2
<1>4. cost \in Estimates /\ non_finite \in BOOLEAN BY DEF TypeOK, Estimates
<1>5. step \in Nat
  <2>1. MeasuredCost(s) \in Estimates BY <1>1 DEF MeasuredCost, Estimates
  <2>2. Len(s.chains) \in Nat BY <1>3
  <2> QED BY <2>1, <2>2, StepBounded DEF StepOf
<1> HIDE DEF step
<1>6. CASE step = 0
  <2> DEFINE zeros == Smaller(s.zeros + 1, StarvationLimit + 1)
  <2>1. zeros \in Zeros BY <1>1, CallbackAssumption DEF Zeros, Smaller
  <2> HIDE DEF zeros
  <2>2. w = [s EXCEPT !.zeros = zeros,
                      !.cost = IF zeros = StarvationLimit THEN None ELSE @]
    BY <1>6 DEF Window, Starved, zeros, step
  <2>3. w = [chains |-> s.chains, pending |-> s.pending, zeros |-> zeros,
             cost |-> IF zeros = StarvationLimit THEN None ELSE s.cost]
    BY <1>1, <2>2
  <2> QED BY <1>1, <2>1, <2>3 DEF Stage, Estimates
<1>7. CASE step # 0
  <2> DEFINE cs == Stepped(s.chains, step)
             new == Refined(frames, step, Len(s.chains), elapsed)
  <2>1. cs \in Chains /\ Flagged(cs, non_finite) BY <1>1, <1>4, <1>5, SteppedChains
  <2>2. new \in Estimates
    <3>1. step \in Nat \ {0} /\ Len(s.chains) \in Nat \ {0} BY <1>3, <1>5, <1>7
    <3> QED BY <1>4, <3>1, RefinedType
  <2> HIDE DEF cs, new
  <2>3. w = [s EXCEPT !.zeros = 0, !.chains = cs, !.cost = new]
    BY <1>7 DEF Window, step, cs, new
  <2>4. w = [chains |-> cs, pending |-> s.pending, zeros |-> 0, cost |-> new]
    BY <1>1, <2>3
  <2>5. 0 \in Zeros BY CallbackAssumption DEF Zeros
  <2> QED BY <1>1, <2>1, <2>2, <2>4, <2>5 DEF Stage
<1> QED BY <1>6, <1>7

-----------------------------------------------------------------------------
(* The invariant.                                                          *)

LEMMA InitInv == Init => IInv
<1> SUFFICES ASSUME Init PROVE IInv OBVIOUS
<1> USE DEF Init
<1>1. PICK n \in 0..MaxChains : kept = [i \in 1..n |-> Converged] OBVIOUS
<1>2. kept \in Chains /\ Flagged(kept, non_finite) BY <1>1, ConvergedChains
<1>3. Flagged(<< >>, non_finite)
  <2>1. DOMAIN << >> = {} OBVIOUS
  <2> QED BY <2>1 DEF Flagged
<1>4. TypeOK
  <2>1. chains \in Chains BY EmptyChains
  <2>2. zero_count \in Zeros /\ cost \in Estimates BY ZeroType
  <2> QED BY <1>2, <2>1, <2>2 DEF TypeOK, Zeros, Estimates
<1>5. BetweenCalls BY <1>2, <1>3, EmptyChains DEF BetweenCalls
<1>6. WetIsConverged BY DEF WetIsConverged
<1>7. HitsAreContained BY DEF HitsAreContained
<1>8. StepFitsBudget BY DEF StepFitsBudget, NoDrain, Larger
<1> QED BY <1>4, <1>5, <1>6, <1>7, <1>8 DEF IInv

(* What a step must show of the stage it ends in.                          *)
LEMMA EndsInStage ==
  ASSUME NEW s \in Stage, Becomes(s), ShutIsComplete(s), Flagged(s.chains, non_finite')
  PROVE  /\ chains' \in Chains /\ pending' \in BOOLEAN /\ zero_count' \in Zeros
         /\ cost' \in Estimates
         /\ ~pending' => Complete(chains')
         /\ Flagged(chains', non_finite')
BY DEF Becomes, Stage, ShutIsComplete

LEMMA ProcessInv ==
  ASSUME IInv, NEW frames \in FrameCounts, NEW finite \in BOOLEAN, NEW command \in Commands,
         NEW new_cost \in Estimates, NEW elapsed \in Nat,
         Process(frames, finite, command, new_cost, elapsed)
  PROVE  IInv'
<1> DEFINE c == AfterCommand(command, new_cost)
           w == IF Drains(c) THEN Window(c, frames, elapsed) ELSE c
           s == IF w.pending THEN ClearsLatch(w) ELSE w
<1>1. c \in Stage /\ Flagged(c.chains, non_finite) /\ ShutIsComplete(c) BY CommandKeeps
<1>2. TypeOK BY DEF IInv
<1> HIDE DEF c
<1>3. w \in Stage /\ Flagged(w.chains, non_finite) /\ ShutIsComplete(w)
  <2>1. CASE Drains(c) BY <1>1, <1>2, <2>1, WindowKeeps DEF ShutIsComplete
  <2>2. CASE ~Drains(c) BY <1>1, <2>2
  <2> QED BY <2>1, <2>2
<1>4. StepFitsBudget'
  <2>1. CASE Drains(c)
    <3>1. MeasuredCost(c) \in Estimates BY <1>1 DEF MeasuredCost, Estimates, Stage
    <3>2. Len(c.chains) \in Nat
      <4>1. PICK n \in 0..MaxChains : c.chains \in [1..n -> Models]
        BY <1>1, ChainsType DEF Stage
      <4> QED BY <4>1
    <3>3. StepOf(c, frames) * StepCost(MeasuredCost(c), Len(c.chains))
            <= Larger(Available(frames), 0)
      BY <3>1, <3>2, StepBounded DEF StepOf
    <3>4. drain' = [budget |-> Available(frames),
                    estimate |-> StepOf(c, frames)
                                   * StepCost(MeasuredCost(c), Len(c.chains))]
      BY <2>1 DEF Process, c
    <3> QED BY <3>3, <3>4 DEF StepFitsBudget, Larger
  <2>2. CASE ~Drains(c)
    <3>1. drain' = drain BY <2>2 DEF Process, c
    <3> QED BY <3>1 DEF IInv, StepFitsBudget, Larger
  <2> QED BY <2>1, <2>2
<1>5. /\ phase' = phase /\ kept' = kept /\ static' = static /\ phase = "processing"
      /\ IF Stays(w) THEN DryBlock(w)
         ELSE IF non_finite THEN ContainedBlock(s) ELSE WetBlock(s, finite)
  BY DEF Process, c
<1> HIDE DEF w
<1>6. ~Stays(w) => /\ s \in Stage /\ s.chains = w.chains /\ Complete(s.chains)
                   /\ Flagged(s.chains, non_finite)
  <2> SUFFICES ASSUME ~Stays(w)
               PROVE  /\ s \in Stage /\ s.chains = w.chains /\ Complete(s.chains)
                      /\ Flagged(s.chains, non_finite)
    OBVIOUS
  <2>1. w = [chains |-> w.chains, pending |-> w.pending, zeros |-> w.zeros, cost |-> w.cost]
    BY <1>3 DEF Stage
  <2>2. w.chains \in Chains /\ w.cost \in Estimates BY <1>3 DEF Stage
  <2>3. 0 \in Zeros BY CallbackAssumption DEF Zeros
  <2>4. CASE w.pending
    <3>1. s = [chains |-> w.chains, pending |-> FALSE, zeros |-> 0, cost |-> w.cost]
      BY <2>1, <2>4 DEF ClearsLatch
    <3>2. [chains |-> w.chains, pending |-> FALSE, zeros |-> 0, cost |-> w.cost] \in Stage
      BY <2>2, <2>3, StageType
    <3> HIDE DEF s
    <3>5. s \in Stage BY <3>1, <3>2
    <3>3. s.chains = w.chains BY <3>1
    <3>4. Complete(w.chains) BY <2>4 DEF Stays
    <3> QED BY <1>3, <3>3, <3>4, <3>5
  <2>5. CASE ~w.pending BY <1>3, <2>5 DEF ShutIsComplete
  <2> QED BY <2>4, <2>5
<1> HIDE DEF s
<1>7. CASE Stays(w)
  <2>1. /\ Becomes(w) /\ output' = "dry" /\ poisoned' = poisoned
        /\ poison_flag' = poison_flag /\ non_finite' = non_finite /\ epoch' = epoch
        /\ hits' = hits
    BY <1>5, <1>7 DEF DryBlock, faults
  <2>2. /\ chains' \in Chains /\ pending' \in BOOLEAN /\ zero_count' \in Zeros
        /\ cost' \in Estimates /\ (~pending' => Complete(chains'))
        /\ Flagged(chains', non_finite')
    BY <1>3, <2>1, EndsInStage
  <2>3. TypeOK' BY <1>5, <2>1, <2>2, <1>2 DEF TypeOK, Zeros, Estimates
  <2>4. BetweenCalls' BY <1>5, <2>1, <2>2 DEF IInv, BetweenCalls
  <2> QED BY <1>4, <2>1, <2>3, <2>4 DEF IInv, WetIsConverged, HitsAreContained
<1>8. CASE ~Stays(w) /\ non_finite
  <2>1. /\ Becomes(ResetAll(s)) /\ output' = "dry" /\ poisoned' = poisoned
        /\ poison_flag' = poison_flag /\ non_finite' = FALSE /\ epoch' = epoch + 1
        /\ hits' = hits
    BY <1>5, <1>8 DEF ContainedBlock
  <2>2. /\ ResetAll(s) \in Stage /\ Flagged(ResetAll(s).chains, FALSE)
        /\ ShutIsComplete(ResetAll(s))
    BY <1>6, <1>8, ResetChains DEF ShutIsComplete
  <2>3. /\ chains' \in Chains /\ pending' \in BOOLEAN /\ zero_count' \in Zeros
        /\ cost' \in Estimates /\ (~pending' => Complete(chains'))
        /\ Flagged(chains', non_finite')
    BY <2>1, <2>2, EndsInStage
  <2>4. TypeOK' BY <1>5, <2>1, <2>3, <1>2 DEF TypeOK, Zeros, Estimates
  <2>5. BetweenCalls'
    <3>1. kept' = << >> BY <1>5 DEF IInv, BetweenCalls
    <3>2. DOMAIN << >> = {} OBVIOUS
    <3>3. Flagged(kept', non_finite') BY <3>1, <3>2 DEF Flagged
    <3> QED BY <2>3, <3>1, <3>3 DEF BetweenCalls
  <2>6. HitsAreContained' /\ hits' \in Nat /\ epoch' \in Nat
    BY <1>8, <2>1 DEF IInv, HitsAreContained
  <2>7. WetIsConverged' BY <2>1 DEF WetIsConverged
  <2> QED BY <1>4, <2>4, <2>5, <2>6, <2>7 DEF IInv
<1>9. CASE ~Stays(w) /\ ~non_finite
  <2>1. /\ output' = IF \A i \in DOMAIN s.chains : s.chains[i] = Converged
                     THEN "wet" ELSE "stale wet"
        /\ poisoned' = poisoned /\ poison_flag' = poison_flag /\ epoch' = epoch
    BY <1>5, <1>9 DEF WetBlock
  <2>2. \A i \in DOMAIN s.chains : s.chains[i] = Converged
    <3>1. PICK n \in 0..MaxChains : s.chains \in [1..n -> Models]
      BY <1>6, <1>9, ChainsType DEF Stage
    <3> TAKE i \in DOMAIN s.chains
    <3>2. s.chains[i] \in Models BY <3>1
    <3>3. s.chains[i].left = 0 /\ s.chains[i].tainted = FALSE
      BY <1>6, <1>9, <3>2 DEF Complete, Flagged, Models
    <3> QED BY <3>2, <3>3 DEF Models, Converged, Model
  <2>3. output' = "wet" BY <2>1, <2>2
  <2>4. CASE finite
    <3>1. Becomes(s) /\ non_finite' = non_finite /\ hits' = hits
      BY <1>5, <1>9, <2>4 DEF WetBlock
    <3>2. /\ chains' \in Chains /\ pending' \in BOOLEAN /\ zero_count' \in Zeros
          /\ cost' \in Estimates /\ (~pending' => Complete(chains'))
          /\ Flagged(chains', non_finite')
      BY <1>6, <1>9, <3>1, EndsInStage DEF ShutIsComplete
    <3>3. TypeOK' BY <1>5, <2>1, <2>3, <3>1, <3>2, <1>2 DEF TypeOK, Zeros, Estimates
    <3>4. QED
      BY <1>4, <1>5, <2>1, <2>3, <3>1, <3>2, <3>3
      DEF IInv, BetweenCalls, WetIsConverged, HitsAreContained
  <2>5. CASE ~finite
    <3> DEFINE Hit(m) == [m EXCEPT !.tainted = TRUE]
               hit == [s EXCEPT !.chains = EachChain(@, Hit)]
    <3>1. Becomes(hit) /\ non_finite' = TRUE /\ hits' = hits + 1
      BY <1>5, <1>9, <2>5 DEF WetBlock
    <3>2. s = [chains |-> s.chains, pending |-> s.pending, zeros |-> s.zeros, cost |-> s.cost]
      BY <1>6, <1>9 DEF Stage
    <3>3. EachChain(s.chains, Hit) \in Chains /\ Complete(EachChain(s.chains, Hit))
      BY <1>6, <1>9, HitChains DEF Stage
    <3>4. hit = [chains |-> EachChain(s.chains, Hit), pending |-> s.pending,
                 zeros |-> s.zeros, cost |-> s.cost]
      BY <3>2
    <3>5. hit \in Stage BY <1>6, <1>9, <3>3, <3>4 DEF Stage
    <3>6. ShutIsComplete(hit) BY <3>3, <3>4 DEF ShutIsComplete
    <3>7. Flagged(hit.chains, non_finite') BY <3>1 DEF Flagged
    <3> HIDE DEF hit
    <3>8. /\ chains' \in Chains /\ pending' \in BOOLEAN /\ zero_count' \in Zeros
          /\ cost' \in Estimates /\ (~pending' => Complete(chains'))
          /\ Flagged(chains', non_finite')
      BY <3>1, <3>5, <3>6, <3>7, EndsInStage
    <3>9. TypeOK' BY <1>5, <2>1, <2>3, <3>1, <3>8, <1>2 DEF TypeOK, Zeros, Estimates
    <3>10. BetweenCalls'
      BY <1>5, <3>1, <3>8 DEF IInv, BetweenCalls, Flagged
    <3>11. HitsAreContained' /\ hits' \in Nat /\ epoch' \in Nat
      <4>1. hits \in Nat /\ epoch \in Nat /\ hits = epoch
        BY <1>9 DEF IInv, HitsAreContained
      <4>2. hits' = hits + 1 /\ epoch' = epoch /\ non_finite' BY <2>1, <3>1
      <4> QED BY <4>1, <4>2 DEF HitsAreContained
    <3>12. WetIsConverged' BY <2>3 DEF WetIsConverged
    <3> QED BY <1>4, <3>9, <3>10, <3>11, <3>12 DEF IInv
  <2> QED BY <2>4, <2>5
<1> QED BY <1>7, <1>8, <1>9

LEMMA ResetInv ==
  ASSUME IInv, Reset
  PROVE  IInv'
<1>1. /\ UNCHANGED <<phase, kept, static, non_finite, epoch, output, drain, hits, block>>
      /\ \/ Becomes(ResetAll(Now)) /\ UNCHANGED <<poisoned, poison_flag>>
         \/ Poisons /\ UNCHANGED <<chains, window>>
  BY DEF Reset
<1>2. TypeOK BY DEF IInv
<1>3. Now \in Stage /\ ShutIsComplete(Now)
  BY <1>2 DEF IInv, BetweenCalls, TypeOK, Now, Stage, ShutIsComplete, Zeros, Estimates
<1>4. CASE Becomes(ResetAll(Now)) /\ UNCHANGED <<poisoned, poison_flag>>
  <2>1. non_finite' \in BOOLEAN BY <1>1, <1>2 DEF TypeOK
  <2>2. /\ ResetAll(Now) \in Stage /\ Flagged(ResetAll(Now).chains, non_finite')
        /\ ShutIsComplete(ResetAll(Now))
    BY <1>3, <2>1, ResetChains
  <2>3. /\ chains' \in Chains /\ pending' \in BOOLEAN /\ zero_count' \in Zeros
        /\ cost' \in Estimates /\ (~pending' => Complete(chains'))
        /\ Flagged(chains', non_finite')
    BY <1>4, <2>2, EndsInStage
  <2>4. TypeOK' BY <1>1, <1>2, <1>4, <2>3 DEF TypeOK, Zeros, Estimates
  <2> QED
    BY <1>1, <2>3, <2>4
    DEF IInv, BetweenCalls, WetIsConverged, HitsAreContained, StepFitsBudget
<1>5. CASE Poisons /\ UNCHANGED <<chains, window>>
  <2>1. TypeOK' BY <1>1, <1>2, <1>5 DEF TypeOK, Poisons, window
  <2> QED
    BY <1>1, <1>5, <2>1
    DEF IInv, BetweenCalls, WetIsConverged, HitsAreContained, StepFitsBudget, window
<1> QED BY <1>1, <1>4, <1>5

LEMMA ActivateInv ==
  ASSUME IInv, Activate
  PROVE  IInv'
<1>1. PICK n \in 0..MaxChains : kept \in [1..n -> Models]
  BY ChainsType DEF IInv, TypeOK
<1> DEFINE fed == [i \in 1..n |-> [kept[i] EXCEPT !.left = 0]]
<1>2. fed \in [1..n -> Models]
      /\ \A i \in 1..n : fed[i].left = 0 /\ fed[i].tainted = kept[i].tainted
  <2>1. ASSUME NEW m \in Models
        PROVE  /\ [m EXCEPT !.left = 0] \in Models
               /\ [m EXCEPT !.left = 0].left = 0
               /\ [m EXCEPT !.left = 0].tainted = m.tainted
    <3>1. 0 \in 0..Depth BY CallbackAssumption
    <3> QED BY <3>1 DEF Models
  <2>2. \A i \in 1..n : kept[i] \in Models /\ fed[i] = [kept[i] EXCEPT !.left = 0] BY <1>1
  <2>3. \A i \in 1..n :
          fed[i] \in Models /\ fed[i].left = 0 /\ fed[i].tainted = kept[i].tainted
    BY <2>1, <2>2
  <2> QED BY <2>3
<1>3. Restored(kept) = fed BY <1>1 DEF Restored, EachChain
<1>4. fed \in Chains /\ Complete(fed) /\ Flagged(fed, non_finite)
  BY <1>1, <1>2, ChainsType DEF IInv, BetweenCalls, Flagged, Complete
<1>5. cost' \in Estimates BY CallbackAssumption DEF Activate, Estimates
<1>6. chains' = fed /\ kept' = << >> BY <1>3 DEF Activate
<1>7. Flagged(<< >>, non_finite)
  <2>1. DOMAIN << >> = {} OBVIOUS
  <2> QED BY <2>1 DEF Flagged
<1>8. /\ phase' = "stopped" /\ pending' = FALSE /\ zero_count' = 0
      /\ poisoned' = FALSE /\ poison_flag' = FALSE
      /\ UNCHANGED <<static, non_finite, epoch, output, drain, hits>>
  BY DEF Activate
<1> HIDE DEF fed
<1>9. TypeOK'
  <2>1. chains' \in Chains /\ kept' \in Chains BY <1>4, <1>6, EmptyChains
  <2>2. zero_count' \in Zeros BY <1>8, ZeroType
  <2> QED BY <1>5, <1>8, <2>1, <2>2 DEF IInv, TypeOK, Zeros, Estimates
<1>10. BetweenCalls' BY <1>4, <1>6, <1>7, <1>8 DEF BetweenCalls
<1> QED
  BY <1>8, <1>9, <1>10 DEF IInv, WetIsConverged, HitsAreContained, StepFitsBudget

LEMMA DeactivateInv ==
  ASSUME IInv, Deactivate
  PROVE  IInv'
<1>1. kept' \in Chains /\ Flagged(kept', non_finite)
  <2>1. kept' = << >> \/ kept' = chains BY DEF Deactivate
  <2>2. DOMAIN << >> = {} OBVIOUS
  <2> QED BY <2>1, <2>2, EmptyChains DEF IInv, TypeOK, BetweenCalls, Flagged
<1>2. Flagged(<< >>, non_finite)
  <2>1. DOMAIN << >> = {} OBVIOUS
  <2> QED BY <2>1 DEF Flagged
<1>3. /\ chains' = << >> /\ pending' = FALSE /\ zero_count' = 0 /\ cost' = None
      /\ phase' = "inactive" /\ poisoned' = FALSE /\ output' = "none"
      /\ UNCHANGED <<static, poison_flag, non_finite, epoch, drain, hits>>
  BY DEF Deactivate
<1>4. TypeOK'
  <2>1. chains' \in Chains BY <1>3, EmptyChains
  <2>2. zero_count' \in Zeros /\ cost' \in Estimates BY <1>3, ZeroType
  <2> QED BY <1>1, <1>3, <2>1, <2>2 DEF IInv, TypeOK, Zeros, Estimates
<1>5. BetweenCalls' BY <1>1, <1>2, <1>3, EmptyChains DEF BetweenCalls
<1> QED
  BY <1>3, <1>4, <1>5 DEF IInv, WetIsConverged, HitsAreContained, StepFitsBudget

LEMMA NextInv == IInv /\ [Next]_vars => IInv'
<1> SUFFICES ASSUME IInv, [Next]_vars PROVE IInv' OBVIOUS
<1>1. CASE ProcessSome
  <2>1. CASE \E n \in FrameCounts, finite \in BOOLEAN, command \in Commands :
               \E c \in NewCosts(command), t \in Times(command) :
                 Process(n, finite, command, c, t)
    <3>1. PICK n \in FrameCounts, finite \in BOOLEAN, command \in Commands :
               \E c \in NewCosts(command), t \in Times(command) :
                 Process(n, finite, command, c, t)
      BY <2>1
    <3>2. PICK c \in NewCosts(command), t \in Times(command) :
                 Process(n, finite, command, c, t)
      BY <3>1
    <3>3. c \in Estimates BY CallbackAssumption DEF NewCosts, Estimates
    <3>4. t \in Nat BY CallbackAssumption DEF Times
    <3> QED BY <3>2, <3>3, <3>4, ProcessInv
  <2>2. CASE ProcessPoisoned
    BY <2>2
    DEF ProcessPoisoned, IInv, TypeOK, BetweenCalls, WetIsConverged, HitsAreContained,
        StepFitsBudget, window, faults
  <2> QED BY <1>1, <2>1, <2>2 DEF ProcessSome
<1>2. CASE ProcessPanics
  BY <1>2
  DEF ProcessPanics, Poisons, IInv, TypeOK, BetweenCalls, WetIsConverged, HitsAreContained,
      StepFitsBudget, window
<1>3. CASE Reset BY <1>3, ResetInv
<1>4. CASE StartProcessing
  BY <1>4
  DEF StartProcessing, Poisons, IInv, TypeOK, BetweenCalls, WetIsConverged, HitsAreContained,
      StepFitsBudget, window
<1>5. CASE StopProcessing
  BY <1>5
  DEF StopProcessing, IInv, TypeOK, BetweenCalls, WetIsConverged, HitsAreContained,
      StepFitsBudget, window, faults
<1>6. CASE Activate BY <1>6, ActivateInv
<1>7. CASE Deactivate BY <1>7, DeactivateInv
<1>8. CASE UNCHANGED vars
  BY <1>8
  DEF vars, IInv, TypeOK, BetweenCalls, WetIsConverged, HitsAreContained, StepFitsBudget,
      window, faults
<1> QED BY <1>1, <1>2, <1>3, <1>4, <1>5, <1>6, <1>7, <1>8 DEF Next

-----------------------------------------------------------------------------
(* The theorems.                                                           *)

(* The strengthened invariant of the callback: with the window shut every  *)
(* model has converged, and one that saw non-finite input is flagged       *)
(* (process(), reset(), activate() and deactivate() of processor/mod.rs).  *)
THEOREM CallbackInvariant == Spec => []IInv
<1>1. Init => IInv BY InitInv
<1>2. IInv /\ [Next]_vars => IInv' BY NextInv
<1> QED BY <1>1, <1>2, PTL DEF Spec

(* The state of the callback keeps its type; in particular a cost estimate *)
(* is never zero, so no budget divides by it.                              *)
THEOREM TypesHold == Spec => []TypeOK
<1>1. IInv => TypeOK BY DEF IInv
<1> QED BY <1>1, CallbackInvariant, PTL

(* Whatever resets, loads, rebuilds, faults and restarts come between, no  *)
(* wet block is computed by a model that is being reset or saw non-finite  *)
(* input (process_dry_contained_block, processor/mod.rs:1749).             *)
THEOREM WetComesFromConverged == Spec => []WetIsConverged
<1>1. IInv => WetIsConverged BY DEF IInv
<1> QED BY <1>1, CallbackInvariant, PTL

(* Every block in which non-finite input was found is contained once, or   *)
(* is about to be (orchestrator.rs:94-108).                                *)
THEOREM EveryHitIsContained == Spec => []HitsAreContained
<1>1. IInv => HitsAreContained BY DEF IInv
<1> QED BY <1>1, CallbackInvariant, PTL

(* For every period, cost and number of models the estimated cost of a     *)
(* drain stays within the time of its callback (compute_prewarm_step).     *)
THEOREM DrainFitsBudget == Spec => []StepFitsBudget
<1>1. IInv => StepFitsBudget BY DEF IInv
<1> QED BY <1>1, CallbackInvariant, PTL
=============================================================================
