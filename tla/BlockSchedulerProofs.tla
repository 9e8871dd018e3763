------------------------ MODULE BlockSchedulerProofs ------------------------
(***************************************************************************)
(* Proofs about BlockScheduler for every activation (frame maximum, fuse   *)
(* limit, number of gain steps, crossfade length) and every block the host *)
(* can send: any length, any events, in any order of times.                *)
(*                                                                         *)
(* SampleAccurate speaks of samples that were rendered many sub-blocks     *)
(* ago.  What carries it through a block is that the parameters always are *)
(* what the events applied so far make of those at the start of the block  *)
(* (Heeded), that nothing stale is rendered with and no event to come is   *)
(* late (Rendering), and that one sub-block renders each of its samples as *)
(* it is automated (Sounds).  The last rests on two facts: a sub-block is  *)
(* cut at every event but the gains it can fuse (CutExists), and it never  *)
(* fuses more gains than the ramp has steps (SortedEnds).                  *)
(*                                                                         *)
(* ApplyAll is a recursive function of a run of events; what it does to    *)
(* the parameters is shown by induction over the run, from the             *)
(* well-founded order of the naturals.                                     *)
(***************************************************************************)
EXTENDS BlockScheduler, FiniteSetTheorems, WellFoundedInduction, TLAPS

-----------------------------------------------------------------------------
(* Induction over the naturals.                                            *)

(* A set of naturals that is not empty has a least member.                 *)
LEMMA Least ==
  ASSUME NEW T, T \subseteq Nat, T # {}
  PROVE  \E x \in T : \A y \in T : x <= y
<1>1. PICK x \in T : \A y \in T : ~(<<y, x>> \in OpToRel(<, Nat))
  BY NatLessThanWellFounded, WFMin
<1>2. \A y \in T : (y < x => <<y, x>> \in OpToRel(<, Nat))
  BY Zenon DEF OpToRel
<1>3. \A y \in T : ~(y < x)
  BY <1>1, <1>2, Zenon
<1> HIDE <1>1
<1>4. \A y \in T : x <= y
  BY <1>3
<1> QED
  BY <1>4

(* A set with 0 and, with every natural, the next one, has them all.       *)
LEMMA Induct ==
  ASSUME NEW S, 0 \in S, \A n \in Nat : n \in S => n + 1 \in S
  PROVE  Nat \subseteq S
<1> SUFFICES ASSUME Nat \ S # {} PROVE FALSE
  OBVIOUS
<1>1. PICK x \in Nat \ S : \A y \in Nat \ S : x <= y
  <2>1. Nat \ S \subseteq Nat
    OBVIOUS
  <2> QED
    BY <2>1, Least
<1>2. x - 1 \in Nat /\ (x - 1) + 1 = x
  BY <1>1
<1>3. x - 1 \in S
  BY <1>1, <1>2
<1> QED
  BY <1>1, <1>2, <1>3

(* The same from i on, up to a bound.                                      *)
LEMMA InductFrom ==
  ASSUME NEW i \in Int, NEW j \in Int, NEW S, i \in S,
         \A k \in i..j - 1 : k \in S => k + 1 \in S
  PROVE  \A k \in i..j : k \in S
<1> DEFINE T == {n \in Nat : i + n <= j => i + n \in S}
<1>1. 0 \in T
  OBVIOUS
<1>2. ASSUME NEW n \in Nat, n \in T PROVE n + 1 \in T
  <2> SUFFICES ASSUME i + (n + 1) <= j PROVE i + (n + 1) \in S
    OBVIOUS
  <2>1. i + n \in i..j - 1 /\ (i + n) + 1 = i + (n + 1)
    OBVIOUS
  <2>2. i + n \in S
    BY <1>2
  <2> HIDE DEF T
  <2> QED
    BY <2>1, <2>2
<1>3. Nat \subseteq T
  <2> HIDE DEF T
  <2> QED
    BY <1>1, <1>2, Induct
<1> SUFFICES ASSUME NEW k \in i..j PROVE k \in S
  OBVIOUS
<1>4. k - i \in Nat /\ i + (k - i) = k /\ k <= j
  OBVIOUS
<1>5. k - i \in T
  BY <1>3, <1>4
<1> QED
  BY <1>4, <1>5

-----------------------------------------------------------------------------
(* ApplyAll.                                                               *)

(* The state before event k, from t, the state before event k - 1.         *)
Before(s, es, i, jump, k, t) == IF k = i THEN s ELSE Apply(t, es[k - 1], jump)
Runs(s, es, i, j, jump, f) == f = [k \in i..j |-> Before(s, es, i, jump, k, f[k - 1])]

(* What such a function has at k.                                          *)
LEMMA RunsValues ==
  ASSUME NEW s, NEW es, NEW i \in Int, NEW j \in Int, NEW jump, NEW f,
         Runs(s, es, i, j, jump, f), NEW k \in i..j
  PROVE  f[k] = Before(s, es, i, jump, k, f[k - 1])
<1> DEFINE g == [m \in i..j |-> Before(s, es, i, jump, m, f[m - 1])]
<1>1. f = g
  BY DEF Runs
<1>2. g[k] = Before(s, es, i, jump, k, f[k - 1])
  OBVIOUS
<1> HIDE DEF g
<1> QED
  BY <1>1, <1>2, Zenon

(* The run over the events i..j-1 exists...                                *)
LEMMA RunsExist ==
  ASSUME NEW s, NEW es, NEW i \in Int, NEW j \in Int, i <= j, NEW jump
  PROVE  \E f : Runs(s, es, i, j, jump, f)
<1> DEFINE S == {k \in Int : \E f : Runs(s, es, i, k, jump, f)}
<1>1. i \in S
  <2> DEFINE f == [k \in i..i |-> s]
             h == [k \in i..i |-> Before(s, es, i, jump, k, f[k - 1])]
  <2>1. ASSUME NEW k \in i..i PROVE f[k] = Before(s, es, i, jump, k, f[k - 1])
    BY DEF Before
  <2>2. f = h
    BY <2>1
  <2> HIDE DEF f
  <2>3. Runs(s, es, i, i, jump, f)
    BY <2>2 DEF Runs
  <2> QED
    BY <2>3
<1>2. ASSUME NEW k \in i..j - 1, k \in S PROVE k + 1 \in S
  <2>1. PICK f : Runs(s, es, i, k, jump, f)
    BY <1>2
  <2> DEFINE g == [m \in i..k + 1 |-> IF m <= k THEN f[m] ELSE Before(s, es, i, jump, m, f[k])]
             h == [m \in i..k + 1 |-> Before(s, es, i, jump, m, g[m - 1])]
  <2>2. ASSUME NEW m \in i..k + 1 PROVE g[m] = Before(s, es, i, jump, m, g[m - 1])
    <3>1. CASE m <= k
      <4>1. m \in i..k
        BY <3>1
      <4>2. f[m] = Before(s, es, i, jump, m, f[m - 1])
        BY <2>1, <4>1, RunsValues
      <4>3. g[m] = f[m]
        BY <3>1
      <4>4. CASE m = i
        BY <4>2, <4>3, <4>4 DEF Before
      <4>5. CASE m # i
        <5>1. g[m - 1] = f[m - 1]
          BY <3>1, <4>5
        <5> QED
          BY <4>2, <4>3, <5>1
      <4> QED
        BY <4>4, <4>5
    <3>2. CASE m = k + 1
      <4>1. g[m] = Before(s, es, i, jump, m, f[k])
        BY <3>2
      <4>2. g[m - 1] = f[k]
        BY <3>2
      <4> QED
        BY <4>1, <4>2
    <3> QED
      BY <3>1, <3>2
  <2>3. g = h
    BY <2>2
  <2> HIDE DEF g
  <2>4. Runs(s, es, i, k + 1, jump, g)
    BY <2>3 DEF Runs
  <2> QED
    BY <2>4
<1>3. \A k \in i..j : k \in S
  <2> HIDE DEF S
  <2> QED
    BY <1>1, <1>2, InductFrom
<1> QED
  BY <1>3

(* ... and a longer one only goes on where a shorter one ends.             *)
LEMMA RunsAgree ==
  ASSUME NEW s, NEW es, NEW i \in Int, NEW j \in Int, NEW l \in Int, i <= j, j <= l,
         NEW jump, NEW f, Runs(s, es, i, j, jump, f), NEW g, Runs(s, es, i, l, jump, g)
  PROVE  f[j] = g[j]
<1> DEFINE S == {k \in Int : f[k] = g[k]}
<1>1. i \in S
  <2>1. f[i] = s /\ g[i] = s
    BY RunsValues DEF Before
  <2> QED
    BY <2>1
<1>2. ASSUME NEW k \in i..j - 1, k \in S PROVE k + 1 \in S
  <2>1. k + 1 \in i..j /\ k + 1 \in i..l /\ (k + 1) - 1 = k
    OBVIOUS
  <2>2. /\ f[k + 1] = Before(s, es, i, jump, k + 1, f[(k + 1) - 1])
        /\ g[k + 1] = Before(s, es, i, jump, k + 1, g[(k + 1) - 1])
    BY <2>1, RunsValues
  <2>3. f[k] = g[k]
    BY <1>2
  <2> QED
    BY <2>1, <2>2, <2>3
<1>3. \A k \in i..j : k \in S
  <2> HIDE DEF S
  <2> QED
    BY <1>1, <1>2, InductFrom
<1> QED
  BY <1>3

(* It exists, and ApplyAll is its last value.                              *)
LEMMA ApplyAllRuns ==
  ASSUME NEW s, NEW es, NEW i \in Int, NEW j \in Int, i <= j, NEW jump
  PROVE  \E f : Runs(s, es, i, j, jump, f) /\ ApplyAll(s, es, i, j, jump) = f[j]
<1> DEFINE f == CHOOSE f : Runs(s, es, i, j, jump, f)
<1>1. Runs(s, es, i, j, jump, f)
  BY RunsExist
<1>2. ApplyAll(s, es, i, j, jump) = f[j]
  BY DEF ApplyAll, Runs, Before
<1> HIDE DEF f
<1> QED
  BY <1>1, <1>2

(* No event, and one event more.                                           *)
LEMMA ApplyNone ==
  ASSUME NEW s, NEW es, NEW i \in Int, NEW jump
  PROVE  ApplyAll(s, es, i, i, jump) = s
<1>1. PICK f : Runs(s, es, i, i, jump, f) /\ ApplyAll(s, es, i, i, jump) = f[i]
  BY ApplyAllRuns
<1>2. f[i] = Before(s, es, i, jump, i, f[i - 1])
  BY <1>1, RunsValues
<1> QED
  BY <1>1, <1>2 DEF Before

(* One more event is one more Apply.                                       *)
LEMMA ApplyOne ==
  ASSUME NEW s, NEW es, NEW i \in Int, NEW j \in Int, i <= j, NEW jump
  PROVE  ApplyAll(s, es, i, j + 1, jump) = Apply(ApplyAll(s, es, i, j, jump), es[j], jump)
<1>1. PICK f : Runs(s, es, i, j, jump, f) /\ ApplyAll(s, es, i, j, jump) = f[j]
  BY ApplyAllRuns
<1>2. PICK g : Runs(s, es, i, j + 1, jump, g) /\ ApplyAll(s, es, i, j + 1, jump) = g[j + 1]
  BY ApplyAllRuns
<1>3. f[j] = g[j]
  BY <1>1, <1>2, RunsAgree
<1>4. g[j + 1] = Before(s, es, i, jump, j + 1, g[(j + 1) - 1])
  BY <1>2, RunsValues
<1>5. (j + 1) - 1 = j /\ j + 1 # i
  OBVIOUS
<1> QED
  BY <1>1, <1>2, <1>3, <1>4, <1>5 DEF Before

(* Events applied in two goes.                                             *)
LEMMA ApplySplit ==
  ASSUME NEW s, NEW es, NEW i \in Int, NEW j \in Int, NEW l \in Int, i <= j, j <= l, NEW jump
  PROVE  ApplyAll(s, es, i, l, jump) = ApplyAll(ApplyAll(s, es, i, j, jump), es, j, l, jump)
<1> DEFINE m == ApplyAll(s, es, i, j, jump)
           S == {k \in Int : ApplyAll(s, es, i, k, jump) = ApplyAll(m, es, j, k, jump)}
<1> HIDE DEF m
<1>1. j \in S
  BY ApplyNone DEF m
<1>2. ASSUME NEW k \in j..l - 1, k \in S PROVE k + 1 \in S
  <2>1. ApplyAll(s, es, i, k, jump) = ApplyAll(m, es, j, k, jump)
    BY <1>2
  <2>2. ApplyAll(s, es, i, k + 1, jump) = Apply(ApplyAll(s, es, i, k, jump), es[k], jump)
    BY ApplyOne
  <2>3. ApplyAll(m, es, j, k + 1, jump) = Apply(ApplyAll(m, es, j, k, jump), es[k], jump)
    BY ApplyOne
  <2> QED
    BY <2>1, <2>2, <2>3
<1>3. \A k \in j..l : k \in S
  <2> HIDE DEF S
  <2> QED
    BY <1>1, <1>2, InductFrom
<1> QED
  BY <1>3 DEF m

-----------------------------------------------------------------------------
(* Events and parameters.                                                  *)

Params0 == [Params -> Int \cup BOOLEAN]
ParamValues == {f \in Params0 : \A p \in Params : f[p] \in IF p = "bypass" THEN BOOLEAN ELSE Int}
RtState ==
  [params : ParamValues, mods : [Modulated -> Int], target : [Gains -> Int],
   gate : Int, dirty : BOOLEAN, pending : Int \cup {NoFactor}]

(* What an event can say.                                                  *)
LEMMA EventFacts ==
  ASSUME NEW e \in TimedEvents \cup HostEvents
  PROVE  /\ e.param \in Params /\ e.is_mod \in BOOLEAN
         /\ e.is_mod => e.param \in Modulated
         /\ e.param = "bypass" => e.value \in BOOLEAN
         /\ e.param # "bypass" => e.value \in Int
         /\ e \in TimedEvents => e.time \in Nat
<1>1. Modulated \subseteq Params /\ "bypass" \notin Modulated
  BY DEF Params, Modulated, Gains
<1>2. \A h \in HostEvents :
        /\ h.is_mod \in BOOLEAN /\ h.param \in IF h.is_mod THEN Modulated ELSE Params
        /\ h.value \in IF h.param = "bypass" THEN BOOLEAN ELSE Int
  BY BlockAssumption
<1>3. Times \subseteq Nat
  BY BlockAssumption
<1>4. CASE e \in TimedEvents
  <2>1. PICK h \in HostEvents, t \in Times :
          e = [time |-> t, param |-> h.param, value |-> h.value, is_mod |-> h.is_mod]
    BY <1>4 DEF TimedEvents
  <2> QED
    BY <1>1, <1>2, <1>3, <2>1
<1>5. CASE e \in HostEvents /\ e \notin TimedEvents
  BY <1>1, <1>2, <1>5
<1> QED
  BY <1>4, <1>5

(* What an event changes, field by field.                                  *)
Assigned(s, e) == IF e.is_mod THEN s.params ELSE [s.params EXCEPT ![e.param] = e.value]
Modded(s, e) == IF e.is_mod THEN [s.mods EXCEPT ![e.param] = e.value] ELSE s.mods
(* What one event does to each field of the parameters.                    *)
LEMMA ApplyFields ==
  ASSUME NEW s \in RtState, NEW e \in TimedEvents \cup HostEvents, NEW jump \in BOOLEAN
  PROVE  LET t == Apply(s, e, jump)
         IN  /\ t \in RtState
             /\ t.params = Assigned(s, e) /\ t.mods = Modded(s, e)
             /\ t.target = IF e.param \in Gains /\ jump
                           THEN [s.target EXCEPT ![e.param] = Effective(t, e.param)]
                           ELSE s.target
             /\ t.gate = s.gate
             /\ t.dirty = (s.dirty \/ e.param = "gate")
             /\ t.pending = IF e.param = "oversample" /\ e.value # s.params["oversample"]
                            THEN e.value ELSE s.pending
<1> DEFINE u == IF e.is_mod THEN [s EXCEPT !.mods[e.param] = e.value]
                            ELSE [s EXCEPT !.params[e.param] = e.value]
           t == Apply(s, e, jump)
<1>1. /\ e.param \in Params /\ e.is_mod \in BOOLEAN
      /\ e.is_mod => e.param \in Modulated /\ e.value \in Int
      /\ e.param = "bypass" => e.value \in BOOLEAN
      /\ e.param # "bypass" => e.value \in Int
  BY EventFacts DEF Modulated, Gains
<1>2. /\ s.params \in ParamValues /\ s.mods \in [Modulated -> Int] /\ s.target \in [Gains -> Int]
      /\ s.gate \in Int /\ s.dirty \in BOOLEAN /\ s.pending \in Int \cup {NoFactor}
  BY DEF RtState
<1>3. Assigned(s, e) \in ParamValues
  BY <1>1, <1>2 DEF Assigned, ParamValues, Params0
<1>4. Modded(s, e) \in [Modulated -> Int]
  BY <1>1, <1>2 DEF Modded
<1>5. /\ u \in RtState
      /\ u.params = Assigned(s, e) /\ u.mods = Modded(s, e) /\ u.target = s.target
      /\ u.gate = s.gate /\ u.dirty = s.dirty /\ u.pending = s.pending
  <2>1. CASE e.is_mod
    <3>1. u = [s EXCEPT !.mods = [s.mods EXCEPT ![e.param] = e.value]]
      BY <2>1
    <3>2. [s.mods EXCEPT ![e.param] = e.value] = Modded(s, e) /\ s.params = Assigned(s, e)
      BY <2>1 DEF Modded, Assigned
    <3> HIDE DEF u
    <3> QED
      BY <1>2, <1>4, <3>1, <3>2 DEF RtState
  <2>2. CASE ~e.is_mod
    <3>1. u = [s EXCEPT !.params = [s.params EXCEPT ![e.param] = e.value]]
      BY <2>2
    <3>2. [s.params EXCEPT ![e.param] = e.value] = Assigned(s, e) /\ s.mods = Modded(s, e)
      BY <2>2 DEF Modded, Assigned
    <3> HIDE DEF u
    <3> QED
      BY <1>2, <1>3, <3>1, <3>2 DEF RtState
  <2> QED
    BY <1>1, <2>1, <2>2
<1>6. t = CASE e.param \in Gains -> IF jump THEN [u EXCEPT !.target[e.param] = Effective(u, e.param)]
                                    ELSE u
            [] e.param = "gate"  -> [u EXCEPT !.dirty = TRUE]
            [] e.param = "oversample" /\ e.value # s.params[e.param] -> [u EXCEPT !.pending = e.value]
            [] OTHER -> u
  BY DEF Apply
<1> HIDE DEF u, t
<1>7. "gate" \notin Gains /\ "oversample" \notin Gains /\ Gains \subseteq Modulated
      /\ Gains \subseteq Params \ {"bypass"}
  BY DEF Gains, Modulated, Params
<1>8. CASE e.param \in Gains
  <2>1. CASE jump
    <3>1. Effective(u, e.param) \in Int
      BY <1>5, <1>7, <1>8 DEF Effective, RtState, ParamValues, Params0
    <3> DEFINE v == Effective(u, e.param)
    <3> HIDE DEF v
    <3>2. t = [u EXCEPT !.target[e.param] = v]
      BY <1>6, <1>7, <1>8, <2>1 DEF v
    <3>3. [u.target EXCEPT ![e.param] = v] \in [Gains -> Int]
      BY <1>5, <3>1 DEF RtState, v
    <3>4. t = [u EXCEPT !.target = [u.target EXCEPT ![e.param] = v]]
      BY <3>2
    <3>5. /\ t \in RtState /\ t.params = u.params /\ t.mods = u.mods
          /\ t.target = [u.target EXCEPT ![e.param] = v]
          /\ t.gate = u.gate /\ t.dirty = u.dirty /\ t.pending = u.pending
      BY <1>5, <3>3, <3>4 DEF RtState
    <3>6. Effective(t, e.param) = v
      BY <3>5 DEF Effective, v
    <3>7. e.param # "gate" /\ e.param # "oversample" /\ (e.param \in Gains /\ jump)
      BY <1>7, <1>8, <2>1
    <3>8. t.target = [s.target EXCEPT ![e.param] = Effective(t, e.param)]
      BY <1>5, <3>5, <3>6
    <3> QED
      BY <1>2, <1>5, <3>5, <3>7, <3>8 DEF t
  <2>2. CASE ~jump
    <3>1. t = u
      BY <1>6, <1>7, <1>8, <2>2
    <3>2. e.param # "gate" /\ e.param # "oversample" /\ ~(e.param \in Gains /\ jump)
      BY <1>7, <1>8, <2>2
    <3> QED
      BY <1>2, <1>5, <3>1, <3>2 DEF t
  <2> QED
    BY <2>1, <2>2
<1>9. CASE e.param = "gate"
  <2>1. t = [u EXCEPT !.dirty = TRUE]
    BY <1>6, <1>7, <1>9
  <2>2. /\ t \in RtState /\ t.params = u.params /\ t.mods = u.mods /\ t.target = u.target
        /\ t.gate = u.gate /\ t.dirty = TRUE /\ t.pending = u.pending
    BY <1>5, <2>1 DEF RtState
  <2> QED
    BY <1>2, <1>5, <1>7, <1>9, <2>2 DEF t
<1>10. CASE e.param = "oversample" /\ e.value # s.params["oversample"]
  <2>1. t = [u EXCEPT !.pending = e.value]
    BY <1>6, <1>7, <1>10
  <2>2. /\ t \in RtState /\ t.params = u.params /\ t.mods = u.mods /\ t.target = u.target
        /\ t.gate = u.gate /\ t.dirty = u.dirty /\ t.pending = e.value
    BY <1>1, <1>5, <1>10, <2>1 DEF RtState
  <2> QED
    BY <1>2, <1>5, <1>7, <1>10, <2>2 DEF t
<1>11. CASE e.param \notin Gains \cup {"gate"}
             /\ ~(e.param = "oversample" /\ e.value # s.params["oversample"])
  <2>1. t = u
    BY <1>6, <1>11
  <2> QED
    BY <1>2, <1>5, <1>11, <2>1 DEF t
<1> QED
  BY <1>8, <1>9, <1>10, <1>11

(* What the refresh of a dirty gate does to each field.                    *)
LEMMA RefreshFields ==
  ASSUME NEW s \in RtState
  PROVE  LET t == Refresh(s)
         IN  /\ t \in RtState /\ ~t.dirty
             /\ t.params = s.params /\ t.mods = s.mods /\ t.target = s.target
             /\ t.pending = s.pending
             /\ t.gate = IF s.dirty THEN Effective(s, "gate") ELSE s.gate
<1>1. Effective(s, "gate") \in Int
  BY DEF Effective, RtState, ParamValues, Params0, Params, Modulated
<1> DEFINE v == Effective(s, "gate")
<1> HIDE DEF v
<1> QED
  BY <1>1 DEF Refresh, RtState, v

-----------------------------------------------------------------------------
(* What a run of events keeps.                                             *)

(* Everything but the cached gate threshold.                               *)
Same(s, t) ==
  s.params = t.params /\ s.mods = t.mods /\ s.target = t.target /\ s.pending = t.pending

(* The cached threshold is the effective one, unless it is marked dirty.   *)
Fresh(s) == s.dirty \/ s.gate = Effective(s, "gate")

(* With the jump, and without: staged for the ramp.                        *)
Jump(s, e) == Apply(s, e, TRUE)
Stage(s, e) == Apply(s, e, FALSE)
Jumped(s, es, i, j) == ApplyAll(s, es, i, j, TRUE)
Staged(s, es, i, j) == ApplyAll(s, es, i, j, FALSE)

(* ApplyFields of an event that takes effect at once.                      *)
LEMMA JumpFields ==
  ASSUME NEW s \in RtState, NEW e \in TimedEvents \cup HostEvents
  PROVE  /\ Jump(s, e) \in RtState
         /\ Jump(s, e).params = Assigned(s, e) /\ Jump(s, e).mods = Modded(s, e)
         /\ Jump(s, e).target =
              IF e.param \in Gains
              THEN [s.target EXCEPT ![e.param] = Effective(Jump(s, e), e.param)] ELSE s.target
         /\ Jump(s, e).gate = s.gate
         /\ Jump(s, e).dirty = (s.dirty \/ e.param = "gate")
         /\ Jump(s, e).pending =
              IF e.param = "oversample" /\ e.value # s.params["oversample"]
              THEN e.value ELSE s.pending
<1> DEFINE t == Apply(s, e, TRUE)
<1>1. TRUE \in BOOLEAN
  OBVIOUS
<1>2. /\ t \in RtState
      /\ t.params = Assigned(s, e) /\ t.mods = Modded(s, e)
      /\ t.target = IF e.param \in Gains /\ TRUE
                    THEN [s.target EXCEPT ![e.param] = Effective(t, e.param)]
                    ELSE s.target
      /\ t.gate = s.gate
      /\ t.dirty = (s.dirty \/ e.param = "gate")
      /\ t.pending = IF e.param = "oversample" /\ e.value # s.params["oversample"]
                     THEN e.value ELSE s.pending
  BY <1>1, ApplyFields, Zenon
<1>3. Jump(s, e) = t
  BY DEF Jump
<1> HIDE DEF t
<1> QED
  BY <1>2, <1>3

(* ApplyFields of an event whose gain is left to a ramp.                   *)
LEMMA StageFields ==
  ASSUME NEW s \in RtState, NEW e \in TimedEvents \cup HostEvents
  PROVE  /\ Stage(s, e) \in RtState
         /\ Stage(s, e).params = Assigned(s, e) /\ Stage(s, e).mods = Modded(s, e)
         /\ Stage(s, e).target = s.target
         /\ Stage(s, e).gate = s.gate
         /\ Stage(s, e).dirty = (s.dirty \/ e.param = "gate")
         /\ Stage(s, e).pending =
              IF e.param = "oversample" /\ e.value # s.params["oversample"]
              THEN e.value ELSE s.pending
<1> DEFINE t == Apply(s, e, FALSE)
<1>1. FALSE \in BOOLEAN
  OBVIOUS
<1>2. /\ t \in RtState
      /\ t.params = Assigned(s, e) /\ t.mods = Modded(s, e)
      /\ t.target = IF e.param \in Gains /\ FALSE
                    THEN [s.target EXCEPT ![e.param] = Effective(t, e.param)]
                    ELSE s.target
      /\ t.gate = s.gate
      /\ t.dirty = (s.dirty \/ e.param = "gate")
      /\ t.pending = IF e.param = "oversample" /\ e.value # s.params["oversample"]
                     THEN e.value ELSE s.pending
  BY <1>1, ApplyFields, Zenon
<1>3. Stage(s, e) = t
  BY DEF Stage
<1> HIDE DEF t
<1> QED
  BY <1>2, <1>3

(* ApplyOne for Jumped.                                                    *)
LEMMA JumpedOne ==
  ASSUME NEW s, NEW es, NEW i \in Int, NEW j \in Int, i <= j
  PROVE  Jumped(s, es, i, i) = s /\ Jumped(s, es, i, j + 1) = Jump(Jumped(s, es, i, j), es[j])
<1> DEFINE b == TRUE
<1> HIDE DEF b
<1>1. ApplyAll(s, es, i, i, b) = s
  BY ApplyNone
<1>2. ApplyAll(s, es, i, j + 1, b) = Apply(ApplyAll(s, es, i, j, b), es[j], b)
  BY ApplyOne
<1> QED
  BY <1>1, <1>2, Zenon DEF b, Jumped, Jump

(* ApplyOne for Staged.                                                    *)
LEMMA StagedOne ==
  ASSUME NEW s, NEW es, NEW i \in Int, NEW j \in Int, i <= j
  PROVE  Staged(s, es, i, i) = s /\ Staged(s, es, i, j + 1) = Stage(Staged(s, es, i, j), es[j])
<1> DEFINE b == FALSE
<1> HIDE DEF b
<1>1. ApplyAll(s, es, i, i, b) = s
  BY ApplyNone
<1>2. ApplyAll(s, es, i, j + 1, b) = Apply(ApplyAll(s, es, i, j, b), es[j], b)
  BY ApplyOne
<1> QED
  BY <1>1, <1>2, Zenon DEF b, Staged, Stage

(* A run of events may be cut anywhere.                                    *)
LEMMA JumpedSplit ==
  ASSUME NEW s, NEW es, NEW i \in Int, NEW j \in Int, NEW l \in Int, i <= j, j <= l
  PROVE  Jumped(s, es, i, l) = Jumped(Jumped(s, es, i, j), es, j, l)
<1> DEFINE b == TRUE
<1> HIDE DEF b
<1>1. ApplyAll(s, es, i, l, b) = ApplyAll(ApplyAll(s, es, i, j, b), es, j, l, b)
  BY ApplySplit
<1> QED
  BY <1>1, Zenon DEF b, Jumped

(* States that differ in the gate alone stay so under an event.            *)
LEMMA JumpSame ==
  ASSUME NEW s \in RtState, NEW t \in RtState, Same(s, t), NEW e \in TimedEvents
  PROVE  Same(Jump(s, e), Jump(t, e))
<1> DEFINE u == Jump(s, e)
           v == Jump(t, e)
<1>1. /\ u.params = Assigned(s, e) /\ u.mods = Modded(s, e)
      /\ u.target = IF e.param \in Gains
                    THEN [s.target EXCEPT ![e.param] = Effective(u, e.param)] ELSE s.target
      /\ u.pending = IF e.param = "oversample" /\ e.value # s.params["oversample"]
                     THEN e.value ELSE s.pending
  BY JumpFields
<1>2. /\ v.params = Assigned(t, e) /\ v.mods = Modded(t, e)
      /\ v.target = IF e.param \in Gains
                    THEN [t.target EXCEPT ![e.param] = Effective(v, e.param)] ELSE t.target
      /\ v.pending = IF e.param = "oversample" /\ e.value # t.params["oversample"]
                     THEN e.value ELSE t.pending
  BY JumpFields
<1> HIDE DEF u, v
<1>3. u.params = v.params /\ u.mods = v.mods
  BY <1>1, <1>2 DEF Same, Assigned, Modded
<1>4. Effective(u, e.param) = Effective(v, e.param)
  BY <1>3 DEF Effective
<1>5. u.target = v.target /\ u.pending = v.pending
  BY <1>1, <1>2, <1>4 DEF Same
<1> QED
  BY <1>3, <1>5 DEF Same, u, v

(* A gate threshold that is not stale stays so under an event.             *)
LEMMA JumpFresh ==
  ASSUME NEW s \in RtState, Fresh(s), NEW e \in TimedEvents \cup HostEvents
  PROVE  Fresh(Jump(s, e))
<1> DEFINE u == Jump(s, e)
<1>1. /\ u.params = Assigned(s, e) /\ u.mods = Modded(s, e)
      /\ u.gate = s.gate /\ u.dirty = (s.dirty \/ e.param = "gate")
  BY JumpFields
<1> HIDE DEF u
<1>2. CASE e.param = "gate"
  BY <1>1, <1>2 DEF Fresh, u
<1>3. CASE e.param # "gate"
  <2>1. u.params["gate"] = s.params["gate"] /\ u.mods["gate"] = s.mods["gate"]
    BY <1>1, <1>3 DEF Assigned, Modded, RtState, ParamValues, Params0, Params, Modulated
  <2>2. Effective(u, "gate") = Effective(s, "gate")
    BY <2>1 DEF Effective
  <2> QED
    BY <1>1, <2>2 DEF Fresh, u
<1> QED
  BY <1>2, <1>3

(* A run of events keeps the type, and a gate that is not stale.           *)
LEMMA JumpedTypes ==
  ASSUME NEW s \in RtState, NEW es \in Seq(TimedEvents), NEW i \in 1..Len(es) + 1,
         NEW j \in i..Len(es) + 1
  PROVE  /\ Jumped(s, es, i, j) \in RtState
         /\ Fresh(s) => Fresh(Jumped(s, es, i, j))
<1> DEFINE a(k) == Jumped(s, es, i, k)
           S == {k \in Int : a(k) \in RtState /\ (Fresh(s) => Fresh(a(k)))}
<1>0. i \in Int /\ j \in Int /\ i <= j
  OBVIOUS
<1>1. i \in S
  BY <1>0, JumpedOne
<1>2. ASSUME NEW k \in i..j - 1, k \in S PROVE k + 1 \in S
  <2>1. a(k) \in RtState /\ (Fresh(s) => Fresh(a(k)))
    BY <1>2
  <2>2. a(k + 1) = Jump(a(k), es[k])
    BY <1>0, JumpedOne
  <2>3. es[k] \in TimedEvents /\ k + 1 \in Int
    OBVIOUS
  <2> HIDE DEF a
  <2>4. a(k + 1) \in RtState
    BY <2>1, <2>2, <2>3, JumpFields
  <2>5. Fresh(s) => Fresh(a(k + 1))
    BY <2>1, <2>2, <2>3, JumpFresh
  <2> QED
    BY <2>3, <2>4, <2>5
<1>3. \A k \in i..j : k \in S
  <2> HIDE DEF S
  <2> QED
    BY <1>0, <1>1, <1>2, InductFrom
<1> QED
  BY <1>0, <1>3

(* The same for gains that wait for their ramp.                            *)
LEMMA StagedTypes ==
  ASSUME NEW s \in RtState, NEW es \in Seq(TimedEvents), NEW i \in 1..Len(es) + 1,
         NEW j \in i..Len(es) + 1
  PROVE  Staged(s, es, i, j) \in RtState
<1> DEFINE a(k) == Staged(s, es, i, k)
           S == {k \in Int : a(k) \in RtState}
<1>0. i \in Int /\ j \in Int /\ i <= j
  OBVIOUS
<1>1. i \in S
  BY <1>0, StagedOne
<1>2. ASSUME NEW k \in i..j - 1, k \in S PROVE k + 1 \in S
  <2>1. a(k) \in RtState
    BY <1>2
  <2>2. a(k + 1) = Stage(a(k), es[k])
    BY <1>0, StagedOne
  <2>3. es[k] \in TimedEvents /\ k + 1 \in Int
    OBVIOUS
  <2> HIDE DEF a
  <2>4. a(k + 1) \in RtState
    BY <2>1, <2>2, <2>3, StageFields
  <2> QED
    BY <2>3, <2>4
<1>3. \A k \in i..j : k \in S
  <2> HIDE DEF S
  <2> QED
    BY <1>0, <1>1, <1>2, InductFrom
<1> QED
  BY <1>0, <1>3

(* JumpSame for a run of events.                                           *)
LEMMA JumpedSame ==
  ASSUME NEW s \in RtState, NEW t \in RtState, Same(s, t), NEW es \in Seq(TimedEvents),
         NEW i \in 1..Len(es) + 1, NEW j \in i..Len(es) + 1
  PROVE  Same(Jumped(s, es, i, j), Jumped(t, es, i, j))
<1> DEFINE a(k) == Jumped(s, es, i, k)
           b(k) == Jumped(t, es, i, k)
           S == {k \in Int : Same(a(k), b(k))}
<1>0. i \in Int /\ j \in Int /\ i <= j
  OBVIOUS
<1>1. i \in S
  BY <1>0, JumpedOne
<1>2. ASSUME NEW k \in i..j - 1, k \in S PROVE k + 1 \in S
  <2>1. Same(a(k), b(k))
    BY <1>2
  <2>2. a(k + 1) = Jump(a(k), es[k]) /\ b(k + 1) = Jump(b(k), es[k])
    BY <1>0, JumpedOne
  <2>3. es[k] \in TimedEvents /\ a(k) \in RtState /\ b(k) \in RtState
    BY JumpedTypes
  <2> HIDE DEF a, b
  <2>4. Same(a(k + 1), b(k + 1))
    BY <2>1, <2>2, <2>3, JumpSame
  <2> QED
    BY <2>4
<1>3. \A k \in i..j : k \in S
  <2> HIDE DEF S
  <2> QED
    BY <1>0, <1>1, <1>2, InductFrom
<1> QED
  BY <1>0, <1>3

(* A run of gain events, applied with and without the jump.                *)
NoneOf(es, i, j, p) == \A m \in i..j - 1 : es[m].param # p
LastOf(es, i, j, p, m) == m \in i..j - 1 /\ es[m].param = p /\ NoneOf(es, m + 1, j, p)

GainRun(s, es, i, j) ==
  LET f == Staged(s, es, i, j)
      t == Jumped(s, es, i, j)
  IN  /\ f.params = t.params /\ f.mods = t.mods /\ f.target = s.target
      /\ f.pending = s.pending /\ t.pending = s.pending
      /\ f.dirty = s.dirty /\ t.dirty = s.dirty /\ f.gate = s.gate /\ t.gate = s.gate
      /\ \A p \in Params \ Gains : f.params[p] = s.params[p]
      /\ f.mods["gate"] = s.mods["gate"]
      /\ \A p \in Gains :
           \/ NoneOf(es, i, j, p) /\ t.target[p] = s.target[p]
           \/ \E m \in i..j - 1 :
                /\ LastOf(es, i, j, p, m)
                /\ t.target[p] = Effective(Staged(s, es, i, m + 1), p)

(* A gain event leaves everything but the gains alone.                     *)
LEMMA GainEvent ==
  ASSUME NEW s \in RtState, NEW e \in TimedEvents, e.param \in Gains, NEW u,
         u.params = Assigned(s, e), u.mods = Modded(s, e),
         u.dirty = (s.dirty \/ e.param = "gate"),
         u.pending = IF e.param = "oversample" /\ e.value # s.params["oversample"]
                     THEN e.value ELSE s.pending
  PROVE  /\ u.pending = s.pending /\ u.dirty = s.dirty
         /\ \A p \in Params \ Gains : u.params[p] = s.params[p]
         /\ u.mods["gate"] = s.mods["gate"]
<1>2. e.param # "gate" /\ e.param # "oversample"
  BY DEF Gains
<1>3. /\ \A p \in Params \ Gains : u.params[p] = s.params[p]
      /\ u.mods["gate"] = s.mods["gate"]
  BY <1>2 DEF Assigned, Modded, RtState, ParamValues, Params0, Modulated
<1>4. s.dirty \in BOOLEAN
  BY DEF RtState
<1> QED
  BY <1>2, <1>3, <1>4

(* So does a run without a boundary: nothing but gains is fused.           *)
LEMMA GainRuns ==
  ASSUME NEW s \in RtState, NEW es \in Seq(TimedEvents), NEW i \in 1..Len(es) + 1,
         NEW j \in i..Len(es) + 1, \A k \in i..j - 1 : ~Boundary(es[k])
  PROVE  GainRun(s, es, i, j)
<1> DEFINE f(k) == Staged(s, es, i, k)
           t(k) == Jumped(s, es, i, k)
           S == {k \in Int : GainRun(s, es, i, k)}
<1>0. i \in Int /\ j \in Int /\ i <= j
  OBVIOUS
<1>1. i \in S
  <2>1. f(i) = s /\ t(i) = s
    BY <1>0, JumpedOne, StagedOne
  <2>2. \A p \in Gains : NoneOf(es, i, i, p)
    BY DEF NoneOf
  <2> QED
    BY <2>1, <2>2 DEF GainRun
<1>2. ASSUME NEW k \in i..j - 1, k \in S PROVE k + 1 \in S
  <2>1. GainRun(s, es, i, k)
    BY <1>2
  <2>2. f(k + 1) = Stage(f(k), es[k]) /\ t(k + 1) = Jump(t(k), es[k])
    BY <1>0, JumpedOne, StagedOne
  <2>3. es[k] \in TimedEvents /\ f(k) \in RtState /\ t(k) \in RtState /\ es[k].param \in Gains
    BY JumpedTypes, StagedTypes DEF Boundary
  <2>4. /\ f(k).params = t(k).params /\ f(k).mods = t(k).mods /\ f(k).target = s.target
        /\ f(k).pending = s.pending /\ t(k).pending = s.pending
        /\ f(k).dirty = s.dirty /\ t(k).dirty = s.dirty /\ f(k).gate = s.gate /\ t(k).gate = s.gate
        /\ \A p \in Params \ Gains : f(k).params[p] = s.params[p]
        /\ f(k).mods["gate"] = s.mods["gate"]
    BY <2>1 DEF GainRun
  <2>5. \A p \in Gains :
           \/ NoneOf(es, i, k, p) /\ t(k).target[p] = s.target[p]
           \/ \E m \in i..k - 1 : LastOf(es, i, k, p, m) /\ t(k).target[p] = Effective(f(m + 1), p)
    BY <2>1 DEF GainRun
  <2> HIDE DEF f, t
  <2>6. /\ f(k + 1).params = Assigned(f(k), es[k]) /\ f(k + 1).mods = Modded(f(k), es[k])
        /\ f(k + 1).target = f(k).target /\ f(k + 1).pending = f(k).pending
        /\ f(k + 1).dirty = f(k).dirty /\ f(k + 1).gate = f(k).gate
        /\ \A p \in Params \ Gains : f(k + 1).params[p] = f(k).params[p]
        /\ f(k + 1).mods["gate"] = f(k).mods["gate"]
    <3> DEFINE u == Stage(f(k), es[k])
    <3>1. /\ u.params = Assigned(f(k), es[k]) /\ u.mods = Modded(f(k), es[k])
          /\ u.target = f(k).target /\ u.gate = f(k).gate
          /\ u.dirty = (f(k).dirty \/ es[k].param = "gate")
          /\ u.pending = IF es[k].param = "oversample" /\ es[k].value # f(k).params["oversample"]
                         THEN es[k].value ELSE f(k).pending
      BY <2>3, StageFields
    <3> HIDE DEF u
    <3>2. /\ u.pending = f(k).pending /\ u.dirty = f(k).dirty
          /\ \A p \in Params \ Gains : u.params[p] = f(k).params[p]
          /\ u.mods["gate"] = f(k).mods["gate"]
      BY <2>3, <3>1, GainEvent
    <3>3. f(k + 1) = u
      BY <2>2 DEF u
    <3> QED
      BY <3>1, <3>2, <3>3
  <2>7. /\ t(k + 1).params = Assigned(t(k), es[k]) /\ t(k + 1).mods = Modded(t(k), es[k])
        /\ t(k + 1).target = [t(k).target EXCEPT ![es[k].param] = Effective(t(k + 1), es[k].param)]
        /\ t(k + 1).pending = t(k).pending
        /\ t(k + 1).dirty = t(k).dirty /\ t(k + 1).gate = t(k).gate
    <3> DEFINE u == Jump(t(k), es[k])
    <3>1. /\ u.params = Assigned(t(k), es[k]) /\ u.mods = Modded(t(k), es[k])
          /\ u.target = [t(k).target EXCEPT ![es[k].param] = Effective(u, es[k].param)]
          /\ u.gate = t(k).gate
          /\ u.dirty = (t(k).dirty \/ es[k].param = "gate")
          /\ u.pending = IF es[k].param = "oversample" /\ es[k].value # t(k).params["oversample"]
                         THEN es[k].value ELSE t(k).pending
      BY <2>3, JumpFields
    <3> HIDE DEF u
    <3>2. u.pending = t(k).pending /\ u.dirty = t(k).dirty
      BY <2>3, <3>1, GainEvent
    <3>3. t(k + 1) = u
      BY <2>2 DEF u
    <3> QED
      BY <3>1, <3>2, <3>3
  <2>8. f(k + 1).params = t(k + 1).params /\ f(k + 1).mods = t(k + 1).mods
    BY <2>4, <2>6, <2>7 DEF Assigned, Modded
  <2>9. ASSUME NEW p \in Gains
        PROVE  \/ NoneOf(es, i, k + 1, p) /\ t(k + 1).target[p] = s.target[p]
               \/ \E m \in i..(k + 1) - 1 :
                    LastOf(es, i, k + 1, p, m) /\ t(k + 1).target[p] = Effective(f(m + 1), p)
    <3>0. t(k).target \in [Gains -> Int]
      BY <2>3 DEF RtState
    <3>1. CASE es[k].param = p
      <4>1. t(k + 1).target[p] = Effective(f(k + 1), p)
        BY <2>7, <2>8, <3>0, <3>1 DEF Effective
      <4>2. LastOf(es, i, k + 1, p, k) /\ k \in i..(k + 1) - 1
        BY <3>1 DEF LastOf, NoneOf
      <4> QED
        BY <4>1, <4>2
    <3>2. CASE es[k].param # p
      <4>1. t(k + 1).target[p] = t(k).target[p]
        BY <2>7, <3>0, <3>2
      <4>2. CASE NoneOf(es, i, k, p) /\ t(k).target[p] = s.target[p]
        <5>1. NoneOf(es, i, k + 1, p)
          BY <3>2, <4>2 DEF NoneOf
        <5> QED
          BY <4>1, <4>2, <5>1
      <4>3. ASSUME NEW m \in i..k - 1, LastOf(es, i, k, p, m),
                   t(k).target[p] = Effective(f(m + 1), p)
            PROVE  \E n \in i..(k + 1) - 1 :
                     LastOf(es, i, k + 1, p, n) /\ t(k + 1).target[p] = Effective(f(n + 1), p)
        <5>0. m \in i..(k + 1) - 1 /\ es[m].param = p /\ NoneOf(es, m + 1, k, p)
          BY <4>3 DEF LastOf
        <5>1. NoneOf(es, m + 1, k + 1, p)
          <6> SUFFICES ASSUME NEW n \in m + 1..(k + 1) - 1 PROVE es[n].param # p
            BY DEF NoneOf
          <6>1. n = k \/ n \in m + 1..k - 1
            OBVIOUS
          <6> QED
            BY <3>2, <5>0, <6>1 DEF NoneOf
        <5>2. LastOf(es, i, k + 1, p, m)
          BY <5>0, <5>1 DEF LastOf
        <5> QED
          BY <4>1, <4>3, <5>0, <5>2
      <4> QED
        BY <2>5, <4>2, <4>3
    <3> QED
      BY <3>1, <3>2
  <2>10. GainRun(s, es, i, k + 1)
    BY <2>4, <2>6, <2>7, <2>8, <2>9 DEF GainRun, f, t
  <2> QED
    BY <2>10
<1>3. \A k \in i..j : k \in S
  <2> HIDE DEF S
  <2> QED
    BY <1>0, <1>1, <1>2, InductFrom
<1> QED
  BY <1>0, <1>3

-----------------------------------------------------------------------------
(* Least members, and the first event of a kind.                           *)

(* The minimum of naturals is a member and the least.                      *)
LEMMA MinIsLeast ==
  ASSUME NEW T, T \subseteq Nat, T # {}
  PROVE  Min(T) \in T /\ \A y \in T : Min(T) <= y
<1>1. \E x \in T : \A y \in T : x <= y
  BY Least
<1> QED
  BY <1>1 DEF Min

(* The minimum of two.                                                     *)
LEMMA MinOfTwo ==
  ASSUME NEW a \in Nat, NEW b \in Nat
  PROVE  /\ Min({a, b}) \in Nat /\ Min({a, b}) <= a /\ Min({a, b}) <= b
         /\ Min({a, b}) = a \/ Min({a, b}) = b
<1>1. {a, b} \subseteq Nat /\ {a, b} # {}
  OBVIOUS
<1>2. Min({a, b}) \in {a, b} /\ \A y \in {a, b} : Min({a, b}) <= y
  BY <1>1, MinIsLeast, Zenon
<1> QED
  BY <1>2

(* FirstFrom returns the first index of the set, or one past the end.      *)
LEMMA FirstFromIsFirst ==
  ASSUME events \in Seq(TimedEvents), NEW i \in 1..Len(events) + 1, NEW S, S \subseteq DOMAIN events
  PROVE  /\ FirstFrom(i, S) \in i..Len(events) + 1
         /\ \A k \in i..FirstFrom(i, S) - 1 : k \notin S
         /\ FirstFrom(i, S) <= Len(events) => FirstFrom(i, S) \in S
<1> DEFINE T == {j \in S : j >= i} \cup {Len(events) + 1}
           f == FirstFrom(i, S)
<1>1. T \subseteq Nat /\ T # {} /\ Len(events) + 1 \in T
  OBVIOUS
<1>2. f = Min(T)
  BY DEF FirstFrom
<1> HIDE DEF f
<1>3. f \in T /\ \A y \in T : f <= y
  <2> HIDE DEF T
  <2> QED
    BY <1>1, <1>2, MinIsLeast
<1>4. f \in i..Len(events) + 1
  BY <1>3
<1>5. ASSUME NEW k \in i..f - 1, k \in S PROVE FALSE
  BY <1>3, <1>4, <1>5
<1>6. f <= Len(events) => f \in S
  BY <1>3
<1> QED
  BY <1>4, <1>5, <1>6 DEF f

(* The times of the events are naturals.                                   *)
LEMMA EventTimes ==
  ASSUME events \in Seq(TimedEvents)
  PROVE  /\ DOMAIN events = 1..Len(events) /\ Len(events) \in Nat
         /\ \A k \in 1..Len(events) : events[k] \in TimedEvents /\ events[k].time \in Nat
BY EventFacts

(* Sorted neighbours make a sorted sequence.                               *)
LEMMA SortedAll ==
  ASSUME events \in Seq(TimedEvents), Sorted, NEW i \in 1..Len(events), NEW j \in i..Len(events)
  PROVE  events[i].time <= events[j].time
<1> DEFINE S == {k \in Int : events[i].time <= events[k].time}
<1>0. Len(events) \in Nat /\ \A k \in 1..Len(events) : events[k].time \in Nat
  BY EventTimes
<1>1. i \in S
  BY <1>0
<1>2. ASSUME NEW k \in i..j - 1, k \in S PROVE k + 1 \in S
  <2>1. k \in 1..Len(events) - 1 /\ k + 1 \in 1..Len(events)
    BY <1>0
  <2>2. events[k].time <= events[k + 1].time
    BY <2>1 DEF Sorted
  <2>3. events[i].time <= events[k].time
    BY <1>2
  <2>4. events[i].time \in Nat /\ events[k].time \in Nat /\ events[k + 1].time \in Nat
    BY <1>0, <2>1
  <2>5. events[i].time <= events[k + 1].time
    BY <2>2, <2>3, <2>4
  <2> QED
    BY <2>1, <2>5
<1>3. \A k \in i..j : k \in S
  <2>1. i \in Int /\ j \in Int /\ j \in i..j
    BY <1>0
  <2> HIDE DEF S
  <2> QED
    BY <1>1, <1>2, <2>1, InductFrom
<1> QED
  BY <1>0, <1>3

-----------------------------------------------------------------------------
(* The cut of a slice.                                                     *)

(* Where the block is: a slice, and a place in it.                         *)
Placed ==
  /\ frames \in Nat /\ slice_base \in 0..frames
  /\ block_offset \in 0..SliceLen
  /\ heard # <<>> => DOMAIN heard = 0..Current - 1

(* A slice lies in its block and is empty only at the end of it.           *)
LEMMA SliceBounds ==
  ASSUME frames \in Nat, slice_base \in 0..frames
  PROVE  /\ SliceLen \in Nat /\ SliceLen <= frames - slice_base /\ SliceLen <= MaxFrames
         /\ SliceEnd = slice_base + SliceLen /\ SliceEnd <= frames
         /\ slice_base < frames => SliceLen > 0
         /\ SliceLen = frames - slice_base \/ SliceLen = MaxFrames
<1>1. MaxFrames \in Nat /\ MaxFrames > 0 /\ frames - slice_base \in Nat
  BY BlockAssumption
<1> DEFINE a == frames - slice_base
<1>2. /\ Min({a, MaxFrames}) \in Nat /\ Min({a, MaxFrames}) <= a /\ Min({a, MaxFrames}) <= MaxFrames
      /\ Min({a, MaxFrames}) = a \/ Min({a, MaxFrames}) = MaxFrames
  BY <1>1, MinOfTwo
<1>3. SliceLen = Min({a, MaxFrames})
  BY DEF SliceLen
<1> QED
  BY <1>1, <1>2, <1>3 DEF SliceEnd

(* The events of the sub-block that starts at Current with event i: those  *)
(* up to c - 1 may share it, and c ends it, or the slice does.             *)
Fusable(i, stop, m) ==
  /\ ~Boundary(events[m])
  /\ Cardinality({k \in {h \in i..stop - 1 : events[h].time >= Current} :
                    k <= m /\ ~Boundary(events[k])}) <= MaxGainSteps
CutAt(i, fuse, end, stop, c) ==
  /\ stop \in i..Len(events) + 1 /\ c \in i..stop
  /\ \A k \in i..stop - 1 : events[k].time < SliceEnd
  /\ \A k \in i..c - 1 : events[k].time >= Current => fuse /\ Fusable(i, stop, k)
  /\ c <= Len(events) => events[c].time >= slice_base + end
  /\ end < SliceLen => c <= Len(events) /\ events[c].time = slice_base + end

(* A sub-block ends within its slice, where one of its cuts (CutAt) is.    *)
LEMMA CutExists ==
  ASSUME events \in Seq(TimedEvents), Placed, block_offset < SliceLen,
         NEW i \in 1..Len(events) + 1, NEW fuse \in BOOLEAN
  PROVE  /\ SubEnd(i, fuse) \in block_offset..SliceLen
         /\ \E stop \in 1..Len(events) + 1, c \in 1..Len(events) + 1 :
              CutAt(i, fuse, SubEnd(i, fuse), stop, c)
<1> DEFINE stop == FirstFrom(i, AtOrAfter(SliceEnd))
           ahead == {j \in i..stop - 1 : events[j].time >= Current}
           gains(j) == Cardinality({k \in ahead : k <= j /\ ~Boundary(events[k])})
           cuts == {j \in ahead : ~fuse \/ Boundary(events[j]) \/ gains(j) > MaxGainSteps}
           end == SubEnd(i, fuse)
<1>0. Len(events) \in Nat /\ \A k \in 1..Len(events) : events[k].time \in Nat
  BY EventTimes
<1>1. /\ SliceLen \in Nat /\ block_offset \in 0..SliceLen /\ slice_base \in Nat
      /\ SliceEnd = slice_base + SliceLen /\ Current = slice_base + block_offset
      /\ MaxGainSteps \in Nat
  BY SliceBounds, BlockAssumption DEF Placed, Current
<1>2. /\ stop \in i..Len(events) + 1
      /\ \A k \in i..stop - 1 : k \notin AtOrAfter(SliceEnd)
      /\ stop <= Len(events) => stop \in AtOrAfter(SliceEnd)
  <2>1. AtOrAfter(SliceEnd) \subseteq DOMAIN events
    BY DEF AtOrAfter
  <2> QED
    BY <2>1, FirstFromIsFirst
<1>3. end = IF cuts = {} THEN SliceLen ELSE events[Min(cuts)].time - slice_base
  BY DEF SubEnd
<1> HIDE DEF stop, end
<1>4. /\ \A k \in i..stop - 1 : events[k].time < SliceEnd
      /\ stop <= Len(events) => events[stop].time >= SliceEnd
  BY <1>0, <1>1, <1>2 DEF AtOrAfter
<1>5. ASSUME NEW k \in ahead, k \notin cuts
      PROVE  fuse /\ Fusable(i, stop, k)
  <2>1. fuse /\ ~Boundary(events[k]) /\ ~(gains(k) > MaxGainSteps)
    BY <1>5
  <2>2. gains(k) \in Nat
    <3> DEFINE G == {h \in ahead : h <= k /\ ~Boundary(events[h])}
    <3>1. G \subseteq i..stop - 1
      OBVIOUS
    <3>2. IsFiniteSet(i..stop - 1)
      BY <1>0, <1>2, FS_Interval
    <3> HIDE DEF G
    <3>3. IsFiniteSet(G)
      BY <3>1, <3>2, FS_Subset
    <3>4. Cardinality(G) \in Nat
      BY <3>3, FS_CardinalityType
    <3> QED
      BY <3>4 DEF G
  <2>3. gains(k) <= MaxGainSteps
    <3> HIDE DEF gains
    <3> QED
      BY <1>1, <2>1, <2>2
  <2> QED
    BY <2>1, <2>3 DEF Fusable
<1> HIDE DEF gains
<1>6. CASE cuts = {}
  <2>1. end = SliceLen
    BY <1>3, <1>6
  <2>2. \A k \in i..stop - 1 : events[k].time >= Current => fuse /\ Fusable(i, stop, k)
    BY <1>5, <1>6
  <2>3. CutAt(i, fuse, end, stop, stop)
    BY <1>0, <1>1, <1>2, <1>4, <2>1, <2>2 DEF CutAt
  <2> QED
    BY <1>0, <1>1, <1>2, <2>1, <2>3 DEF end
<1>7. CASE cuts # {}
  <2> DEFINE c == Min(cuts)
  <2>1. cuts \subseteq Nat /\ cuts \subseteq ahead
    BY <1>0, <1>2
  <2>2. c \in cuts /\ \A y \in cuts : c <= y
    <3> HIDE DEF cuts
    <3> QED
      BY <1>7, <2>1, MinIsLeast
  <2>3. end = events[c].time - slice_base
    BY <1>3, <1>7
  <2> HIDE DEF c
  <2>4. c \in i..stop - 1 /\ c \in 1..Len(events) /\ events[c].time >= Current
    BY <1>0, <1>2, <2>2
  <2>5. events[c].time < SliceEnd /\ events[c].time \in Nat
    BY <1>0, <1>4, <2>4
  <2>6. end \in block_offset..SliceLen /\ end < SliceLen /\ events[c].time = slice_base + end
    BY <1>1, <2>3, <2>4, <2>5
  <2>7. ASSUME NEW k \in i..c - 1, events[k].time >= Current PROVE fuse /\ Fusable(i, stop, k)
    <3>1. k \in ahead /\ ~(c <= k)
      BY <1>0, <1>2, <2>4, <2>7
    <3>2. k \notin cuts
      <4> HIDE DEF cuts
      <4> QED
        BY <2>2, <3>1
    <3> HIDE DEF cuts, ahead
    <3> QED
      BY <1>5, <3>1, <3>2
  <2>8. CutAt(i, fuse, end, stop, c)
    <3> HIDE DEF cuts, ahead
    <3>1. c \in i..stop
      BY <1>2, <2>4
    <3> QED
      BY <1>2, <1>4, <2>4, <2>5, <2>6, <2>7, <3>1 DEF CutAt
  <2> QED
    BY <1>0, <1>2, <2>4, <2>6, <2>8 DEF end
<1> QED
  BY <1>6, <1>7

(* The fused events: from i on, up to the first one at or after the end.   *)
FusedEnd(i, fuse, end) ==
  IF fuse /\ end - block_offset > 0
  THEN FirstFrom(i, AtOrAfter(slice_base + end) \cup Boundaries) ELSE i
DueEnd(j, end) ==
  IF end < SliceLen THEN FirstFrom(j, {k \in DOMAIN events : events[k].time # slice_base + end})
  ELSE j

(* Whatever the order of the events: the fused ones are gains before the   *)
(* end, the due ones are at it.                                            *)
LEMMA EndsBound ==
  ASSUME events \in Seq(TimedEvents), Placed,
         NEW i \in 1..Len(events) + 1, NEW fuse \in BOOLEAN, NEW end \in block_offset..SliceLen
  PROVE  LET j == FusedEnd(i, fuse, end)
             due == DueEnd(j, end)
         IN  /\ j \in i..Len(events) + 1
             /\ (fuse /\ end > block_offset) \/ j = i
             /\ \A k \in i..j - 1 : ~Boundary(events[k]) /\ events[k].time < slice_base + end
             /\ fuse /\ end > block_offset /\ j <= Len(events) =>
                  Boundary(events[j]) \/ events[j].time >= slice_base + end
             /\ due \in j..Len(events) + 1
             /\ \A k \in j..due - 1 : events[k].time = slice_base + end /\ end < SliceLen
             /\ end < SliceLen /\ due <= Len(events) => events[due].time # slice_base + end
<1> DEFINE j == FusedEnd(i, fuse, end)
           due == DueEnd(j, end)
           S == AtOrAfter(slice_base + end) \cup Boundaries
           D == {k \in DOMAIN events : events[k].time # slice_base + end}
<1>0. /\ Len(events) \in Nat /\ \A k \in 1..Len(events) : events[k].time \in Nat
      /\ DOMAIN events = 1..Len(events)
  BY EventTimes
<1>1. slice_base \in Nat /\ block_offset \in Nat /\ SliceLen \in Nat
  BY SliceBounds DEF Placed
<1>2. S \subseteq DOMAIN events /\ D \subseteq DOMAIN events
  BY DEF AtOrAfter, Boundaries
<1>3. /\ j \in i..Len(events) + 1
      /\ (fuse /\ end > block_offset) \/ j = i
      /\ \A k \in i..j - 1 : ~Boundary(events[k]) /\ events[k].time < slice_base + end
      /\ fuse /\ end > block_offset /\ j <= Len(events) =>
           Boundary(events[j]) \/ events[j].time >= slice_base + end
  <2>1. CASE fuse /\ end > block_offset
    <3>1. j = FirstFrom(i, S)
      BY <1>1, <2>1 DEF FusedEnd
    <3>2. j \in i..Len(events) + 1 /\ (\A k \in i..j - 1 : k \notin S) /\ (j <= Len(events) => j \in S)
      <4> HIDE DEF j, S
      <4> QED
        BY <1>2, <3>1, FirstFromIsFirst
    <3> HIDE DEF j
    <3>3. \A k \in i..j - 1 : ~Boundary(events[k]) /\ events[k].time < slice_base + end
      BY <1>0, <1>1, <3>2 DEF AtOrAfter, Boundaries
    <3>4. j <= Len(events) => Boundary(events[j]) \/ events[j].time >= slice_base + end
      BY <3>2 DEF AtOrAfter, Boundaries
    <3> QED
      BY <2>1, <3>2, <3>3, <3>4
  <2>2. CASE ~(fuse /\ end > block_offset)
    <3>1. j = i
      BY <1>1, <2>2 DEF FusedEnd
    <3> HIDE DEF j
    <3> QED
      BY <1>0, <2>2, <3>1
  <2> QED
    BY <2>1, <2>2
<1> HIDE DEF j
<1>4. /\ due \in j..Len(events) + 1
      /\ \A k \in j..due - 1 : events[k].time = slice_base + end /\ end < SliceLen
      /\ end < SliceLen /\ due <= Len(events) => events[due].time # slice_base + end
  <2>1. CASE end < SliceLen
    <3>1. due = FirstFrom(j, D)
      BY <2>1 DEF DueEnd
    <3>2. j \in 1..Len(events) + 1
      BY <1>0, <1>3
    <3>3. due \in j..Len(events) + 1 /\ (\A k \in j..due - 1 : k \notin D)
          /\ (due <= Len(events) => due \in D)
      <4> HIDE DEF due, D
      <4> QED
        BY <1>2, <3>1, <3>2, FirstFromIsFirst
    <3> HIDE DEF due
    <3> QED
      BY <1>0, <1>3, <2>1, <3>2, <3>3
  <2>2. CASE ~(end < SliceLen)
    <3>1. due = j
      BY <2>2 DEF DueEnd
    <3> HIDE DEF due
    <3> QED
      BY <1>0, <1>3, <2>2, <3>1
  <2> QED
    BY <2>1, <2>2
<1> QED
  BY <1>3, <1>4 DEF j

(* In order: the cut never leaves an event behind, and never fuses more    *)
(* gains than the ramp has steps for.                                      *)
LEMMA SortedEnds ==
  ASSUME events \in Seq(TimedEvents), Placed, block_offset < SliceLen, Sorted,
         NEW i \in 1..Len(events) + 1, NEW fuse \in BOOLEAN,
         \A k \in i..Len(events) : events[k].time >= Current
  PROVE  LET end == SubEnd(i, fuse)
             j == FusedEnd(i, fuse, end)
             due == DueEnd(j, end)
         IN  /\ j - i <= MaxGainSteps
             /\ j <= Len(events) => events[j].time >= slice_base + end
             /\ \A k \in due..Len(events) : events[k].time >= slice_base + end
<1> DEFINE end == SubEnd(i, fuse)
           j == FusedEnd(i, fuse, end)
           due == DueEnd(j, end)
<1>0. Len(events) \in Nat /\ \A k \in 1..Len(events) : events[k].time \in Nat
  BY EventTimes
<1>1. /\ slice_base \in Nat /\ block_offset \in Nat /\ SliceLen \in Nat /\ MaxGainSteps \in Nat
      /\ Current = slice_base + block_offset /\ SliceEnd = slice_base + SliceLen
  BY SliceBounds, BlockAssumption DEF Placed, Current
<1>2. end \in block_offset..SliceLen
      /\ \E stop \in 1..Len(events) + 1, c \in 1..Len(events) + 1 : CutAt(i, fuse, end, stop, c)
  BY CutExists
<1> HIDE DEF end
<1>3. PICK stop \in 1..Len(events) + 1, c \in 1..Len(events) + 1 : CutAt(i, fuse, end, stop, c)
  BY <1>2
<1>4. /\ stop \in i..Len(events) + 1 /\ c \in i..stop
      /\ \A k \in i..stop - 1 : events[k].time < SliceEnd
      /\ \A k \in i..c - 1 : events[k].time >= Current => fuse /\ Fusable(i, stop, k)
      /\ c <= Len(events) => events[c].time >= slice_base + end
      /\ end < SliceLen => c <= Len(events) /\ events[c].time = slice_base + end
  BY <1>3 DEF CutAt
<1>5. \A k \in i..c - 1 : fuse /\ Fusable(i, stop, k)
  BY <1>0, <1>4
<1>6. /\ j \in i..Len(events) + 1
      /\ (fuse /\ end > block_offset) \/ j = i
      /\ \A k \in i..j - 1 : ~Boundary(events[k]) /\ events[k].time < slice_base + end
      /\ fuse /\ end > block_offset /\ j <= Len(events) =>
           Boundary(events[j]) \/ events[j].time >= slice_base + end
      /\ due \in j..Len(events) + 1
  BY <1>2, EndsBound
<1> HIDE DEF j, due
<1>7. j <= Len(events) => events[j].time >= slice_base + end
  <2> SUFFICES ASSUME j <= Len(events) PROVE events[j].time >= slice_base + end
    OBVIOUS
  <2>1. CASE fuse /\ end > block_offset
    <3> SUFFICES ASSUME ~(events[j].time >= slice_base + end) PROVE FALSE
      OBVIOUS
    <3>1. Boundary(events[j])
      BY <1>6, <2>1
    <3>2. j < c
      <4> SUFFICES ASSUME c <= j PROVE FALSE
        BY <1>6
      <4>1. c <= Len(events) /\ c \in 1..Len(events) /\ j \in c..Len(events)
        BY <1>0, <1>6
      <4>2. events[c].time <= events[j].time
        BY <4>1, SortedAll
      <4>3. events[c].time >= slice_base + end
        BY <1>4, <4>1
      <4>4. events[c].time \in Nat /\ events[j].time \in Nat
        BY <1>0, <4>1
      <4>5. slice_base \in Nat /\ end \in Int
        BY <1>1, <1>2
      <4> QED
        BY <4>2, <4>3, <4>4, <4>5
    <3>3. j \in i..c - 1
      BY <1>6, <3>2
    <3> QED
      BY <1>5, <3>1, <3>3 DEF Fusable
  <2>2. CASE fuse /\ ~(end > block_offset)
    <3>1. j \in i..Len(events) /\ end = block_offset
      BY <1>1, <1>2, <1>6, <2>2
    <3> QED
      BY <1>1, <3>1
  <2>3. CASE ~fuse
    <3>1. c = i /\ j = i
      BY <1>0, <1>4, <1>5, <1>6, <2>3
    <3> QED
      BY <1>4, <3>1
  <2> QED
    BY <2>1, <2>2, <2>3
<1>8. j - i <= MaxGainSteps
  <2>1. CASE j = i
    BY <1>1, <2>1
  <2>2. CASE j # i
    <3>1. j - 1 \in i..Len(events) /\ j - 1 \in i..j - 1
      BY <1>0, <1>6, <2>2
    <3>2. j - 1 < c
      <4> SUFFICES ASSUME c <= j - 1 PROVE FALSE
        BY <3>1
      <4>1. c \in i..j - 1 /\ c <= Len(events)
        BY <1>4, <3>1
      <4> QED
        BY <1>0, <1>1, <1>2, <1>4, <1>6, <4>1
    <3>3. j - 1 \in i..c - 1
      BY <3>1, <3>2
    <3>4. Fusable(i, stop, j - 1)
      BY <1>5, <3>3
    <3> DEFINE G == {k \in {h \in i..stop - 1 : events[h].time >= Current} :
                       k <= j - 1 /\ ~Boundary(events[k])}
    <3>5. G = i..j - 1
      <4>1. ASSUME NEW k \in i..j - 1 PROVE k \in G
        <5>1. k \in i..stop - 1 /\ k \in i..Len(events) /\ k <= j - 1
          BY <1>0, <1>4, <3>1, <3>2
        <5>2. ~Boundary(events[k]) /\ events[k].time >= Current
          BY <1>6, <5>1
        <5> QED
          BY <5>1, <5>2
      <4>2. ASSUME NEW k \in G PROVE k \in i..j - 1
        BY <1>6
      <4> HIDE DEF G
      <4> QED
        BY <4>1, <4>2
    <3>6. Cardinality(G) <= MaxGainSteps
      BY <3>4 DEF Fusable
    <3> HIDE DEF G
    <3>7. Cardinality(i..j - 1) = j - i
      BY <1>0, <1>6, <3>1, FS_Interval
    <3> QED
      BY <3>5, <3>6, <3>7
  <2> QED
    BY <2>1, <2>2
<1>9. ASSUME NEW k \in due..Len(events) PROVE events[k].time >= slice_base + end
  <2>1. j \in 1..Len(events) /\ k \in j..Len(events)
    BY <1>0, <1>6
  <2>2. events[j].time <= events[k].time
    BY <2>1, SortedAll
  <2>3. events[j].time >= slice_base + end
    BY <1>0, <1>7, <2>1
  <2>4. events[j].time \in Nat /\ events[k].time \in Nat /\ slice_base + end \in Nat
    <3>1. end \in Nat /\ k \in 1..Len(events)
      BY <1>0, <1>1, <1>2, <2>1
    <3> QED
      BY <1>0, <1>1, <2>1, <3>1
  <2> QED
    BY <2>2, <2>3, <2>4
<1> QED
  BY <1>7, <1>8, <1>9 DEF end, j, due

-----------------------------------------------------------------------------
(* The ramp.                                                               *)

(* A member that is not less than another is the maximum.                  *)
LEMMA MaxIs ==
  ASSUME NEW T, T \subseteq Int, NEW m \in T, \A y \in T : m >= y
  PROVE  Max(T) = m
<1>1. \E x \in T : \A y \in T : x >= y
  OBVIOUS
<1>2. Max(T) \in T /\ \A y \in T : Max(T) >= y
  BY <1>1, Zenon DEF Max
<1>3. m \in Int /\ Max(T) \in Int /\ m >= Max(T) /\ Max(T) >= m
  BY <1>2
<1> QED
  BY <1>3

(* The steps of fused gains up to event q take the ramp to the target that *)
(* jumping there would take it to.                                         *)
StepsUpTo(s, i, j, q, p, steps, u, passed) ==
  /\ s \in RtState /\ i \in 1..Len(events) + 1 /\ j \in i..Len(events) + 1 /\ q \in i..j
  /\ j - i <= MaxGainSteps /\ \A k \in i..j - 1 : ~Boundary(events[k])
  /\ p \in Gains /\ steps = Steps(s, i, j) /\ u.target = s.target
  /\ passed \subseteq DOMAIN steps
  /\ \A k \in DOMAIN steps : k \in passed <=> steps[k].param = p /\ k <= q - i

(* The last step of a gain that was passed is what the events set it to.   *)
LEMMA StepsReach ==
  ASSUME events \in Seq(TimedEvents), NEW s, NEW i, NEW j, NEW q, NEW p, NEW steps, NEW u, NEW passed,
         StepsUpTo(s, i, j, q, p, steps, u, passed)
  PROVE  LastTarget(u, steps, p, passed) = Jumped(s, events, i, q).target[p]
<1>h. /\ s \in RtState /\ i \in 1..Len(events) + 1 /\ j \in i..Len(events) + 1 /\ q \in i..j
      /\ j - i <= MaxGainSteps /\ \A k \in i..j - 1 : ~Boundary(events[k])
      /\ p \in Gains /\ steps = Steps(s, i, j) /\ u.target = s.target
      /\ passed \subseteq DOMAIN steps
      /\ \A k \in DOMAIN steps : k \in passed <=> steps[k].param = p /\ k <= q - i
  BY DEF StepsUpTo
<1> USE <1>h
<1>0. i \in Int /\ j \in Int /\ q \in Int /\ Len(events) \in Nat /\ q \in i..Len(events) + 1
  BY EventTimes
<1>1. DOMAIN steps = 1..j - i
  <2>1. j - i \in Nat /\ MaxGainSteps \in Nat
    BY <1>0, BlockAssumption
  <2> DEFINE a == j - i
  <2>2. Min({a, MaxGainSteps}) \in Nat /\ Min({a, MaxGainSteps}) <= a
        /\ (Min({a, MaxGainSteps}) = a \/ Min({a, MaxGainSteps}) = MaxGainSteps)
    BY <2>1, MinOfTwo
  <2>3. Min({j - i, MaxGainSteps}) = j - i
    BY <2>1, <2>2
  <2>4. DOMAIN steps = 1..Min({j - i, MaxGainSteps})
    BY DEF Steps
  <2> QED
    BY <2>3, <2>4
<1>2. ASSUME NEW k \in 1..j - i
      PROVE  /\ steps[k].param = events[i + k - 1].param
             /\ steps[k].target = Effective(Staged(s, events, i, i + k), events[i + k - 1].param)
  <2> DEFINE st == [offset |-> events[i + k - 1].time - Current, param |-> events[i + k - 1].param,
                    target |-> Effective(ApplyAll(s, events, i, i + k, FALSE),
                                         events[i + k - 1].param)]
  <2>1. k \in 1..Min({j - i, MaxGainSteps})
    BY <1>1 DEF Steps
  <2>2. steps[k] = st
    BY <2>1 DEF Steps
  <2>3. st.param = events[i + k - 1].param
        /\ st.target = Effective(ApplyAll(s, events, i, i + k, FALSE), events[i + k - 1].param)
    OBVIOUS
  <2> HIDE DEF st
  <2> QED
    BY <2>2, <2>3 DEF Staged
<1>3. GainRun(s, events, i, q)
  <2>1. i \in 1..Len(events) + 1 /\ q \in i..Len(events) + 1
    BY <1>0
  <2>2. \A k \in i..q - 1 : ~Boundary(events[k])
    BY <1>0
  <2> QED
    BY <2>1, <2>2, GainRuns
<1>4. CASE NoneOf(events, i, q, p) /\ Jumped(s, events, i, q).target[p] = s.target[p]
  <2>1. ASSUME NEW k \in passed PROVE FALSE
    <3>1. k \in 1..j - i /\ events[i + k - 1].param = p /\ k <= q - i
      BY <1>1, <1>2
    <3>2. i + k - 1 \in i..q - 1
      BY <1>0, <3>1
    <3> QED
      BY <1>4, <3>1, <3>2 DEF NoneOf
  <2>2. passed = {}
    BY <2>1
  <2> QED
    BY <1>4, <2>2 DEF LastTarget
<1>5. ASSUME NEW m \in i..q - 1, LastOf(events, i, q, p, m),
             Jumped(s, events, i, q).target[p] = Effective(Staged(s, events, i, m + 1), p)
      PROVE  LastTarget(u, steps, p, passed) = Jumped(s, events, i, q).target[p]
  <2> DEFINE k == m - i + 1
  <2>0. m \in Int /\ m >= i /\ m < q /\ q <= j
    BY <1>0
  <2>1. k \in 1..j - i /\ k <= q - i /\ i + k - 1 = m /\ i + k = m + 1
    BY <1>0, <2>0
  <2>2. events[m].param = p /\ NoneOf(events, m + 1, q, p)
    BY <1>5 DEF LastOf
  <2> HIDE DEF k
  <2>3. k \in passed
    BY <1>1, <1>2, <2>1, <2>2
  <2>4. ASSUME NEW l \in passed PROVE k >= l
    <3>1. l \in 1..j - i /\ events[i + l - 1].param = p /\ l <= q - i
      BY <1>1, <1>2
    <3> SUFFICES ASSUME k < l PROVE FALSE
      BY <2>1, <3>1
    <3>2. i + l - 1 \in m + 1..q - 1
      BY <1>0, <2>1, <3>1
    <3> QED
      BY <2>2, <3>1, <3>2 DEF NoneOf
  <2>5. passed \subseteq Int
    BY <1>1
  <2>6. Max(passed) = k
    BY <2>3, <2>4, <2>5, MaxIs
  <2>7. LastTarget(u, steps, p, passed) = steps[k].target
    BY <2>3, <2>6 DEF LastTarget
  <2> QED
    BY <1>2, <1>5, <2>1, <2>2, <2>7
<1> QED
  BY <1>3, <1>4, <1>5 DEF GainRun

-----------------------------------------------------------------------------
(* The crossfader.                                                         *)

Xfades == [target : BOOLEAN, remaining : 0..XfadeSamples]

(* A trigger towards the side it is going to changes nothing.              *)
LEMMA TriggerFacts ==
  ASSUME NEW x \in Xfades, NEW b \in BOOLEAN
  PROVE  /\ Trigger(x, b) \in Xfades /\ Trigger(x, b).target = b
         /\ x.target = b => Trigger(x, b) = x
<1>1. XfadeSamples \in Nat
  BY BlockAssumption
<1>2. [target |-> b, remaining |-> XfadeSamples] \in Xfades
  BY <1>1 DEF Xfades
<1> QED
  BY <1>2 DEF Trigger

(* Rendering shortens a crossfade and keeps its side.                      *)
LEMMA AfterXfadeFacts ==
  ASSUME NEW x \in Xfades, NEW n \in Nat
  PROVE  AfterXfade(x, n) \in Xfades /\ AfterXfade(x, n).target = x.target
<1>1. x.remaining \in Nat /\ x.remaining \in 0..XfadeSamples /\ x.target \in BOOLEAN
      /\ XfadeSamples \in Nat
  BY BlockAssumption DEF Xfades
<1> DEFINE r == x.remaining
<1>2. CASE x.remaining - n >= 0
  <2>0. {0, r - n} \subseteq Int /\ r - n \in {0, r - n} /\ \A y \in {0, r - n} : r - n >= y
    BY <1>1, <1>2
  <2>1. Max({0, x.remaining - n}) = x.remaining - n
    BY <2>0, MaxIs, Zenon
  <2> QED
    BY <1>1, <1>2, <2>1 DEF AfterXfade, Xfades
<1>3. CASE x.remaining - n < 0
  <2>0. {0, r - n} \subseteq Int /\ 0 \in {0, r - n} /\ \A y \in {0, r - n} : 0 >= y
    BY <1>1, <1>3
  <2>1. Max({0, x.remaining - n}) = 0
    BY <2>0, MaxIs, Zenon
  <2> QED
    BY <1>1, <1>3, <2>1 DEF AfterXfade, Xfades
<1> QED
  BY <1>1, <1>2, <1>3

-----------------------------------------------------------------------------
(* One sub-block.                                                          *)

Typed ==
  /\ phase \in {"idle", "slice", "leftover", "done"}
  /\ events \in Seq(TimedEvents) /\ event_idx \in 1..Len(events) + 1
  /\ rt \in RtState /\ start \in RtState /\ Fresh(rt) /\ Fresh(start)
  /\ xfade \in Xfades /\ anomaly \in BOOLEAN

(* The names of SubBlock.                                                  *)
SbFuse == Fuse(AfterLate, XfadeAfterLate)
SbEnd == SubEnd(LateEnd, SbFuse)
SbLength == SbEnd - block_offset
SbFused == FusedEnd(LateEnd, SbFuse, SbEnd)
SbDue == DueEnd(SbFused, SbEnd)
SbStaged == Staged(AfterLate, events, LateEnd, SbFused)
SbSteps == StepsUsed(SbStaged, XfadeAfterLate, SbLength, Steps(AfterLate, LateEnd, SbFused))
SbRamped(closed) == IF SbLength > 0 THEN AfterRamp(SbStaged, SbSteps, closed) ELSE SbStaged

(* SubBlock, in the names of this section.                                 *)
LEMMA SubBlockIs ==
  ASSUME SubBlock
  PROVE  /\ phase = "slice" /\ block_offset < SliceLen
         /\ \E closed \in BOOLEAN :
              /\ rt' = Refresh(Jumped(SbRamped(closed), events, SbFused, SbDue))
              /\ heard' = [o \in 0..Current + SbLength - 1 |->
                             IF o < Current THEN heard[o]
                             ELSE Sample(SbStaged, XfadeAfterLate, SbSteps, o - Current, closed)]
         /\ xfade' = Trigger(AfterXfade(XfadeAfterLate, SbLength), rt'.params["bypass"])
         /\ anomaly' = (anomaly \/ LateEnd > event_idx)
         /\ event_idx' = SbDue /\ block_offset' = SbEnd
         /\ UNCHANGED <<phase, frames, events, slice_base, asked, running_os, calls, start>>
BY Zenon DEF SubBlock, SbFuse, SbEnd, SbLength, SbFused, SbDue, SbStaged, SbSteps, SbRamped, Jumped,
   Staged, FusedEnd, DueEnd

(* The bypass parameter is a Boolean.                                      *)
LEMMA BypassIsBoolean ==
  ASSUME NEW s \in RtState PROVE s.params["bypass"] \in BOOLEAN
BY DEF RtState, ParamValues, Params

(* The late events of a sub-block are applied at once, before it is cut.   *)
LEMMA Late ==
  ASSUME Typed, Placed, ~rt.dirty, xfade.target = rt.params["bypass"]
  PROVE  /\ LateEnd \in event_idx..Len(events) + 1
         /\ \A k \in event_idx..LateEnd - 1 : events[k].time < Current
         /\ LateEnd <= Len(events) => events[LateEnd].time >= Current
         /\ AfterLate \in RtState /\ ~AfterLate.dirty /\ Fresh(AfterLate)
         /\ Same(AfterLate, Jumped(rt, events, event_idx, LateEnd))
         /\ XfadeAfterLate \in Xfades /\ XfadeAfterLate.target = AfterLate.params["bypass"]
         /\ LateEnd = event_idx => AfterLate = rt
<1>0. /\ Len(events) \in Nat /\ \A k \in 1..Len(events) : events[k].time \in Nat
      /\ DOMAIN events = 1..Len(events)
  BY EventTimes DEF Typed
<1>1. Current \in Nat
  BY SliceBounds DEF Placed, Current
<1>2. /\ LateEnd \in event_idx..Len(events) + 1
      /\ \A k \in event_idx..LateEnd - 1 : k \notin AtOrAfter(Current)
      /\ LateEnd <= Len(events) => LateEnd \in AtOrAfter(Current)
  <2>1. AtOrAfter(Current) \subseteq DOMAIN events
    BY DEF AtOrAfter
  <2> QED
    BY <2>1, FirstFromIsFirst DEF Typed, LateEnd
<1>3. /\ \A k \in event_idx..LateEnd - 1 : events[k].time < Current
      /\ LateEnd <= Len(events) => events[LateEnd].time >= Current
  <2> HIDE DEF LateEnd, Current
  <2>1. ASSUME NEW k \in event_idx..LateEnd - 1 PROVE events[k].time < Current
    <3>1. k \in 1..Len(events) /\ k \notin AtOrAfter(Current)
      BY <1>0, <1>2 DEF Typed
    <3> QED
      BY <1>0, <1>1, <3>1 DEF AtOrAfter
  <2> QED
    BY <1>2, <2>1 DEF AtOrAfter
<1> DEFINE t == Jumped(rt, events, event_idx, LateEnd)
<1>4. t \in RtState /\ Fresh(t)
  BY <1>0, <1>2, JumpedTypes DEF Typed
<1>5. /\ AfterLate \in RtState /\ ~AfterLate.dirty /\ Fresh(AfterLate) /\ Same(AfterLate, t)
      /\ LateEnd = event_idx => AfterLate = rt
  <2>1. CASE LateEnd = event_idx
    <3>1. AfterLate = rt
      BY <2>1 DEF AfterLate
    <3>2. t = rt
      <4>1. event_idx \in Int
        BY DEF Typed
      <4> QED
        BY <2>1, <4>1, JumpedOne
    <3> QED
      BY <3>1, <3>2 DEF Typed, Same
  <2>2. CASE LateEnd # event_idx
    <3>1. AfterLate = Refresh(t)
      BY <2>2 DEF AfterLate, Jumped
    <3> HIDE DEF t
    <3>2. /\ AfterLate \in RtState /\ ~AfterLate.dirty
          /\ AfterLate.params = t.params /\ AfterLate.mods = t.mods
          /\ AfterLate.target = t.target /\ AfterLate.pending = t.pending
          /\ AfterLate.gate = IF t.dirty THEN Effective(t, "gate") ELSE t.gate
      BY <1>4, <3>1, RefreshFields
    <3>3. AfterLate.gate = Effective(AfterLate, "gate")
      BY <1>4, <3>2 DEF Fresh, Effective
    <3> QED
      BY <2>2, <3>2, <3>3 DEF Fresh, Same
  <2> QED
    BY <2>1, <2>2
<1>6. XfadeAfterLate \in Xfades /\ XfadeAfterLate.target = AfterLate.params["bypass"]
  <2>1. CASE LateEnd = event_idx
    BY <1>5, <2>1 DEF XfadeAfterLate, Typed
  <2>2. CASE LateEnd # event_idx
    <3>1. XfadeAfterLate = Trigger(xfade, AfterLate.params["bypass"])
      BY <2>2 DEF XfadeAfterLate
    <3> QED
      BY <1>5, <3>1, BypassIsBoolean, TriggerFacts DEF Typed
  <2> QED
    BY <2>1, <2>2
<1> HIDE DEF t
<1> QED
  BY <1>2, <1>3, <1>5, <1>6 DEF t

(* The events a sub-block ends with, and the steps it uses.                *)
LEMMA SubBlockEnds ==
  ASSUME Typed, Placed, ~rt.dirty, xfade.target = rt.params["bypass"], block_offset < SliceLen
  PROVE  /\ SbEnd \in block_offset..SliceLen /\ SbLength \in Nat
         /\ SbFused \in LateEnd..Len(events) + 1 /\ SbDue \in SbFused..Len(events) + 1
         /\ SbStaged \in RtState
         /\ \A k \in LateEnd..SbFused - 1 : ~Boundary(events[k]) /\ events[k].time < slice_base + SbEnd
         /\ \A k \in SbFused..SbDue - 1 : events[k].time = slice_base + SbEnd /\ SbEnd < SliceLen
         /\ SbFused # LateEnd => Sorted /\ SbLength > 0
         /\ Sorted => /\ SbFused - LateEnd <= MaxGainSteps
                      /\ SbFused <= Len(events) => events[SbFused].time >= slice_base + SbEnd
                      /\ \A k \in SbDue..Len(events) : events[k].time >= slice_base + SbEnd
         /\ SbFused = LateEnd \/ SbSteps = Steps(AfterLate, LateEnd, SbFused)
         /\ SbFused = LateEnd => DOMAIN SbSteps = {}
<1>0. /\ Len(events) \in Nat /\ \A k \in 1..Len(events) : events[k].time \in Nat
  BY EventTimes DEF Typed
<1>1. /\ LateEnd \in event_idx..Len(events) + 1
      /\ LateEnd <= Len(events) => events[LateEnd].time >= Current
      /\ AfterLate \in RtState
      /\ XfadeAfterLate \in Xfades /\ XfadeAfterLate.target = AfterLate.params["bypass"]
  BY Late
<1>2. LateEnd \in 1..Len(events) + 1 /\ event_idx \in 1..Len(events) + 1
  BY <1>0, <1>1 DEF Typed
<1>3. /\ SbFuse \in BOOLEAN
      /\ SbFuse => Sorted /\ SliceLen <= FuseLimit /\ XfadeAfterLate.remaining = 0
                   /\ ~AfterLate.params["bypass"]
  BY DEF SbFuse, Fuse
<1>4. SbEnd \in block_offset..SliceLen
  BY <1>2, <1>3, CutExists DEF SbEnd, Typed
<1>5. /\ SbFused \in LateEnd..Len(events) + 1
      /\ (SbFuse /\ SbEnd > block_offset) \/ SbFused = LateEnd
      /\ \A k \in LateEnd..SbFused - 1 : ~Boundary(events[k]) /\ events[k].time < slice_base + SbEnd
      /\ SbDue \in SbFused..Len(events) + 1
      /\ \A k \in SbFused..SbDue - 1 : events[k].time = slice_base + SbEnd /\ SbEnd < SliceLen
  <2> DEFINE i == LateEnd
             end == SbEnd
             fuse == SbFuse
  <2> HIDE DEF i, end, fuse
  <2>1. /\ FusedEnd(i, fuse, end) \in i..Len(events) + 1
        /\ (fuse /\ end > block_offset) \/ FusedEnd(i, fuse, end) = i
        /\ \A k \in i..FusedEnd(i, fuse, end) - 1 :
             ~Boundary(events[k]) /\ events[k].time < slice_base + end
        /\ DueEnd(FusedEnd(i, fuse, end), end) \in FusedEnd(i, fuse, end)..Len(events) + 1
        /\ \A k \in FusedEnd(i, fuse, end)..DueEnd(FusedEnd(i, fuse, end), end) - 1 :
             events[k].time = slice_base + end /\ end < SliceLen
    <3>1. i \in 1..Len(events) + 1 /\ fuse \in BOOLEAN /\ end \in block_offset..SliceLen
      BY <1>2, <1>3, <1>4 DEF i, end, fuse
    <3>2. events \in Seq(TimedEvents)
      BY DEF Typed
    <3> QED
      BY <3>1, <3>2, EndsBound
  <2> QED
    BY <2>1, Zenon DEF i, end, fuse, SbFused, SbDue
<1>6. ASSUME Sorted
      PROVE  /\ SbFused - LateEnd <= MaxGainSteps
             /\ SbFused <= Len(events) => events[SbFused].time >= slice_base + SbEnd
             /\ \A k \in SbDue..Len(events) : events[k].time >= slice_base + SbEnd
  <2>1. ASSUME NEW k \in LateEnd..Len(events) PROVE events[k].time >= Current
    <3>1. LateEnd \in 1..Len(events) /\ k \in LateEnd..Len(events) /\ k \in 1..Len(events)
      BY <1>0, <1>2
    <3>2. events[LateEnd].time <= events[k].time
      BY <1>6, <3>1, SortedAll DEF Typed
    <3>3. Current \in Nat
      BY SliceBounds DEF Placed, Current
    <3> QED
      BY <1>0, <1>1, <3>1, <3>2, <3>3
  <2> DEFINE i == LateEnd
             fuse == SbFuse
  <2>2. i \in 1..Len(events) + 1 /\ fuse \in BOOLEAN /\ events \in Seq(TimedEvents)
        /\ \A k \in i..Len(events) : events[k].time >= Current
    BY <1>2, <1>3, <2>1 DEF Typed
  <2> HIDE DEF i, fuse
  <2>3. LET end == SubEnd(i, fuse)
            j == FusedEnd(i, fuse, end)
            due == DueEnd(j, end)
        IN  /\ j - i <= MaxGainSteps
            /\ j <= Len(events) => events[j].time >= slice_base + end
            /\ \A k \in due..Len(events) : events[k].time >= slice_base + end
    BY <1>6, <2>2, SortedEnds
  <2> QED
    BY <2>3, Zenon DEF i, fuse, SbEnd, SbFused, SbDue
<1>7. SbStaged \in RtState
  BY <1>1, <1>2, <1>5, StagedTypes DEF SbStaged, Typed
<1>8. SbLength \in Nat /\ SliceLen \in Nat /\ SbLength <= SliceLen
  BY <1>4, SliceBounds DEF SbLength, Placed
<1>9. CASE SbFused = LateEnd
  <2>1. DOMAIN Steps(AfterLate, LateEnd, SbFused) = {}
    <3>1. Min({0, MaxGainSteps}) \in Nat /\ Min({0, MaxGainSteps}) <= 0
      BY MinOfTwo, BlockAssumption
    <3>2. SbFused - LateEnd = 0
      BY <1>2, <1>9
    <3>3. DOMAIN Steps(AfterLate, LateEnd, SbFused) = 1..Min({SbFused - LateEnd, MaxGainSteps})
      BY DEF Steps
    <3>4. Min({0, MaxGainSteps}) = 0
      BY <3>1
    <3> QED
      BY <3>2, <3>3, <3>4
  <2>2. DOMAIN SbSteps = {}
    BY <2>1 DEF SbSteps, StepsUsed
  <2> QED
    BY <1>4, <1>5, <1>6, <1>7, <1>8, <1>9, <2>2
<1>10. CASE SbFused # LateEnd
  <2>1. SbFuse
    BY <1>5, <1>10
  <2>2. GainRun(AfterLate, events, LateEnd, SbFused)
    BY <1>1, <1>2, <1>5, GainRuns DEF Typed
  <2>3. SbStaged.params["bypass"] = AfterLate.params["bypass"]
    BY <2>2 DEF GainRun, SbStaged, Params, Gains
  <2>4. Leg(SbStaged, XfadeAfterLate) = "wet"
    BY <1>3, <2>1, <2>3 DEF Leg
  <2>5. SbLength <= FuseLimit
    BY <1>3, <1>8, <2>1, BlockAssumption
  <2>6. SbSteps = Steps(AfterLate, LateEnd, SbFused)
    BY <2>4, <2>5 DEF SbSteps, StepsUsed
  <2>7. SbLength > 0
    <3>1. block_offset \in Int /\ SbEnd \in Int /\ SbEnd > block_offset
      BY <1>4, <1>5, <1>8, <1>10 DEF Placed
    <3> QED
      BY <3>1 DEF SbLength
  <2> QED
    BY <1>3, <1>4, <1>5, <1>6, <1>7, <1>8, <1>10, <2>1, <2>6, <2>7
<1> QED
  BY <1>9, <1>10

(* Rendering leaves the smoothers where jumping to the fused events would. *)
LEMMA Ramped ==
  ASSUME Typed, Placed, ~rt.dirty, xfade.target = rt.params["bypass"], block_offset < SliceLen,
         NEW closed \in BOOLEAN
  PROVE  /\ SbRamped(closed) \in RtState /\ Fresh(SbRamped(closed)) /\ ~SbRamped(closed).dirty
         /\ Same(SbRamped(closed), Jumped(AfterLate, events, LateEnd, SbFused))
<1> DEFINE t == Jumped(AfterLate, events, LateEnd, SbFused)
<1>1. /\ LateEnd \in 1..Len(events) + 1 /\ AfterLate \in RtState /\ Len(events) \in Nat
      /\ ~AfterLate.dirty /\ Fresh(AfterLate)
  <2>1. Len(events) \in Nat
    BY EventTimes DEF Typed
  <2>2. LateEnd \in event_idx..Len(events) + 1 /\ event_idx \in 1..Len(events) + 1
    BY Late DEF Typed
  <2>3. AfterLate \in RtState /\ ~AfterLate.dirty /\ Fresh(AfterLate)
    BY Late
  <2> QED
    BY <2>1, <2>2, <2>3
<1>2. /\ SbFused \in LateEnd..Len(events) + 1 /\ SbStaged \in RtState
      /\ \A k \in LateEnd..SbFused - 1 : ~Boundary(events[k])
      /\ SbFused # LateEnd => Sorted /\ SbLength > 0 /\ SbSteps = Steps(AfterLate, LateEnd, SbFused)
      /\ Sorted => SbFused - LateEnd <= MaxGainSteps
      /\ SbFused = LateEnd => DOMAIN SbSteps = {}
  BY SubBlockEnds
<1>3. t \in RtState
  BY <1>1, <1>2, JumpedTypes DEF Typed
<1>4. GainRun(AfterLate, events, LateEnd, SbFused)
  BY <1>1, <1>2, GainRuns DEF Typed
<1>5. /\ SbStaged.params = t.params /\ SbStaged.mods = t.mods
      /\ SbStaged.target = AfterLate.target
      /\ SbStaged.pending = t.pending
      /\ SbStaged.dirty = AfterLate.dirty /\ SbStaged.gate = AfterLate.gate
      /\ SbStaged.params["gate"] = AfterLate.params["gate"]
      /\ SbStaged.mods["gate"] = AfterLate.mods["gate"]
  BY <1>4 DEF GainRun, SbStaged, Params, Gains, Modulated
<1>6. Fresh(SbStaged) /\ ~SbStaged.dirty
  BY <1>1, <1>5 DEF Fresh, Effective
<1>7. CASE SbFused = LateEnd
  <2>1. t = AfterLate
    BY <1>1, <1>7, JumpedOne
  <2>2. \A p \in Gains : RampLeaves(SbStaged, SbSteps, p) = t.target[p]
    BY <1>2, <1>5, <1>7, <2>1 DEF RampLeaves, LastTarget
  <2>3. SbStaged.target = t.target
    BY <1>5, <2>1
  <2>4. Same(SbStaged, t)
    BY <1>5, <2>3 DEF Same
  <2> HIDE DEF t
  <2>5. AfterRamp(SbStaged, SbSteps, closed) = [SbStaged EXCEPT !.target = t.target]
    <3>1. t.target \in [Gains -> Int]
      BY <1>3 DEF RtState
    <3>2. t.target = [p \in Gains |-> IF p = "out_gain" /\ closed
                         THEN TailDrain(SbStaged, SbSteps) ELSE RampLeaves(SbStaged, SbSteps, p)]
      BY <2>2, <3>1 DEF TailDrain
    <3> QED
      BY <3>2 DEF AfterRamp
  <2>6. AfterRamp(SbStaged, SbSteps, closed) = SbStaged
    BY <1>2, <2>3, <2>5 DEF RtState
  <2> QED
    BY <1>2, <1>6, <2>4, <2>6 DEF SbRamped, t
<1>8. CASE SbFused # LateEnd
  <2>1. \A p \in Gains : RampLeaves(SbStaged, SbSteps, p) = t.target[p]
    <3> SUFFICES ASSUME NEW p \in Gains PROVE RampLeaves(SbStaged, SbSteps, p) = t.target[p]
      OBVIOUS
    <3> DEFINE passed == {k \in DOMAIN SbSteps : SbSteps[k].param = p}
    <3>1. \A k \in DOMAIN SbSteps : k <= SbFused - LateEnd
      <4>1. SbFused - LateEnd \in Nat /\ MaxGainSteps \in Nat
        BY <1>1, <1>2, BlockAssumption
      <4> DEFINE d == SbFused - LateEnd
      <4>2. Min({d, MaxGainSteps}) \in Nat /\ Min({d, MaxGainSteps}) <= d
        BY <4>1, MinOfTwo
      <4>3. DOMAIN SbSteps = 1..Min({d, MaxGainSteps})
        BY <1>2, <1>8 DEF Steps
      <4> QED
        BY <4>1, <4>2, <4>3
    <3>2. /\ passed \subseteq DOMAIN SbSteps
          /\ \A k \in DOMAIN SbSteps :
               k \in passed <=> SbSteps[k].param = p /\ k <= SbFused - LateEnd
      BY <3>1
    <3>3. SbFused \in LateEnd..SbFused
      BY <1>1, <1>2
    <3> DEFINE steps == SbSteps
               i == LateEnd
               j == SbFused
               s == AfterLate
               u == SbStaged
    <3>4. events \in Seq(TimedEvents) /\ StepsUpTo(s, i, j, j, p, steps, u, passed)
      BY <1>1, <1>2, <1>5, <1>8, <3>2, <3>3 DEF Typed, StepsUpTo
    <3> HIDE DEF passed, steps, i, j, s, u
    <3>5. LastTarget(u, steps, p, passed) = Jumped(s, events, i, j).target[p]
      BY <3>4, StepsReach
    <3> QED
      BY <3>5 DEF RampLeaves, passed, steps, i, j, s, u
  <2> HIDE DEF t
  <2>2. AfterRamp(SbStaged, SbSteps, closed) = [SbStaged EXCEPT !.target = t.target]
    <3>1. t.target \in [Gains -> Int]
      BY <1>3 DEF RtState
    <3>2. t.target = [p \in Gains |-> IF p = "out_gain" /\ closed
                         THEN TailDrain(SbStaged, SbSteps) ELSE RampLeaves(SbStaged, SbSteps, p)]
      BY <2>1, <3>1 DEF TailDrain
    <3> QED
      BY <3>2 DEF AfterRamp
  <2> DEFINE v == [SbStaged EXCEPT !.target = t.target]
  <2>3. /\ v \in RtState /\ v.params = SbStaged.params /\ v.mods = SbStaged.mods
        /\ v.target = t.target /\ v.gate = SbStaged.gate /\ v.dirty = SbStaged.dirty
        /\ v.pending = SbStaged.pending
    BY <1>2, <1>3 DEF RtState
  <2>4. SbRamped(closed) = v
    BY <1>2, <1>8, <2>2 DEF SbRamped
  <2> HIDE DEF v
  <2>5. Fresh(v) /\ ~v.dirty /\ Same(v, t)
    BY <1>5, <1>6, <2>3 DEF Fresh, Effective, Same
  <2> QED
    BY <2>3, <2>4, <2>5 DEF t
<1> QED
  BY <1>7, <1>8

(* A sample sounds as automated at it.                                     *)
Matches(h, o) ==
  LET a == AutomatedAt(o)
  IN  /\ h.dry = a.dry /\ h.gate = a.gate /\ h.in_gain = a.in_gain
      /\ h.closed \/ h.out_gain = a.out_gain

Followed == Same(rt, Jumped(start, events, 1, event_idx))

(* Every sample of a sub-block sounds as it is automated: the heart of the *)
(* proof, one case per leg.                                                *)
LEMMA Sounds ==
  ASSUME Typed, Placed, ~rt.dirty, xfade.target = rt.params["bypass"], block_offset < SliceLen,
         Followed, Sorted,
         \A k \in event_idx..Len(events) : events[k].time >= Current,
         \A k \in 1..event_idx - 1 : events[k].time <= Current,
         NEW o \in Current..Current + SbLength - 1, NEW closed \in BOOLEAN
  PROVE  Matches(Sample(SbStaged, XfadeAfterLate, SbSteps, o - Current, closed), o)
<1> DEFINE i == event_idx
           j == SbFused
           q == FirstFrom(1, AtOrAfter(o + 1))
           S == Jumped(start, events, 1, q)
           T == Jumped(rt, events, i, q)
<1>0. /\ Len(events) \in Nat /\ \A k \in 1..Len(events) : events[k].time \in Nat
      /\ events \in Seq(TimedEvents) /\ i \in 1..Len(events) + 1
      /\ rt \in RtState /\ start \in RtState /\ Fresh(rt) /\ Fresh(start)
  BY EventTimes DEF Typed
<1>1. /\ slice_base \in Nat /\ block_offset \in Nat /\ SliceLen \in Nat
      /\ Current \in Nat /\ Current = slice_base + block_offset
      /\ SbEnd \in Nat /\ SbLength = SbEnd - block_offset /\ Current + SbLength = slice_base + SbEnd
  <2>1. SbEnd \in block_offset..SliceLen
    BY SubBlockEnds
  <2> QED
    BY <2>1, SliceBounds DEF Placed, Current, SbLength
<1>2. LateEnd = i /\ AfterLate = rt
  <2>1. /\ LateEnd \in event_idx..Len(events) + 1
        /\ \A k \in event_idx..LateEnd - 1 : events[k].time < Current
        /\ LateEnd = event_idx => AfterLate = rt
    BY Late
  <2>2. LateEnd = event_idx
    <3> SUFFICES ASSUME LateEnd # event_idx PROVE FALSE
      OBVIOUS
    <3>1. event_idx \in event_idx..LateEnd - 1 /\ event_idx \in event_idx..Len(events)
          /\ event_idx \in 1..Len(events)
      BY <1>0, <2>1
    <3>2. events[event_idx].time < Current
      BY <2>1, <3>1
    <3>3. events[event_idx].time >= Current
      BY <3>1
    <3> QED
      BY <1>0, <1>1, <3>1, <3>2, <3>3
  <2> QED
    BY <2>1, <2>2
<1>3. /\ j \in i..Len(events) + 1 /\ SbStaged \in RtState /\ SbStaged = Staged(rt, events, i, j)
      /\ \A k \in i..j - 1 : ~Boundary(events[k]) /\ events[k].time < slice_base + SbEnd
      /\ j - i <= MaxGainSteps
      /\ j <= Len(events) => events[j].time >= slice_base + SbEnd
      /\ j = i \/ SbSteps = Steps(rt, i, j)
      /\ j = i => DOMAIN SbSteps = {}
  BY <1>2, SubBlockEnds DEF SbStaged
<1>4. /\ q \in i..j
      /\ \A k \in 1..q - 1 : events[k].time <= o
      /\ q <= Len(events) => events[q].time >= o + 1
  <2>1. /\ q \in 1..Len(events) + 1
        /\ \A k \in 1..q - 1 : k \notin AtOrAfter(o + 1)
        /\ q <= Len(events) => q \in AtOrAfter(o + 1)
    <3>1. AtOrAfter(o + 1) \subseteq DOMAIN events /\ 1 \in 1..Len(events) + 1
      BY <1>0 DEF AtOrAfter
    <3> QED
      BY <1>0, <3>1, FirstFromIsFirst
  <2> HIDE DEF i, j, q
  <2>2. o \in Nat /\ Current <= o /\ o < slice_base + SbEnd
    BY <1>1
  <2>3. \A k \in 1..q - 1 : events[k].time <= o
    BY <1>0, <2>1, <2>2 DEF AtOrAfter
  <2>4. q <= Len(events) => events[q].time >= o + 1
    BY <2>1 DEF AtOrAfter
  <2>5. q >= i
    <3> SUFFICES ASSUME q < i PROVE FALSE
      BY <1>0, <2>1
    <3>1. q \in 1..event_idx - 1 /\ q \in 1..Len(events)
      BY <1>0, <2>1 DEF i
    <3> QED
      BY <1>0, <1>1, <2>2, <2>4, <3>1
  <2>6. q <= j
    <3> SUFFICES ASSUME j < q PROVE FALSE
      BY <1>0, <1>3, <2>1
    <3>1. j \in 1..q - 1 /\ j \in 1..Len(events)
      BY <1>0, <1>3, <2>1
    <3>2. events[j].time <= o /\ events[j].time >= slice_base + SbEnd
      BY <1>3, <2>3, <3>1
    <3> QED
      BY <1>0, <1>1, <2>2, <3>1, <3>2
  <2> QED
    BY <1>0, <1>3, <2>1, <2>3, <2>4, <2>5, <2>6
<1> HIDE DEF i, j, q
<1>5. S \in RtState /\ Fresh(S) /\ T \in RtState /\ Same(T, S)
  <2>1. q \in 1..Len(events) + 1 /\ q \in i..Len(events) + 1 /\ i \in Int /\ q \in Int /\ 1 \in Int
        /\ 1 <= i /\ i <= q /\ 1 \in 1..Len(events) + 1 /\ i \in 1..Len(events) + 1
    BY <1>0, <1>3, <1>4
  <2>2. S \in RtState /\ Fresh(S)
    BY <1>0, <2>1, JumpedTypes
  <2> DEFINE R == Jumped(start, events, 1, i)
  <2>3. R \in RtState
    BY <1>0, <2>1, JumpedTypes
  <2>4. T \in RtState
    BY <1>0, <2>1, JumpedTypes
  <2>5. S = Jumped(R, events, i, q)
    BY <2>1, JumpedSplit
  <2>6. Same(rt, R)
    BY DEF Followed, i
  <2> HIDE DEF R, S, T
  <2>7. Same(Jumped(rt, events, i, q), Jumped(R, events, i, q))
    BY <1>0, <2>1, <2>3, <2>6, JumpedSame
  <2> QED
    BY <2>2, <2>4, <2>5, <2>7 DEF T
<1>6. GainRun(rt, events, i, q) /\ GainRun(rt, events, i, j)
  <2>1. q \in i..Len(events) + 1 /\ \A k \in i..q - 1 : ~Boundary(events[k])
    BY <1>0, <1>3, <1>4
  <2> QED
    BY <1>0, <1>3, <2>1, GainRuns
<1>7. /\ SbStaged.target = rt.target /\ SbStaged.gate = rt.gate
      /\ SbStaged.params["bypass"] = rt.params["bypass"]
      /\ T.params["bypass"] = rt.params["bypass"]
      /\ T.params["gate"] = rt.params["gate"] /\ T.mods["gate"] = rt.mods["gate"]
  BY <1>3, <1>6 DEF GainRun, Params, Gains, Modulated
<1>8. \A p \in Gains : InForce(SbStaged, SbSteps, p, o - Current) = S.target[p]
  <2> SUFFICES ASSUME NEW p \in Gains
               PROVE  InForce(SbStaged, SbSteps, p, o - Current) = T.target[p]
    BY <1>5 DEF Same
  <2>1. CASE j = i
    <3>1. T = rt
      <4>1. q = i /\ i \in Int
        BY <1>0, <1>4, <2>1
      <4> QED
        BY <4>1, JumpedOne
    <3> HIDE DEF T
    <3> QED
      BY <1>3, <1>7, <2>1, <3>1 DEF InForce, LastTarget
  <2>2. CASE j # i
    <3> DEFINE steps == SbSteps
               u == SbStaged
               passed == {k \in DOMAIN steps : steps[k].param = p /\ steps[k].offset <= o - Current}
    <3>1. ASSUME NEW k \in DOMAIN steps
          PROVE  steps[k].offset <= o - Current <=> k <= q - i
      <4>1. j - i \in Nat /\ MaxGainSteps \in Nat
        BY <1>0, <1>3, BlockAssumption
      <4> DEFINE d == j - i
      <4>2. Min({d, MaxGainSteps}) \in Nat /\ Min({d, MaxGainSteps}) <= d
        BY <4>1, MinOfTwo
      <4>3. DOMAIN steps = 1..Min({d, MaxGainSteps})
        BY <1>3, <2>2 DEF Steps
      <4>4. k \in 1..j - i
        BY <4>1, <4>2, <4>3
      <4>5. i + k - 1 \in i..j - 1 /\ i + k - 1 \in 1..Len(events) /\ k \in Int
        BY <1>0, <1>3, <4>4
      <4>6. steps[k].offset = events[i + k - 1].time - Current
        <5> DEFINE e == events[i + k - 1]
                   st == [offset |-> e.time - Current, param |-> e.param,
                          target |-> Effective(ApplyAll(rt, events, i, i + k, FALSE), e.param)]
        <5>1. k \in 1..Min({j - i, MaxGainSteps})
          BY <4>3
        <5>2. steps = Steps(rt, i, j)
          BY <1>3, <2>2
        <5>3. steps[k] = st
          BY <5>1, <5>2 DEF Steps
        <5>4. st.offset = e.time - Current
          OBVIOUS
        <5> HIDE DEF st
        <5> QED
          BY <5>3, <5>4
      <4>7. CASE k <= q - i
        <5>1. i + k - 1 \in 1..q - 1
          BY <1>0, <1>4, <4>5, <4>7
        <5> QED
          BY <1>0, <1>1, <1>4, <4>5, <4>6, <4>7, <5>1
      <4>8. CASE ~(k <= q - i)
        <5>1. q \in 1..Len(events) /\ i + k - 1 \in q..Len(events)
          BY <1>0, <1>3, <1>4, <4>5, <4>8
        <5>2. events[q].time <= events[i + k - 1].time
          BY <1>0, <5>1, SortedAll
        <5>3. events[q].time >= o + 1
          BY <1>4, <5>1
        <5>4. events[q].time \in Nat /\ events[i + k - 1].time \in Nat /\ o \in Nat
          BY <1>0, <1>1, <4>5, <5>1
        <5> QED
          BY <1>1, <4>6, <4>8, <5>2, <5>3, <5>4
      <4> QED
        BY <4>7, <4>8
    <3>2. /\ passed \subseteq DOMAIN steps
          /\ \A k \in DOMAIN steps : k \in passed <=> steps[k].param = p /\ k <= q - i
      BY <3>1
    <3>3. InForce(SbStaged, SbSteps, p, o - Current) = LastTarget(u, steps, p, passed)
      BY DEF InForce
    <3>4. steps = Steps(rt, i, j) /\ u.target = rt.target
      BY <1>3, <1>7, <2>2
    <3> HIDE DEF u, passed, T
    <3> DEFINE s == rt
    <3>5. events \in Seq(TimedEvents) /\ StepsUpTo(s, i, j, q, p, steps, u, passed)
      BY <1>0, <1>3, <1>4, <3>2, <3>4 DEF StepsUpTo
    <3> HIDE DEF s, steps
    <3>6. LastTarget(u, steps, p, passed) = Jumped(s, events, i, q).target[p]
      BY <3>5, StepsReach
    <3> QED
      BY <3>3, <3>6 DEF T, s
  <2> QED
    BY <2>1, <2>2
<1>9. Side(SbStaged, XfadeAfterLate) = S.params["bypass"]
  <2>1. XfadeAfterLate.target = rt.params["bypass"]
    BY <1>2, Late
  <2> QED
    BY <1>5, <1>7, <2>1 DEF Side, Same
<1>10. SbStaged.gate = Refresh(S).gate
  <2>1. Refresh(S).gate = IF S.dirty THEN Effective(S, "gate") ELSE S.gate
    BY <1>5, RefreshFields
  <2>2. Refresh(S).gate = Effective(S, "gate")
    BY <1>5, <2>1 DEF Fresh
  <2>3. Effective(S, "gate") = Effective(rt, "gate")
    BY <1>5, <1>7 DEF Effective, Same
  <2>4. rt.gate = Effective(rt, "gate")
    BY <1>0 DEF Fresh
  <2> QED
    BY <1>7, <2>2, <2>3, <2>4
<1>11. /\ AutomatedAt(o).dry = S.params["bypass"] /\ AutomatedAt(o).gate = Refresh(S).gate
       /\ AutomatedAt(o).in_gain = S.target["in_gain"]
       /\ AutomatedAt(o).out_gain = S.target["out_gain"]
  BY DEF AutomatedAt, Jumped, q
<1> DEFINE h == Sample(SbStaged, XfadeAfterLate, SbSteps, o - Current, closed)
<1>12. /\ h.dry = Side(SbStaged, XfadeAfterLate) /\ h.gate = SbStaged.gate
       /\ h.in_gain = InForce(SbStaged, SbSteps, "in_gain", o - Current)
       /\ h.out_gain = InForce(SbStaged, SbSteps, "out_gain", o - Current)
  BY DEF Sample
<1> HIDE DEF S, T, h
<1>13. h.dry = AutomatedAt(o).dry /\ h.gate = AutomatedAt(o).gate
  BY <1>9, <1>10, <1>11, <1>12
<1>14. h.in_gain = AutomatedAt(o).in_gain /\ h.out_gain = AutomatedAt(o).out_gain
  BY <1>8, <1>11, <1>12 DEF Gains
<1> QED
  BY <1>13, <1>14 DEF Matches, h

-----------------------------------------------------------------------------
(* The inductive invariant.                                                *)

(* While a slice is rendered the gate is fresh, the crossfader goes where  *)
(* the bypass says, every sample up to here was heard, and, in an ordered  *)
(* block, no event to come is late.                                        *)
Rendering ==
  phase = "slice" =>
    /\ slice_base < frames /\ ~rt.dirty /\ xfade.target = rt.params["bypass"]
    /\ DOMAIN heard = 0..Current - 1
    /\ anomaly => ~Sorted
    /\ Sorted => \A k \in event_idx..Len(events) : events[k].time >= Current
    /\ ~anomaly => \A k \in 1..event_idx - 1 :
                     /\ events[k].time <= Current /\ events[k].time < frames
                     /\ k < event_idx - 1 => events[k].time <= events[k + 1].time

(* What the report has to say.                                             *)
Truth == anomaly <=> ~Sorted \/ \E i \in 1..Len(events) : events[i].time >= frames

(* When the samples are done: nothing is left over but in a block without  *)
(* audio.                                                                  *)
Over ==
  phase \in {"leftover", "done"} =>
    /\ heard # <<>> => /\ Current = frames /\ xfade.target = rt.params["bypass"]
                       /\ event_idx = Len(events) + 1 /\ Truth
    /\ phase = "done" => event_idx = Len(events) + 1
    /\ rt.dirty => start.dirty /\ event_idx = 1

(* The parameters are what the events up to here make of those at the      *)
(* start.                                                                  *)
Heeded == phase # "idle" => Followed
(* Every sample heard in an ordered block is the automated one.            *)
Accurate == phase # "idle" /\ Sorted => \A o \in DOMAIN heard : Matches(heard[o], o)

(* The inductive invariant.                                                *)
BlockInv == Typed /\ Placed /\ Rendering /\ Over /\ Heeded /\ Accurate

-----------------------------------------------------------------------------
(* The steps.                                                              *)

(* The refresh makes the gate threshold the effective one, nothing else.   *)
LEMMA RefreshKeeps ==
  ASSUME NEW s \in RtState, Fresh(s)
  PROVE  /\ Refresh(s) \in RtState /\ Fresh(Refresh(s)) /\ ~Refresh(s).dirty
         /\ Same(Refresh(s), s) /\ Refresh(s).gate = Effective(s, "gate")
<1> DEFINE t == Refresh(s)
<1>1. /\ t \in RtState /\ ~t.dirty
      /\ t.params = s.params /\ t.mods = s.mods /\ t.target = s.target /\ t.pending = s.pending
      /\ t.gate = IF s.dirty THEN Effective(s, "gate") ELSE s.gate
  BY RefreshFields
<1> HIDE DEF t
<1>2. t.gate = Effective(s, "gate") /\ Effective(t, "gate") = Effective(s, "gate")
  BY <1>1 DEF Fresh, Effective
<1> QED
  BY <1>1, <1>2 DEF Fresh, Same, t

(* The conjuncts of Typed, primed.                                         *)
LEMMA TypedNext ==
  ASSUME phase' \in {"idle", "slice", "leftover", "done"},
         events' \in Seq(TimedEvents), event_idx' \in 1..Len(events') + 1,
         rt' \in RtState, start' \in RtState, Fresh(rt'), Fresh(start'),
         xfade' \in Xfades, anomaly' \in BOOLEAN
  PROVE  Typed'
<1>1. Fresh(rt)' /\ Fresh(start)'
  BY DEF Fresh, Effective
<1> QED
  BY <1>1 DEF Typed

(* No event, no change.                                                    *)
LEMMA JumpedNone ==
  ASSUME NEW s, NEW es
  PROVE  Jumped(s, es, 1, 1) = s
BY JumpedOne

(* The parameters of a new instance.                                       *)
LEMMA InitialFacts ==
  InitialParams \in ParamValues /\ InitialRt \in RtState /\ Fresh(InitialRt)
<1>1. InitialParams \in ParamValues
  <2>1. ASSUME NEW p \in Params
        PROVE  InitialParams[p] \in IF p = "bypass" THEN BOOLEAN ELSE Int
    <3>1. CASE p = "bypass"
      <4>1. InitialParams[p] = FALSE
        BY <3>1, Zenon DEF InitialParams
      <4> QED
        BY <3>1, <4>1, Zenon
    <3>2. CASE p # "bypass"
      <4>1. InitialParams[p] = 0
        BY <3>2, Zenon DEF InitialParams
      <4> QED
        BY <3>2, <4>1
    <3> QED
      BY <3>1, <3>2
  <2>2. InitialParams \in Params0
    <3>1. InitialParams = [p \in Params |-> InitialParams[p]]
      BY Zenon DEF InitialParams
    <3>2. \A p \in Params : InitialParams[p] \in Int \cup BOOLEAN
      BY <2>1
    <3> QED
      BY <3>1, <3>2, Zenon DEF Params0
  <2> QED
    BY <2>1, <2>2 DEF ParamValues
<1> QED
  BY <1>1 DEF InitialRt, RtState, Fresh

(* The start of a block, and no block: nothing sounded yet.                *)
LEMMA AtStart ==
  ASSUME NEW f \in Nat
  PROVE  0 \in 0..Min({f - 0, MaxFrames})
<1>1. f - 0 = f /\ MaxFrames \in Nat
  BY BlockAssumption
<1>2. Min({f, MaxFrames}) \in Nat
  BY <1>1, MinOfTwo
<1> QED
  BY <1>1, <1>2

(* A new instance.                                                         *)
LEMMA InitBlockInv == Init => BlockInv
<1> SUFFICES ASSUME Init PROVE BlockInv
  OBVIOUS
<1> USE DEF Init
<1>1. Typed
  <2>1. <<>> \in Seq(TimedEvents) /\ Len(<<>>) = 0
    OBVIOUS
  <2>2. xfade \in Xfades
    <3>1. 0 \in 0..XfadeSamples
      BY BlockAssumption
    <3>2. FALSE \in BOOLEAN
      OBVIOUS
    <3> QED
      BY <3>1, <3>2 DEF Xfades
  <2>3. rt \in RtState /\ start \in RtState /\ Fresh(rt) /\ Fresh(start)
    BY InitialFacts
  <2>4. anomaly \in BOOLEAN /\ phase \in {"idle", "slice", "leftover", "done"}
    OBVIOUS
  <2> QED
    BY <2>1, <2>2, <2>3, <2>4 DEF Typed
<1>2. Placed
  <2>1. block_offset \in 0..SliceLen
    BY AtStart DEF SliceLen
  <2> QED
    BY <2>1 DEF Placed
<1> QED
  BY <1>1, <1>2 DEF BlockInv, Rendering, Over, Heeded, Accurate

(* What is automated depends on the events and the start alone.            *)
LEMMA SameAutomation ==
  ASSUME UNCHANGED <<events, start>>, NEW o
  PROVE  AutomatedAt(o)' = AutomatedAt(o)
BY DEF AutomatedAt, FirstFrom, AtOrAfter

(* What was heard still matches when the block is the same.                *)
LEMMA SameMatches ==
  ASSUME UNCHANGED <<events, start>>, NEW o, NEW h, Matches(h, o)
  PROVE  LET a == AutomatedAt(o)'
         IN  /\ h.dry = a.dry /\ h.gate = a.gate /\ h.in_gain = a.in_gain
             /\ h.closed \/ h.out_gain = a.out_gain
BY SameAutomation DEF Matches

(* A block with audio begins.                                              *)
LEMMA BeginBlockInv ==
  ASSUME BlockInv, NEW n \in FrameCounts, NEW k \in 0..MaxEvents, NEW es \in [1..k -> TimedEvents],
         NEW usable \in BOOLEAN, BeginBlock(n, es, usable)
  PROVE  BlockInv'
<1> USE DEF BeginBlock
<1>1. n \in Nat /\ MaxEvents \in Nat
  BY BlockAssumption
<1>2. es \in Seq(TimedEvents) /\ Len(es) \in Nat
  <2>1. k \in Nat
    BY <1>1
  <2> QED
    BY <2>1
<1>3. /\ rt \in RtState /\ Fresh(rt) /\ xfade \in Xfades
  BY DEF BlockInv, Typed
<1>4. /\ rt' \in RtState /\ Fresh(rt') /\ start' = rt' /\ xfade' \in Xfades
      /\ phase' \in {"slice", "leftover"}
      /\ phase' = "slice" => n > 0 /\ ~rt'.dirty /\ xfade'.target = rt'.params["bypass"]
  <2>1. CASE n = 0 \/ ~usable
    BY <1>3, <2>1
  <2>2. CASE ~(n = 0 \/ ~usable)
    <3>1. rt' = Refresh(rt) /\ xfade' = Trigger(xfade, rt.params["bypass"]) /\ phase' = "slice"
      BY <2>2
    <3>2. rt' \in RtState /\ Fresh(rt') /\ ~rt'.dirty /\ rt'.params = rt.params
      BY <1>3, <3>1, RefreshKeeps DEF Same
    <3>3. xfade' \in Xfades /\ xfade'.target = rt.params["bypass"]
      BY <1>3, <3>1, BypassIsBoolean, TriggerFacts
    <3> QED
      BY <1>1, <2>2, <3>1, <3>2, <3>3
  <2> QED
    BY <2>1, <2>2
<1>5. /\ frames' = n /\ events' = es /\ event_idx' = 1 /\ slice_base' = 0 /\ block_offset' = 0
      /\ anomaly' = FALSE /\ heard' = <<>>
  OBVIOUS
<1> USE DEF BlockInv
<1> HIDE DEF BeginBlock
<1>6. Typed'
  <2>1. event_idx' \in 1..Len(events') + 1 /\ events' \in Seq(TimedEvents)
    BY <1>2, <1>5
  <2>a. anomaly' \in BOOLEAN
    BY <1>5, Zenon
  <2>2. start' \in RtState /\ Fresh(start') /\ phase' \in {"idle", "slice", "leftover", "done"}
    BY <1>4
  <2> QED
    BY <1>4, <2>1, <2>a, <2>2, TypedNext
<1>7. Placed'
  <2>1. block_offset' \in 0..SliceLen'
    BY <1>1, <1>5, AtStart DEF SliceLen
  <2> QED
    BY <1>1, <1>5, <2>1 DEF Placed
<1>8. Rendering'
  <2>1. Current' = 0
    BY <1>5 DEF Current
  <2>2. \A m \in 1..Len(es) : es[m].time \in Nat
    BY <1>2, EventFacts
  <2> QED
    BY <1>1, <1>4, <1>5, <2>1, <2>2 DEF Rendering
<1>9. Over'
  BY <1>4, <1>5 DEF Over
<1>10. Heeded'
  <2>1. Jumped(start', events', 1, event_idx') = rt'
    BY <1>4, <1>5, JumpedNone
  <2> QED
    BY <2>1 DEF Heeded, Followed, Same
<1>11. Accurate'
  BY <1>5 DEF Accurate
<1> QED
  BY <1>6, <1>7, <1>8, <1>9, <1>10, <1>11

(* What the dry leg makes of the parameters, with every event at once.     *)
LEMMA DryTypes ==
  ASSUME BlockInv, NEW k \in 0..MaxEvents, NEW es \in [1..k -> TimedEvents]
  PROVE  LET t == Jumped(rt, es, 1, Len(es) + 1)
         IN /\ es \in Seq(TimedEvents) /\ Len(es) \in Nat
            /\ t \in RtState /\ Fresh(t)
            /\ Refresh(t) \in RtState /\ Fresh(Refresh(t))
            /\ ~Refresh(t).dirty /\ Same(Refresh(t), t)
<1>1. es \in Seq(TimedEvents) /\ Len(es) \in Nat
  <2>1. k \in Nat
    BY BlockAssumption
  <2> QED
    BY <2>1
<1> DEFINE t == Jumped(rt, es, 1, Len(es) + 1)
<1>2. t \in RtState /\ Fresh(t)
  <2>1. rt \in RtState /\ Fresh(rt)
    BY DEF BlockInv, Typed
  <2>2. 1 \in 1..Len(es) + 1 /\ Len(es) + 1 \in 1..Len(es) + 1
    BY <1>1
  <2> QED
    BY <1>1, <2>1, <2>2, JumpedTypes
<1> HIDE DEF t
<1>3. /\ Refresh(t) \in RtState /\ Fresh(Refresh(t))
      /\ ~Refresh(t).dirty /\ Same(Refresh(t), t)
  BY <1>2, RefreshKeeps
<1> QED
  BY <1>1, <1>2, <1>3 DEF t

(* A block without audio applies its events at once.                       *)
LEMMA DryBlockInv ==
  ASSUME BlockInv, NEW k \in 0..MaxEvents, NEW es \in [1..k -> TimedEvents], DryBlock(es)
  PROVE  BlockInv'
<1> DEFINE t == Jumped(rt, es, 1, Len(es) + 1)
<1>1. /\ phase' = "done" /\ frames' = 0 /\ events' = es /\ event_idx' = Len(es) + 1
      /\ slice_base' = 0 /\ block_offset' = 0 /\ anomaly' = FALSE /\ heard' = <<>>
      /\ start' = rt /\ rt' = Refresh(t) /\ xfade' = xfade
  BY DEF DryBlock, Jumped
<1>2. rt \in RtState /\ Fresh(rt) /\ xfade \in Xfades
  BY DEF BlockInv, Typed
<1>3. /\ es \in Seq(TimedEvents) /\ Len(es) \in Nat
      /\ t \in RtState /\ Fresh(t)
      /\ Refresh(t) \in RtState /\ Fresh(Refresh(t))
      /\ ~Refresh(t).dirty /\ Same(Refresh(t), t)
  BY DryTypes
<1> HIDE DEF t
<1>4. rt' \in RtState /\ Fresh(rt') /\ ~rt'.dirty /\ Same(rt', t)
  BY <1>1, <1>3
<1>5. Typed'
  <2>1. event_idx' \in 1..Len(events') + 1 /\ events' \in Seq(TimedEvents)
    BY <1>1, <1>3
  <2>2. anomaly' \in BOOLEAN
    BY <1>1, Zenon
  <2>3. start' \in RtState /\ Fresh(start') /\ phase' \in {"idle", "slice", "leftover", "done"}
    BY <1>1, <1>2
  <2>4. xfade' \in Xfades
    BY <1>1, <1>2
  <2> QED
    BY <1>4, <2>1, <2>2, <2>3, <2>4, TypedNext
<1>6. Placed'
  <2>1. block_offset' \in 0..SliceLen'
    BY <1>1, AtStart DEF SliceLen
  <2> QED
    BY <1>1, <2>1 DEF Placed
<1>7. Rendering' /\ Over' /\ Accurate'
  BY <1>1, <1>4 DEF Rendering, Over, Accurate
<1>8. Heeded'
  BY <1>1, <1>4 DEF Heeded, Followed, t
<1> QED
  BY <1>5, <1>6, <1>7, <1>8 DEF BlockInv

(* The callback returns.                                                   *)
LEMMA ReturnInv ==
  ASSUME BlockInv, Return
  PROVE  BlockInv'
<1> USE DEF Return, BlockInv
<1>1. Typed'
  <2>1. <<>> \in Seq(TimedEvents) /\ Len(<<>>) = 0
    OBVIOUS
  <2>2. start' \in RtState /\ Fresh(start')
    BY InitialFacts
  <2>3. rt' \in RtState /\ Fresh(rt') /\ xfade' \in Xfades
    BY DEF Typed
  <2>a. anomaly' \in BOOLEAN
    BY Zenon
  <2>4. event_idx' \in 1..Len(events') + 1 /\ events' \in Seq(TimedEvents)
        /\ phase' \in {"idle", "slice", "leftover", "done"}
    BY <2>1
  <2> QED
    BY <2>a, <2>2, <2>3, <2>4, TypedNext
<1>2. Placed'
  <2>1. block_offset' \in 0..SliceLen'
    BY AtStart DEF SliceLen
  <2> QED
    BY <2>1 DEF Placed
<1> QED
  BY <1>1, <1>2 DEF Rendering, Over, Heeded, Accurate

(* Between blocks only the parameters change.                              *)
LEMMA BetweenBlocks ==
  ASSUME BlockInv, phase = "idle",
         UNCHANGED <<phase, frames, events, event_idx, slice_base, block_offset, anomaly, start,
                     heard>>,
         rt' \in RtState, Fresh(rt'), xfade' \in Xfades
  PROVE  BlockInv'
<1> USE DEF BlockInv
<1>1. Typed'
  BY DEF Typed, Fresh, Effective
<1>2. Placed'
  BY DEF Placed, SliceLen, Current
<1> QED
  BY <1>1, <1>2 DEF Rendering, Over, Heeded, Accurate

(* A callback that fails leaves no block behind.                           *)
LEMMA FailBlockInv ==
  ASSUME BlockInv, FailBlock
  PROVE  BlockInv'
<1>1. rt \in RtState /\ Fresh(rt) /\ xfade \in Xfades
  BY DEF BlockInv, Typed
<1> QED
  BY <1>1, BetweenBlocks DEF FailBlock

LEMMA FailDryBlockInv ==
  ASSUME BlockInv, NEW k \in 0..MaxEvents, NEW es \in [1..k -> TimedEvents], FailDryBlock(es)
  PROVE  BlockInv'
<1>1. rt' = Refresh(Jumped(rt, es, 1, Len(es) + 1)) /\ xfade' = xfade
  BY DEF FailDryBlock, Jumped
<1>2. rt' \in RtState /\ Fresh(rt')
  BY <1>1, DryTypes
<1>3. xfade' \in Xfades
  BY <1>1 DEF BlockInv, Typed
<1> QED
  BY <1>2, <1>3, BetweenBlocks DEF FailDryBlock

(* A parameter set outside a block.                                        *)
LEMMA SyncParamInv ==
  ASSUME BlockInv, NEW e \in HostEvents, SyncParam(e)
  PROVE  BlockInv'
<1>1. rt \in RtState /\ Fresh(rt) /\ xfade \in Xfades
  BY DEF BlockInv, Typed
<1>2. rt' = Jump(rt, e) /\ xfade' = xfade
  BY DEF SyncParam, Jump
<1>3. rt' \in RtState /\ Fresh(rt')
  BY <1>1, <1>2, JumpFields, JumpFresh
<1> QED
  BY <1>1, <1>2, <1>3, BetweenBlocks DEF SyncParam

(* reset().                                                                *)
LEMMA ResetInv ==
  ASSUME BlockInv, Reset
  PROVE  BlockInv'
<1>1. rt \in RtState /\ xfade \in Xfades
  BY DEF BlockInv, Typed
<1>2. rt' = [rt EXCEPT !.mods = [p \in Modulated |-> 0], !.dirty = TRUE]
      /\ xfade' = [target |-> rt.params["bypass"], remaining |-> 0]
  BY DEF Reset
<1> DEFINE ms == [p \in Modulated |-> 0]
<1>3. rt' \in RtState /\ Fresh(rt')
  <2>1. ms \in [Modulated -> Int]
    OBVIOUS
  <2>2. rt' = [rt EXCEPT !.mods = ms, !.dirty = TRUE]
    BY <1>2
  <2> HIDE DEF ms
  <2>3. rt' \in RtState /\ rt'.dirty
    BY <1>1, <2>1, <2>2 DEF RtState
  <2> QED
    BY <2>3 DEF Fresh
<1>4. xfade' \in Xfades
  BY <1>1, <1>2, BypassIsBoolean, BlockAssumption DEF Xfades
<1> QED
  BY <1>3, <1>4, BetweenBlocks DEF Reset

(* The host deactivates and activates again.                               *)
LEMMA RestartInv ==
  ASSUME BlockInv, Restart
  PROVE  BlockInv'
<1>1. /\ rt.params \in ParamValues /\ rt.pending \in Int \cup {NoFactor}
  BY DEF BlockInv, Typed, RtState
<1>2. running_os' \in Int
  BY <1>1 DEF Restart, ParamValues, Params0, Params
<1> DEFINE ps == [p \in Params |-> IF p \in Gains THEN rt.params[p]
                                   ELSE IF p = "oversample" THEN running_os'
                                   ELSE InitialParams[p]]
           gs == [p \in Gains |-> rt.params[p]]
           ms == [p \in Modulated |-> 0]
<1>3. ps \in ParamValues
  <2>1. ASSUME NEW p \in Params PROVE ps[p] \in IF p = "bypass" THEN BOOLEAN ELSE Int
    <3>1. rt.params[p] \in IF p = "bypass" THEN BOOLEAN ELSE Int
      BY <1>1 DEF ParamValues
    <3>2. InitialParams[p] \in IF p = "bypass" THEN BOOLEAN ELSE Int
      BY InitialFacts DEF ParamValues
    <3>3. ps[p] = IF p \in Gains THEN rt.params[p] ELSE IF p = "oversample" THEN running_os'
                  ELSE InitialParams[p]
      BY Zenon
    <3> HIDE DEF ps
    <3> QED
      BY <1>2, <3>1, <3>2, <3>3
  <2>2. ps \in Params0
    BY <2>1 DEF Params0
  <2> HIDE DEF ps
  <2> QED
    BY <2>1, <2>2 DEF ParamValues
<1>4. gs \in [Gains -> Int] /\ ms \in [Modulated -> Int]
  BY <1>1 DEF ParamValues, Params0, Gains, Params, Modulated
<1>5. rt' = [params |-> ps, mods |-> ms, target |-> gs, gate |-> 0, dirty |-> TRUE,
             pending |-> NoFactor]
  BY DEF Restart
<1> HIDE DEF ps, gs, ms
<1>6. rt' \in RtState /\ Fresh(rt')
  BY <1>3, <1>4, <1>5 DEF RtState, Fresh
<1>7. xfade' \in Xfades
  BY BlockAssumption DEF Restart, Xfades
<1> QED
  BY <1>6, <1>7, BetweenBlocks DEF Restart

(* The next slice of an oversize block.                                    *)
LEMMA NextSliceInv ==
  ASSUME BlockInv, NextSlice
  PROVE  BlockInv'
<1>1. /\ phase = "slice" /\ block_offset = SliceLen /\ SliceEnd < frames
      /\ slice_base' = SliceEnd /\ block_offset' = 0
      /\ UNCHANGED <<phase, frames, events, event_idx, rt, xfade, anomaly, start, heard>>
  BY DEF NextSlice
<1>2. frames \in Nat /\ slice_base \in 0..frames
  BY DEF BlockInv, Placed
<1>3. SliceLen \in Nat /\ SliceEnd = slice_base + SliceLen
  BY <1>2, SliceBounds
<1>4. Current' = Current
  BY <1>1, <1>2, <1>3 DEF Current
<1>5. Typed'
  BY <1>1 DEF BlockInv, Typed, Fresh, Effective
<1>6. Placed'
  <2>1. frames - SliceEnd \in Nat /\ MaxFrames \in Nat /\ SliceEnd \in 0..frames
    BY <1>1, <1>2, <1>3, BlockAssumption
  <2>2. SliceLen' = Min({frames - SliceEnd, MaxFrames})
    BY <1>1 DEF SliceLen
  <2> DEFINE r == frames - SliceEnd
  <2>3. Min({r, MaxFrames}) \in Nat
    BY <2>1, MinOfTwo
  <2>4. block_offset' \in 0..SliceLen'
    BY <1>1, <2>2, <2>3
  <2> QED
    BY <1>1, <1>4, <2>1, <2>4 DEF BlockInv, Placed
<1>7. Rendering'
  <2>1. Sorted' = Sorted
    BY <1>1 DEF Sorted
  <2> QED
    BY <1>1, <1>4, <2>1 DEF BlockInv, Rendering
<1>8. Over'
  BY <1>1 DEF BlockInv, Over
<1>9. Heeded'
  BY <1>1 DEF BlockInv, Heeded, Followed, Jumped, Same
<1>10. Accurate'
  <2> SUFFICES ASSUME Sorted', NEW o \in DOMAIN heard' PROVE Matches(heard[o], o)'
    BY DEF Accurate
  <2>1. Matches(heard[o], o)
    BY <1>1 DEF BlockInv, Accurate, Sorted
  <2> DEFINE h == heard[o]
  <2>2. h' = h
    BY <1>1
  <2> QED
    BY <1>1, <2>1, SameAutomation DEF Matches
<1> QED
  BY <1>5, <1>6, <1>7, <1>8, <1>9, <1>10 DEF BlockInv

(* The events left over, applied at the end.                               *)
LEMMA Leftovers ==
  ASSUME Typed, Followed, ApplyLeftovers, UNCHANGED <<events, start>>
  PROVE  /\ rt' \in RtState /\ Fresh(rt') /\ xfade' \in Xfades
         /\ xfade.target = rt.params["bypass"] => xfade'.target = rt'.params["bypass"]
         /\ Same(rt', Jumped(start, events, 1, event_idx')) /\ event_idx' = Len(events) + 1
         /\ anomaly' \in BOOLEAN /\ (anomaly' <=> anomaly \/ event_idx <= Len(events))
         /\ rt'.dirty => rt.dirty /\ event_idx = Len(events) + 1
<1>0. /\ Len(events) \in Nat /\ events \in Seq(TimedEvents) /\ event_idx \in 1..Len(events) + 1
      /\ rt \in RtState /\ start \in RtState /\ Fresh(rt) /\ Fresh(start) /\ xfade \in Xfades
      /\ anomaly \in BOOLEAN
  BY EventTimes DEF Typed
<1>1. event_idx' = Len(events) + 1 /\ anomaly' = (anomaly \/ event_idx <= Len(events))
  BY DEF ApplyLeftovers
<1>2. anomaly' \in BOOLEAN /\ (anomaly' <=> anomaly \/ event_idx <= Len(events))
  BY <1>1, Zenon
<1>3. CASE event_idx <= Len(events)
  <2> DEFINE n == Len(events) + 1
             t == Jumped(rt, events, event_idx, n)
             R == Jumped(start, events, 1, event_idx)
  <2>1. rt' = Refresh(t) /\ xfade' = Trigger(xfade, rt'.params["bypass"])
    BY <1>3 DEF ApplyLeftovers, LeftoversApplied, Jumped
  <2>2. /\ event_idx \in 1..Len(events) + 1 /\ n \in event_idx..Len(events) + 1
        /\ 1 \in 1..Len(events) + 1 /\ event_idx \in Int /\ n \in Int /\ 1 <= event_idx
        /\ event_idx <= n
    BY <1>0, <1>3
  <2>3. t \in RtState /\ Fresh(t) /\ R \in RtState
    BY <1>0, <2>2, JumpedTypes
  <2>4. Jumped(start, events, 1, n) = Jumped(R, events, event_idx, n)
    BY <2>2, JumpedSplit
  <2>5. Same(rt, R)
    BY DEF Followed
  <2> HIDE DEF R, n
  <2>6. Same(t, Jumped(R, events, event_idx, n))
    BY <1>0, <2>2, <2>3, <2>5, JumpedSame
  <2> HIDE DEF t
  <2>7. rt' \in RtState /\ Fresh(rt') /\ ~rt'.dirty /\ Same(rt', t)
    BY <2>1, <2>3, RefreshKeeps
  <2>8. Same(rt', Jumped(start, events, 1, n))
    BY <2>4, <2>6, <2>7 DEF Same
  <2>9. xfade' \in Xfades /\ xfade'.target = rt'.params["bypass"]
    BY <1>0, <2>1, <2>7, BypassIsBoolean, TriggerFacts
  <2> QED
    BY <1>1, <1>2, <2>7, <2>8, <2>9 DEF n
<1>4. CASE ~(event_idx <= Len(events))
  <2>1. rt' = rt /\ xfade' = xfade /\ event_idx' = event_idx /\ event_idx = Len(events) + 1
    BY <1>0, <1>1, <1>4 DEF ApplyLeftovers
  <2>2. Same(rt', Jumped(start, events, 1, event_idx'))
    BY <2>1 DEF Followed
  <2> QED
    BY <1>0, <1>1, <1>2, <2>1, <2>2
<1> QED
  BY <1>3, <1>4

(* What a step that renders nothing and keeps the events keeps.            *)
LEMMA NothingRendered ==
  ASSUME BlockInv, phase # "idle", UNCHANGED <<frames, events, slice_base, block_offset, start, heard>>
  PROVE  /\ Placed' /\ Current' = Current /\ SliceLen' = SliceLen /\ Sorted' = Sorted
         /\ Accurate'
<1>1. Current' = Current /\ SliceLen' = SliceLen /\ Sorted' = Sorted
  BY DEF Current, SliceLen, Sorted
<1>2. Placed'
  BY <1>1 DEF BlockInv, Placed
<1>3. Accurate'
  <2> SUFFICES ASSUME Sorted', NEW o \in DOMAIN heard' PROVE Matches(heard[o], o)'
    BY DEF Accurate
  <2>1. Matches(heard[o], o)
    BY <1>1 DEF BlockInv, Accurate
  <2> QED
    BY <2>1, SameAutomation DEF Matches
<1> QED
  BY <1>1, <1>2, <1>3

(* The end of the last slice.                                              *)
LEMMA LastSliceInv ==
  ASSUME BlockInv, LastSlice
  PROVE  BlockInv'
<1>0. /\ Len(events) \in Nat /\ \A k \in 1..Len(events) : events[k].time \in Nat
      /\ event_idx \in 1..Len(events) + 1
  BY EventTimes DEF BlockInv, Typed
<1>1. /\ phase = "slice" /\ block_offset = SliceLen /\ SliceEnd >= frames /\ phase' = "leftover"
      /\ ApplyLeftovers
      /\ UNCHANGED <<frames, events, slice_base, block_offset, start, heard>>
  BY DEF LastSlice
<1>2. Typed /\ Followed /\ start \in RtState /\ Fresh(start) /\ events \in Seq(TimedEvents)
  BY <1>1 DEF BlockInv, Heeded, Typed
<1>3. /\ rt' \in RtState /\ Fresh(rt') /\ xfade' \in Xfades
      /\ xfade.target = rt.params["bypass"] => xfade'.target = rt'.params["bypass"]
      /\ Same(rt', Jumped(start, events, 1, event_idx')) /\ event_idx' = Len(events) + 1
      /\ anomaly' \in BOOLEAN /\ (anomaly' <=> anomaly \/ event_idx <= Len(events))
      /\ rt'.dirty => rt.dirty /\ event_idx = Len(events) + 1
  BY <1>1, <1>2, Leftovers
<1>4. Typed'
  <2>1. event_idx' \in 1..Len(events') + 1 /\ events' \in Seq(TimedEvents)
    BY <1>0, <1>1, <1>2, <1>3
  <2>2. start' \in RtState /\ Fresh(start') /\ phase' \in {"idle", "slice", "leftover", "done"}
    BY <1>1, <1>2
  <2> QED
    BY <1>3, <2>1, <2>2, TypedNext
<1>5. Placed' /\ Current' = Current /\ Sorted' = Sorted /\ Accurate'
  BY <1>1, NothingRendered
<1>6. Current = frames
  <2>1. frames \in Nat /\ slice_base \in 0..frames
    BY DEF BlockInv, Placed
  <2> QED
    BY <1>1, <2>1, SliceBounds DEF Current
<1>7. /\ ~rt.dirty /\ xfade.target = rt.params["bypass"]
      /\ anomaly => ~Sorted
      /\ Sorted => \A k \in event_idx..Len(events) : events[k].time >= Current
      /\ ~anomaly => \A k \in 1..event_idx - 1 :
                       /\ events[k].time <= Current /\ events[k].time < frames
                       /\ k < event_idx - 1 => events[k].time <= events[k + 1].time
  BY <1>1 DEF BlockInv, Rendering
<1>8. Truth'
  <2>1. CASE event_idx <= Len(events)
    <3>1. Sorted => events[event_idx].time >= frames /\ event_idx \in 1..Len(events)
      BY <1>0, <1>6, <1>7, <2>1
    <3>2. ~Sorted \/ \E i \in 1..Len(events) : events[i].time >= frames
      BY <3>1
    <3> QED
      BY <1>1, <1>3, <1>5, <2>1, <3>2 DEF Truth
  <2>2. CASE ~(event_idx <= Len(events))
    <3>1. event_idx - 1 = Len(events)
      BY <1>0, <2>2
    <3>2. anomaly' <=> anomaly
      BY <1>3, <2>2
    <3>3. ~anomaly => Sorted /\ \A i \in 1..Len(events) : ~(events[i].time >= frames)
      <4> SUFFICES ASSUME ~anomaly
                   PROVE  Sorted /\ \A i \in 1..Len(events) : ~(events[i].time >= frames)
        OBVIOUS
      <4>1. \A k \in 1..Len(events) :
               /\ events[k].time < frames
               /\ k < Len(events) => events[k].time <= events[k + 1].time
        BY <1>7, <3>1
      <4>2. frames \in Nat
        BY DEF BlockInv, Placed
      <4> QED
        BY <1>0, <4>1, <4>2 DEF Sorted
    <3> QED
      BY <1>1, <1>5, <1>7, <3>2, <3>3 DEF Truth
  <2> QED
    BY <2>1, <2>2
<1>9. Over'
  BY <1>1, <1>3, <1>5, <1>6, <1>7, <1>8 DEF Over
<1>10. Heeded'
  BY <1>1, <1>3 DEF Heeded, Followed, Same, Jumped
<1>11. Rendering'
  BY <1>1 DEF Rendering
<1> QED
  BY <1>4, <1>5, <1>9, <1>10, <1>11 DEF BlockInv

(* The defensive tail: what is left over is applied.                       *)
LEMMA EndBlockInv ==
  ASSUME BlockInv, EndBlock
  PROVE  BlockInv'
<1>0. Len(events) \in Nat /\ event_idx \in 1..Len(events) + 1
  BY EventTimes DEF BlockInv, Typed
<1>1. /\ phase = "leftover" /\ phase' = "done" /\ ApplyLeftovers
      /\ UNCHANGED <<frames, events, slice_base, block_offset, start, heard>>
  BY DEF EndBlock
<1>2. Typed /\ Followed /\ start \in RtState /\ Fresh(start) /\ events \in Seq(TimedEvents)
  BY <1>1 DEF BlockInv, Heeded, Typed
<1>3. /\ rt' \in RtState /\ Fresh(rt') /\ xfade' \in Xfades
      /\ xfade.target = rt.params["bypass"] => xfade'.target = rt'.params["bypass"]
      /\ Same(rt', Jumped(start, events, 1, event_idx')) /\ event_idx' = Len(events) + 1
      /\ anomaly' \in BOOLEAN /\ (anomaly' <=> anomaly \/ event_idx <= Len(events))
      /\ rt'.dirty => rt.dirty /\ event_idx = Len(events) + 1
  BY <1>1, <1>2, Leftovers
<1>4. Typed'
  <2>1. event_idx' \in 1..Len(events') + 1 /\ events' \in Seq(TimedEvents)
    BY <1>0, <1>1, <1>2, <1>3
  <2>2. start' \in RtState /\ Fresh(start') /\ phase' \in {"idle", "slice", "leftover", "done"}
    BY <1>1, <1>2
  <2> QED
    BY <1>3, <2>1, <2>2, TypedNext
<1>5. Placed' /\ Current' = Current /\ Sorted' = Sorted /\ Accurate'
  BY <1>1, NothingRendered
<1>6. /\ heard # <<>> => /\ Current = frames /\ xfade.target = rt.params["bypass"]
                         /\ event_idx = Len(events) + 1 /\ Truth
      /\ rt.dirty => start.dirty /\ event_idx = 1
  BY <1>1 DEF BlockInv, Over
<1>7. heard' # <<>> => /\ Current' = frames' /\ xfade'.target = rt'.params["bypass"]
                       /\ event_idx' = Len(events') + 1 /\ Truth'
  <2> SUFFICES ASSUME heard # <<>>
               PROVE  /\ Current' = frames' /\ xfade'.target = rt'.params["bypass"]
                      /\ event_idx' = Len(events') + 1 /\ Truth'
    BY <1>1
  <2>1. anomaly' <=> anomaly
    BY <1>0, <1>3, <1>6
  <2> QED
    BY <1>1, <1>3, <1>5, <1>6, <2>1 DEF Truth
<1>8. rt'.dirty => start'.dirty /\ event_idx' = 1
  BY <1>0, <1>1, <1>3, <1>6
<1>9. Over'
  BY <1>1, <1>3, <1>7, <1>8 DEF Over
<1>10. Heeded'
  BY <1>1, <1>3 DEF Heeded, Followed, Same, Jumped
<1>11. Rendering'
  BY <1>1 DEF Rendering
<1> QED
  BY <1>4, <1>5, <1>9, <1>10, <1>11 DEF BlockInv

(* States that follow the events up to i follow them up to j.              *)
LEMMA FollowOn ==
  ASSUME events \in Seq(TimedEvents), start \in RtState, NEW s \in RtState, NEW t,
         NEW i \in 1..Len(events) + 1, NEW j \in i..Len(events) + 1,
         Same(s, Jumped(start, events, 1, i)), Same(t, Jumped(s, events, i, j))
  PROVE  Same(t, Jumped(start, events, 1, j))
<1> DEFINE R == Jumped(start, events, 1, i)
<1>1. i \in Int /\ j \in Int /\ 1 <= i /\ i <= j /\ 1 \in 1..Len(events) + 1
  BY EventTimes
<1>2. R \in RtState
  BY <1>1, JumpedTypes
<1>3. Jumped(start, events, 1, j) = Jumped(R, events, i, j)
  BY <1>1, JumpedSplit
<1>4. Same(s, R)
  OBVIOUS
<1> HIDE DEF R
<1>5. Same(Jumped(s, events, i, j), Jumped(R, events, i, j))
  BY <1>2, <1>4, JumpedSame
<1> QED
  BY <1>3, <1>5 DEF Same

(* One sub-block: its late events, its leg, its fused and its due events.  *)
LEMMA SubBlockInv ==
  ASSUME BlockInv, SubBlock
  PROVE  BlockInv'
<1>1. /\ phase = "slice" /\ block_offset < SliceLen
      /\ xfade' = Trigger(AfterXfade(XfadeAfterLate, SbLength), rt'.params["bypass"])
      /\ anomaly' = (anomaly \/ LateEnd > event_idx)
      /\ event_idx' = SbDue /\ block_offset' = SbEnd
      /\ UNCHANGED <<phase, frames, events, slice_base, start>>
  BY SubBlockIs
<1>2. PICK closed \in BOOLEAN :
        /\ rt' = Refresh(Jumped(SbRamped(closed), events, SbFused, SbDue))
        /\ heard' = [o \in 0..Current + SbLength - 1 |->
                       IF o < Current THEN heard[o]
                       ELSE Sample(SbStaged, XfadeAfterLate, SbSteps, o - Current, closed)]
  BY SubBlockIs
<1>3. /\ Typed /\ Placed /\ Followed
      /\ slice_base < frames /\ ~rt.dirty /\ xfade.target = rt.params["bypass"]
      /\ DOMAIN heard = 0..Current - 1
      /\ anomaly => ~Sorted
      /\ Sorted => \A k \in event_idx..Len(events) : events[k].time >= Current
      /\ ~anomaly => \A k \in 1..event_idx - 1 :
                       /\ events[k].time <= Current /\ events[k].time < frames
                       /\ k < event_idx - 1 => events[k].time <= events[k + 1].time
      /\ Sorted => \A o \in DOMAIN heard : Matches(heard[o], o)
  BY <1>1 DEF BlockInv, Rendering, Heeded, Accurate
<1>4. /\ Len(events) \in Nat /\ \A k \in 1..Len(events) : events[k].time \in Nat
      /\ events \in Seq(TimedEvents) /\ event_idx \in 1..Len(events) + 1
      /\ rt \in RtState /\ start \in RtState /\ Fresh(start) /\ anomaly \in BOOLEAN
  BY <1>3, EventTimes DEF Typed
<1>5. /\ LateEnd \in event_idx..Len(events) + 1
      /\ \A k \in event_idx..LateEnd - 1 : events[k].time < Current
      /\ AfterLate \in RtState
      /\ Same(AfterLate, Jumped(rt, events, event_idx, LateEnd))
      /\ XfadeAfterLate \in Xfades
  BY <1>3, Late
<1>6. /\ SbEnd \in block_offset..SliceLen /\ SbLength \in Nat
      /\ SbFused \in LateEnd..Len(events) + 1 /\ SbDue \in SbFused..Len(events) + 1
      /\ \A k \in LateEnd..SbFused - 1 : events[k].time < slice_base + SbEnd
      /\ \A k \in SbFused..SbDue - 1 : events[k].time = slice_base + SbEnd /\ SbEnd < SliceLen
      /\ SbFused # LateEnd => Sorted
      /\ Sorted => \A k \in SbDue..Len(events) : events[k].time >= slice_base + SbEnd
  BY <1>1, <1>3, SubBlockEnds
<1>7. /\ SbRamped(closed) \in RtState /\ Fresh(SbRamped(closed))
      /\ Same(SbRamped(closed), Jumped(AfterLate, events, LateEnd, SbFused))
  BY <1>1, <1>3, Ramped
<1>8. /\ LateEnd \in 1..Len(events) + 1 /\ SbFused \in 1..Len(events) + 1
      /\ SbDue \in 1..Len(events) + 1 /\ event_idx <= LateEnd /\ LateEnd <= SbFused
      /\ SbFused <= SbDue
  BY <1>4, <1>5, <1>6
<1>9. /\ frames \in Nat /\ slice_base \in Nat /\ block_offset \in Nat /\ SliceLen \in Nat
      /\ Current = slice_base + block_offset /\ slice_base + SliceLen <= frames
      /\ SbEnd \in Nat /\ SbEnd <= SliceLen /\ Current + SbLength = slice_base + SbEnd
      /\ Current <= slice_base + SbEnd /\ Current \in Nat
  <2>1. frames \in Nat /\ slice_base \in 0..frames /\ block_offset \in 0..SliceLen
    BY <1>3 DEF Placed
  <2> QED
    BY <1>6, <2>1, SliceBounds DEF Current, SbLength
<1>10. /\ Current' = slice_base + SbEnd /\ SliceLen' = SliceLen /\ Sorted' = Sorted
  BY <1>1 DEF Current, SliceLen, Sorted
<1> DEFINE v == Jumped(SbRamped(closed), events, SbFused, SbDue)
<1>11. v \in RtState /\ Fresh(v)
  BY <1>4, <1>6, <1>7, <1>8, JumpedTypes
<1>12. rt' = Refresh(v)
  BY <1>2
<1>13. Same(v, Jumped(start, events, 1, SbDue))
  <2>1. Same(AfterLate, Jumped(start, events, 1, LateEnd))
    BY <1>3, <1>4, <1>5, FollowOn DEF Followed
  <2>2. Same(SbRamped(closed), Jumped(start, events, 1, SbFused))
    BY <1>4, <1>5, <1>6, <1>7, <1>8, <2>1, FollowOn
  <2>3. Same(v, v)
    BY DEF Same
  <2> QED
    BY <1>4, <1>6, <1>7, <1>8, <2>2, <2>3, FollowOn
<1> HIDE DEF v
<1>14. rt' \in RtState /\ Fresh(rt') /\ ~rt'.dirty /\ Same(rt', v)
  BY <1>11, <1>12, RefreshKeeps
<1>15. xfade' \in Xfades /\ xfade'.target = rt'.params["bypass"]
  <2>1. AfterXfade(XfadeAfterLate, SbLength) \in Xfades
    BY <1>5, <1>6, AfterXfadeFacts
  <2> QED
    BY <1>1, <1>14, <2>1, BypassIsBoolean, TriggerFacts
<1>16. anomaly' \in BOOLEAN /\ (anomaly' <=> anomaly \/ LateEnd > event_idx)
  BY <1>1, Zenon
<1>17. Typed'
  <2>1. event_idx' \in 1..Len(events') + 1 /\ events' \in Seq(TimedEvents)
    BY <1>1, <1>4, <1>8
  <2>2. start' \in RtState /\ Fresh(start') /\ phase' \in {"idle", "slice", "leftover", "done"}
    BY <1>1, <1>4
  <2> QED
    BY <1>14, <1>15, <1>16, <2>1, <2>2, TypedNext
<1>18. DOMAIN heard' = 0..Current' - 1
  <2>1. DOMAIN heard' = 0..Current + SbLength - 1
    BY <1>2
  <2>2. Current' = Current + SbLength
    BY <1>9, <1>10
  <2>3. Current \in Nat /\ SbLength \in Nat
    BY <1>6, <1>9
  <2> QED
    BY <2>1, <2>2, <2>3
<1>19. Placed'
  BY <1>1, <1>3, <1>9, <1>10, <1>18 DEF Placed
<1>20. Sorted => LateEnd = event_idx /\ ~anomaly
  <2> SUFFICES ASSUME Sorted, LateEnd # event_idx PROVE FALSE
    BY <1>3
  <2>1. event_idx \in event_idx..LateEnd - 1 /\ event_idx \in event_idx..Len(events)
        /\ event_idx \in 1..Len(events)
    BY <1>4, <1>8
  <2>2. events[event_idx].time < Current
    BY <1>5, <2>1
  <2>3. events[event_idx].time >= Current
    BY <1>3, <2>1
  <2> QED
    BY <1>4, <1>9, <2>1, <2>2, <2>3
<1>21. anomaly' => ~Sorted'
  BY <1>4, <1>8, <1>10, <1>16, <1>20
<1>22. ASSUME ~anomaly', NEW k \in 1..SbDue - 1
       PROVE  /\ events[k].time <= slice_base + SbEnd /\ events[k].time < frames
              /\ k < SbDue - 1 => events[k].time <= events[k + 1].time
  <2>1. ~anomaly /\ LateEnd = event_idx
    BY <1>4, <1>8, <1>16, <1>22
  <2>2. \A m \in 1..event_idx - 1 :
          /\ events[m].time <= Current /\ events[m].time < frames
          /\ m < event_idx - 1 => events[m].time <= events[m + 1].time
    BY <1>3, <2>1
  <2>3. k \in 1..Len(events) /\ events[k].time \in Nat
    BY <1>4, <1>8
  <2>4. k \in 1..event_idx - 1 \/ k \in LateEnd..SbFused - 1 \/ k \in SbFused..SbDue - 1
    BY <1>4, <1>8, <2>1
  <2>5. events[k].time <= slice_base + SbEnd /\ events[k].time < frames
    <3>1. CASE k \in 1..event_idx - 1
      BY <1>9, <2>2, <2>3, <3>1
    <3>2. CASE k \in LateEnd..SbFused - 1
      BY <1>6, <1>9, <2>3, <3>2
    <3>3. CASE k \in SbFused..SbDue - 1
      BY <1>6, <1>9, <2>3, <3>3
    <3> QED
      BY <2>4, <3>1, <3>2, <3>3
  <2>6. ASSUME k < SbDue - 1 PROVE events[k].time <= events[k + 1].time
    <3>0. k + 1 \in 1..Len(events) /\ events[k + 1].time \in Nat /\ k + 1 \in 1..SbDue - 1
      BY <1>4, <1>8, <2>3, <2>6
    <3>1. CASE SbFused # LateEnd
      <4>1. Sorted
        BY <1>6, <3>1
      <4>2. k \in 1..Len(events) /\ k + 1 \in k..Len(events)
        BY <2>3, <3>0
      <4> QED
        BY <1>4, <3>0, <4>1, <4>2 DEF Sorted
    <3>2. CASE SbFused = LateEnd /\ k + 1 < event_idx
      <4>1. k \in 1..event_idx - 1 /\ k < event_idx - 1
        BY <1>4, <3>2
      <4> QED
        BY <2>2, <4>1
    <3>3. CASE SbFused = LateEnd /\ k + 1 = event_idx
      <4>1. k \in 1..event_idx - 1 /\ k + 1 \in SbFused..SbDue - 1
        BY <1>4, <1>8, <2>1, <3>0, <3>3
      <4>2. events[k].time <= Current /\ events[k + 1].time = slice_base + SbEnd
        BY <1>6, <2>2, <4>1
      <4> QED
        BY <1>9, <2>3, <4>2
    <3>4. CASE SbFused = LateEnd /\ k + 1 > event_idx
      <4>1. k \in SbFused..SbDue - 1 /\ k + 1 \in SbFused..SbDue - 1
        BY <1>4, <1>8, <2>1, <3>0, <3>4
      <4>2. events[k].time = slice_base + SbEnd /\ events[k + 1].time = slice_base + SbEnd
        BY <1>6, <4>1
      <4> QED
        BY <1>9, <4>2
    <3> QED
      BY <1>4, <2>3, <3>1, <3>2, <3>3, <3>4
  <2> QED
    BY <2>5, <2>6
<1>23. Rendering'
  <2>1. Sorted' => \A k \in event_idx'..Len(events') : events'[k].time >= Current'
    BY <1>1, <1>6, <1>10
  <2>2. ~anomaly' => \A k \in 1..event_idx' - 1 :
                       /\ events'[k].time <= Current' /\ events'[k].time < frames'
                       /\ k < event_idx' - 1 => events'[k].time <= events'[k + 1].time
    BY <1>1, <1>10, <1>22
  <2> QED
    BY <1>1, <1>3, <1>14, <1>15, <1>18, <1>21, <2>1, <2>2 DEF Rendering
<1>24. Over'
  BY <1>1 DEF Over
<1>25. Heeded'
  <2>1. Same(rt', Jumped(start, events, 1, SbDue))
    BY <1>13, <1>14 DEF Same
  <2> QED
    BY <1>1, <2>1 DEF Heeded, Followed, Same, Jumped
<1>26. Accurate'
  <2> SUFFICES ASSUME Sorted', NEW o \in DOMAIN heard' PROVE Matches(heard[o], o)'
    BY DEF Accurate
  <2>1. Sorted /\ o \in 0..Current + SbLength - 1 /\ o \in Nat
    BY <1>2, <1>9, <1>10, <1>18
  <2>2. Matches(heard'[o], o)
    <3>1. CASE o < Current
      <4>1. o \in DOMAIN heard
        BY <1>3, <1>9, <2>1, <3>1
      <4>2. heard'[o] = heard[o]
        BY <1>2, <2>1, <3>1
      <4> QED
        BY <1>3, <2>1, <4>1, <4>2
    <3>2. CASE ~(o < Current)
      <4>1. o \in Current..Current + SbLength - 1
        BY <1>9, <2>1, <3>2
      <4>2. heard'[o] = Sample(SbStaged, XfadeAfterLate, SbSteps, o - Current, closed)
        BY <1>2, <2>1, <3>2
      <4>3. /\ \A k \in event_idx..Len(events) : events[k].time >= Current
            /\ \A k \in 1..event_idx - 1 : events[k].time <= Current
        BY <1>3, <1>20, <2>1
      <4>4. Matches(Sample(SbStaged, XfadeAfterLate, SbSteps, o - Current, closed), o)
        BY <1>1, <1>3, <2>1, <4>1, <4>3, Sounds
      <4> QED
        BY <4>2, <4>4
    <3> QED
      BY <3>1, <3>2
  <2>3. AutomatedAt(o)' = AutomatedAt(o)
    BY <1>1, SameAutomation
  <2> QED
    BY <2>2, <2>3 DEF Matches
<1> QED
  BY <1>17, <1>19, <1>23, <1>24, <1>25, <1>26 DEF BlockInv

(* Every step keeps the invariant.                                         *)
LEMMA NextBlockInv == BlockInv /\ [Next]_vars => BlockInv'
<1> SUFFICES ASSUME BlockInv, [Next]_vars PROVE BlockInv'
  OBVIOUS
<1>1. ASSUME NEW k \in 0..MaxEvents, NEW es \in [1..k -> TimedEvents], DryBlock(es)
      PROVE  BlockInv'
  BY <1>1, DryBlockInv
<1>2. ASSUME NEW k \in 0..MaxEvents, NEW es \in [1..k -> TimedEvents], NEW n \in FrameCounts,
             NEW usable \in BOOLEAN, BeginBlock(n, es, usable)
      PROVE  BlockInv'
  BY <1>2, BeginBlockInv
<1>3. CASE SubBlock
  BY <1>3, SubBlockInv
<1>4. CASE NextSlice
  BY <1>4, NextSliceInv
<1>5. CASE LastSlice
  BY <1>5, LastSliceInv
<1>6. CASE EndBlock
  BY <1>6, EndBlockInv
<1>7. CASE Return
  BY <1>7, ReturnInv
<1>8. ASSUME NEW e \in HostEvents, SyncParam(e) PROVE BlockInv'
  BY <1>8, SyncParamInv
<1>9. CASE Reset
  BY <1>9, ResetInv
<1>10. CASE Restart
  BY <1>10, RestartInv
<1>11. CASE UNCHANGED vars
  <2>1. UNCHANGED <<phase, frames, events, event_idx, slice_base, block_offset, rt, xfade, anomaly,
                    start, heard>>
    BY <1>11 DEF vars
  <2>2. Current' = Current /\ SliceLen' = SliceLen /\ Sorted' = Sorted
    BY <2>1 DEF Current, SliceLen, Sorted
  <2>3. Typed' /\ Placed' /\ Rendering' /\ Over'
    BY <2>1, <2>2 DEF BlockInv, Typed, Placed, Rendering, Over, Truth, Fresh, Effective
  <2>4. Heeded'
    BY <2>1 DEF BlockInv, Heeded, Followed, Jumped, Same
  <2>5. Accurate'
    <3> SUFFICES ASSUME phase' # "idle", Sorted', NEW o \in DOMAIN heard' PROVE Matches(heard[o], o)'
      BY DEF Accurate
    <3>1. Matches(heard[o], o)
      BY <2>1, <2>2 DEF BlockInv, Accurate
    <3> QED
      BY <2>1, <3>1, SameAutomation DEF Matches
  <2> QED
    BY <2>3, <2>4, <2>5 DEF BlockInv
<1>12. CASE FailBlock
  BY <1>12, FailBlockInv
<1>13. ASSUME NEW k \in 0..MaxEvents, NEW es \in [1..k -> TimedEvents], FailDryBlock(es)
       PROVE  BlockInv'
  BY <1>13, FailDryBlockInv
<1> QED
  BY <1>1, <1>2, <1>3, <1>4, <1>5, <1>6, <1>7, <1>8, <1>9, <1>10, <1>11, <1>12, <1>13 DEF Next

(* The invariant holds throughout.                                         *)
LEMMA BlockInvAlways == Spec => []BlockInv
<1> QED
  BY InitBlockInv, NextBlockInv, PTL DEF Spec

-----------------------------------------------------------------------------
(* The theorems.                                                           *)

(* The place of a block stays in its slice and its slice in the block: the *)
(* index math of process_wet_sub_blocks never leaves the buffers.          *)
THEOREM BlockTypes == Spec => []TypeOK
<1>1. BlockInv => TypeOK
  BY DEF BlockInv, Typed, Placed, TypeOK, Xfades
<1> QED
  BY <1>1, BlockInvAlways, PTL

(* Whatever the lengths, limits and events: a block whose events are in    *)
(* order is rendered, sample by sample, with what is automated there.      *)
THEOREM BlockIsAccurate == Spec => []SampleAccurate
<1>1. BlockInv => SampleAccurate
  BY DEF BlockInv, Accurate, Matches, SampleAccurate
<1> QED
  BY <1>1, BlockInvAlways, PTL

(* In any order, fused, late or left over: every event of a block is       *)
(* applied once, in delivery order, by the time the block is done.         *)
THEOREM BlockAppliesAll == Spec => []EventsAllApplied
<1>1. ASSUME BlockInv PROVE EventsAllApplied
  <2> SUFFICES ASSUME phase = "done" PROVE EventsAllApplied
    BY DEF EventsAllApplied
  <2> DEFINE J == Jumped(start, events, 1, Len(events) + 1)
             end == Refresh(J)
  <2>1. /\ rt \in RtState /\ start \in RtState /\ Fresh(rt) /\ Fresh(start)
        /\ events \in Seq(TimedEvents) /\ Len(events) \in Nat
    BY <1>1, EventTimes DEF BlockInv, Typed
  <2>2. /\ event_idx = Len(events) + 1
        /\ heard # <<>> => Current = frames /\ xfade.target = rt.params["bypass"]
        /\ rt.dirty => start.dirty /\ event_idx = 1
    BY <1>1 DEF BlockInv, Over
  <2>3. heard # <<>> => DOMAIN heard = 0..frames - 1
    BY <1>1, <2>2 DEF BlockInv, Placed
  <2>4. J \in RtState /\ Fresh(J)
    <3>1. 1 \in 1..Len(events) + 1 /\ Len(events) + 1 \in 1..Len(events) + 1
      BY <2>1
    <3> QED
      BY <2>1, <3>1, JumpedTypes
  <2>5. Same(rt, J)
    BY <1>1, <2>2 DEF BlockInv, Heeded, Followed
  <2> HIDE DEF J
  <2>6. Same(end, J) /\ end.gate = Effective(J, "gate")
    BY <2>4, RefreshKeeps
  <2>7. end = Refresh(ApplyAll(start, events, 1, Len(events) + 1, TRUE))
    BY DEF J, Jumped
  <2> HIDE DEF end
  <2>8. \A f \in {"params", "mods", "target", "pending"} : rt[f] = end[f]
    BY <2>5, <2>6 DEF Same
  <2>9. rt.dirty => start.dirty /\ events = <<>>
    BY <2>1, <2>2
  <2>10. ~rt.dirty => rt.gate = end.gate
    BY <2>1, <2>5, <2>6 DEF Fresh, Effective, Same
  <2> QED
    BY <2>2, <2>3, <2>7, <2>8, <2>9, <2>10 DEF EventsAllApplied
<1> QED
  BY <1>1, BlockInvAlways, PTL

(* The status bit of a timing anomaly is raised for a block exactly when   *)
(* an event of it could not take effect at its own time.                   *)
THEOREM BlockReportIsTrue == Spec => []AnomalyIsTrue
<1>1. BlockInv => AnomalyIsTrue
  BY DEF BlockInv, Over, Truth, AnomalyIsTrue
<1> QED
  BY <1>1, BlockInvAlways, PTL

=============================================================================
