------------------------- MODULE AssetIdentityProofs -------------------------
(***************************************************************************)
(* Proofs about AssetIdentity, for every set of models and IRs, any ring   *)
(* capacity and any bounds.                                                *)
(*                                                                         *)
(* StagedIsAnnounced: a swap or a restore staged while a processor runs    *)
(* has asked for a restart.  Staging and asking are one step in every      *)
(* handler, only activate() takes the request back and it takes what was   *)
(* staged, and what is staged without asking is staged before the first    *)
(* activation, when there is no processor.                                 *)
(*                                                                         *)
(* AssetTypes, LatencyNeverMoves: CInv, what the channel holds (commands   *)
(* of a sane shape, none that changes the latency of the kept chain) and   *)
(* what a processor has (a chain of the published latency).                *)
(*                                                                         *)
(* ShownRuns: SInv, which says that what will run once all that waits has  *)
(* landed is what the GUI will show.  Every step that moves a change from  *)
(* one place to another (a slot, the ring, the parked command, the staged  *)
(* swap or restore, the recovered commands) keeps where it lands.          *)
(***************************************************************************)
EXTENDS AssetIdentity, SequenceTheorems, WellFoundedInduction, TLAPS

(* Without a buffer size nothing has been activated.                       *)
UnsizedIsInactive == ~sized => phase = "inactive"

IInv == UnsizedIsInactive /\ StagedAsksForRestart

(* A request once made stands until activate(); a swap that empties its    *)
(* component leaves nothing staged where nothing was.                      *)
LEMMA EmptiedStaysEmpty ==
  /\ [NothingStaged EXCEPT !.model = Keep, !.rate = DefaultRate] = NothingStaged
  /\ [NothingStaged EXCEPT !.ir = Keep] = NothingStaged
<1> DEFINE n == [model |-> Keep, rate |-> DefaultRate, ir |-> Keep]
<1>1. n.model = Keep /\ n.rate = DefaultRate /\ n.ir = Keep
  OBVIOUS
<1>2. [n EXCEPT !.model = Keep, !.rate = DefaultRate] = n
  <2> DEFINE e == [n EXCEPT !.model = Keep, !.rate = DefaultRate]
  <2>1. e = [f \in DOMAIN n |-> e[f]]
    OBVIOUS
  <2>2. DOMAIN n = {"model", "rate", "ir"} /\ DOMAIN e = DOMAIN n
    OBVIOUS
  <2>3. e["model"] = n["model"] /\ e["rate"] = n["rate"] /\ e["ir"] = n["ir"]
    OBVIOUS
  <2>4. \A f \in DOMAIN n : e[f] = n[f]
    BY <2>2, <2>3
  <2>5. n = [f \in DOMAIN n |-> n[f]]
    OBVIOUS
  <2> QED
    BY <2>1, <2>4, <2>5
<1>3. [n EXCEPT !.ir = Keep] = n
  OBVIOUS
<1> QED
  BY <1>2, <1>3 DEF NothingStaged

LEMMA InitHolds == Init => IInv
BY DEF Init, IInv, UnsizedIsInactive, StagedAsksForRestart

(* The routes of a model command: slot, ring or staged swap.               *)
LEMMA DeliveryAnnounces ==
  ASSUME NEW cmd, IInv, DeliverModel(cmd), UNCHANGED <<sized, phase>>
  PROVE  IInv'
<1>1. CASE ~sized
  BY <1>1 DEF IInv, UnsizedIsInactive, StagedAsksForRestart
<1>2. CASE sized /\ ~SameStream(cmd.rate)
  BY <1>2 DEF DeliverModel, NeedsRestart, IInv, UnsizedIsInactive, StagedAsksForRestart
<1>3. CASE sized /\ SameStream(cmd.rate)
  <2>1. staged_swap = NothingStaged => staged_swap' = NothingStaged
    BY <1>3, EmptiedStaysEmpty DEF DeliverModel
  <2>2. staged_restore' = None
    BY <1>3 DEF DeliverModel
  <2>3. restart => restart'
    BY DEF DeliverModel
  <2> QED
    BY <1>3, <2>1, <2>2, <2>3 DEF IInv, UnsizedIsInactive, StagedAsksForRestart
<1> QED
  BY <1>1, <1>2, <1>3

(* The routes of an IR load: ring, retry slot, staged swap or activate().  *)
LEMMA IrLoadAnnounces ==
  ASSUME NEW i, IInv, LoadIrActive(i) \/ LoadIrInactive(i), UNCHANGED <<sized, phase>>
  PROVE  IInv'
<1>1. CASE LoadIrInactive(i)
  BY <1>1 DEF LoadIrInactive, IInv, UnsizedIsInactive, StagedAsksForRestart
<1>2. CASE LoadIrActive(i) /\ ~SameCabsim(i)
  BY <1>2 DEF LoadIrActive, NeedsRestart, IInv, UnsizedIsInactive, StagedAsksForRestart
<1>3. CASE LoadIrActive(i) /\ SameCabsim(i)
  <2>1. staged_swap = NothingStaged => staged_swap' = NothingStaged
    BY <1>3, EmptiedStaysEmpty DEF LoadIrActive
  <2>2. staged_restore' = None /\ (restart => restart')
    BY <1>3 DEF LoadIrActive
  <2> QED
    BY <1>3, <2>1, <2>2 DEF IInv, UnsizedIsInactive, StagedAsksForRestart
<1> QED
  BY <1>1, <1>2, <1>3

LEMMA NextPreserves == IInv /\ [Next]_vars => IInv'
<1> SUFFICES ASSUME IInv, [Next]_vars PROVE IInv'
  OBVIOUS
<1> USE DEF IInv, UnsizedIsInactive, StagedAsksForRestart
<1>1. CASE Commit
  <2>1. PICK full \in BOOLEAN, m \in ModelOrNone, i \in IrOrNone :
          LET cmd == RestoreCommand(full, m, i)
          IN  \/ LocalCommit(cmd, full)
              \/ ContinuousCommit(cmd, full)
              \/ \E os_differs \in BOOLEAN : StagedCommit(cmd, full, os_differs)
    BY <1>1 DEF Commit
  <2> DEFINE cmd == RestoreCommand(full, m, i)
  <2>2. UNCHANGED <<sized, phase>>
    BY <1>1 DEF Commit
  <2>3. CASE LocalCommit(cmd, full)
    BY <2>2, <2>3 DEF LocalCommit
  <2>4. CASE ContinuousCommit(cmd, full)
    BY <2>2, <2>4 DEF ContinuousCommit
  <2>5. ASSUME NEW os_differs \in BOOLEAN, StagedCommit(cmd, full, os_differs)
        PROVE  IInv'
    BY <2>2, <2>5 DEF StagedCommit
  <2> QED
    BY <2>1, <2>3, <2>4, <2>5
<1>2. CASE HousekeepingNext
  <2>1. CASE RedeliverRestore \/ PublishRestore \/ NoRestoreToFlush \/ NothingRequested
    BY <2>1 DEF RedeliverRestore, PublishRestore, NoRestoreToFlush, NothingRequested,
                staging
  <2>2. CASE FlushPendingModel
    BY <2>2 DEF FlushPendingModel
  <2>3. CASE RetryIr
    <3>1. UNCHANGED <<sized, phase>>
      BY <2>3 DEF RetryIr
    <3> QED
      BY <2>3, <3>1, IrLoadAnnounces DEF RetryIr
  <2> QED
    BY <1>2, <2>1, <2>2, <2>3 DEF HousekeepingNext
<1>3. CASE RequestNext
  <2>1. CASE LoadModel
    <3>1. PICK m \in Models : DeliverModel(ModelCommand(m, RateOf[m]))
      BY <2>1 DEF LoadModel
    <3>2. UNCHANGED <<sized, phase>>
      BY <2>1 DEF LoadModel
    <3> QED
      BY <3>1, <3>2, DeliveryAnnounces
  <2>2. CASE ClearModel
    <3>1. UNCHANGED <<sized, phase>>
      BY <2>2 DEF ClearModel
    <3> QED
      BY <2>2, <3>1, DeliveryAnnounces DEF ClearModel
  <2>3. CASE ClearModelFails
    BY <2>3 DEF ClearModelFails, staging
  <2>4. CASE LoadIr
    <3>1. PICK i \in Irs : LoadIrActive(i) \/ LoadIrInactive(i)
      BY <2>4 DEF LoadIr
    <3>2. UNCHANGED <<sized, phase>>
      BY <2>4 DEF LoadIr
    <3> QED
      BY <3>1, <3>2, IrLoadAnnounces
  <2>5. CASE ClearIr
    BY <2>5 DEF ClearIr
  <2> QED
    BY <1>3, <2>1, <2>2, <2>3, <2>4, <2>5 DEF RequestNext
<1>4. CASE PushSnapshot
  BY <1>4 DEF PushSnapshot, staging
<1>5. CASE AudioNext
  <2>1. CASE Drain \/ ReplayRecovered
    BY <2>1 DEF Drain, ReplayRecovered, staging
  <2>2. CASE Panic
    BY <2>2 DEF Panic, staging
  <2> QED
    BY <1>5, <2>1, <2>2 DEF AudioNext
<1>6. CASE LifecycleNext
  <2>1. CASE Activate
    BY <2>1 DEF Activate, NothingStagedAfter
  <2>2. CASE ActivateFails
    BY <2>2 DEF ActivateFails, staging
  <2>3. CASE ActivateFailsLate
    BY <2>3 DEF ActivateFailsLate
  <2>4. CASE Deactivate
    BY <2>4 DEF Deactivate, staging
  <2> QED
    BY <1>6, <2>1, <2>2, <2>3, <2>4 DEF LifecycleNext
<1>7. CASE UNCHANGED vars
  BY <1>7 DEF vars, staging, NothingStaged
<1> QED
  BY <1>1, <1>2, <1>3, <1>4, <1>5, <1>6, <1>7 DEF Next

(* StagedAsksForRestart for every value of the constants: a resource swap  *)
(* or a restore that waits for a restart is never left waiting for a       *)
(* request nobody made.                                                    *)
THEOREM StagedIsAnnounced == Spec => []StagedAsksForRestart
<1>1. Init => IInv
  BY InitHolds
<1>2. IInv /\ [Next]_vars => IInv'
  BY NextPreserves
<1>3. IInv => StagedAsksForRestart
  BY DEF IInv
<1> QED
  BY <1>1, <1>2, <1>3, PTL DEF Spec

(* Induction over the naturals.                                            *)

(* A set of naturals that is not empty has a least member.                 *)
LEMMA Least ==
  ASSUME NEW T, T \subseteq Nat, T # {}
  PROVE  \E x \in T : \A y \in T : x <= y
<1>1. PICK x \in T : \A y \in T : ~(<<y, x>> \in OpToRel(<, Nat))
  BY NatLessThanWellFounded, WFMin
<1>2. \A y \in T : (y < x => <<y, x>> \in OpToRel(<, Nat))
  BY Zenon DEF OpToRel
<1>3. \A y \in T : ~(y < x)
  BY <1>1, <1>2, Zenon
<1> HIDE <1>1
<1>4. \A y \in T : x <= y
  BY <1>3
<1> QED
  BY <1>4

(* A set with 0 and, with every natural, the next one, has them all.       *)
LEMMA Induct ==
  ASSUME NEW S, 0 \in S, \A n \in Nat : n \in S => n + 1 \in S
  PROVE  Nat \subseteq S
<1> SUFFICES ASSUME Nat \ S # {} PROVE FALSE
  OBVIOUS
<1>1. PICK x \in Nat \ S : \A y \in Nat \ S : x <= y
  <2>1. Nat \ S \subseteq Nat
    OBVIOUS
  <2> QED
    BY <2>1, Least
<1>2. x - 1 \in Nat /\ (x - 1) + 1 = x
  BY <1>1
<1>3. x - 1 \in S
  BY <1>1, <1>2
<1> QED
  BY <1>1, <1>2, <1>3

-----------------------------------------------------------------------------
(* WithoutGui.                                                             *)

-----------------------------------------------------------------------------
(* What a sequence of commands does to a chain.                            *)

(* A component of a command, of a chain or of an identity.                 *)
Of(c, x) == IF x = "model" THEN c.model ELSE c.ir

(* What value v of component x becomes when s is installed.                *)
Effect(s, x, v) == IF Touching(s, x) = {} THEN v ELSE Of(s[Newest(Touching(s, x))], x)

(* A set of indices has a greatest one, and Newest() names it.             *)
LEMMA NewestIs ==
  ASSUME NEW n \in Nat, NEW S, S \subseteq 1 .. n, S # {}
  PROVE  Newest(S) \in S /\ \A k \in S : k <= Newest(S)
<1> DEFINE T == {n - k : k \in S}
<1>1. T \subseteq Nat /\ T # {}
  <2>1. \A k \in S : n - k \in Nat
    OBVIOUS
  <2>2. PICK k \in S : TRUE
    OBVIOUS
  <2>3. n - k \in T
    OBVIOUS
  <2>4. T # {}
    BY <2>3, Zenon
  <2> QED
    BY <2>1, <2>4
<1>2. PICK x \in T : \A y \in T : x <= y
  BY <1>1, Least
<1>3. PICK j \in S : x = n - j
  BY <1>2
<1>4. ASSUME NEW k \in S PROVE k <= j
  <2>1. n - k \in T
    OBVIOUS
  <2>2. n - j <= n - k /\ j \in Nat /\ k \in Nat
    BY <1>2, <1>3, <2>1
  <2> QED
    BY <2>2
<1> QED
  BY <1>3, <1>4 DEF Newest

(* The last command of s that touches x decides, if there is one.          *)
LEMMA LastTouch ==
  ASSUME NEW S, NEW s \in Seq(S), NEW x, Touching(s, x) # {}
  PROVE  /\ Newest(Touching(s, x)) \in 1 .. Len(s)
         /\ Touches(s[Newest(Touching(s, x))], x)
         /\ \A k \in 1 .. Len(s) : Touches(s[k], x) => k <= Newest(Touching(s, x))
<1>1. Len(s) \in Nat /\ Touching(s, x) \subseteq 1 .. Len(s)
  BY DEF Touching
<1>2. /\ Newest(Touching(s, x)) \in Touching(s, x)
      /\ \A k \in Touching(s, x) : k <= Newest(Touching(s, x))
  BY <1>1, NewestIs
<1>3. \A k \in 1 .. Len(s) : Touches(s[k], x) => k \in Touching(s, x)
  BY DEF Touching
<1>4. Newest(Touching(s, x)) \in 1 .. Len(s) /\ Touches(s[Newest(Touching(s, x))], x)
  BY <1>2 DEF Touching
<1> QED
  BY <1>2, <1>3, <1>4

(* A sequence that never touches the component leaves it.                  *)
LEMMA EffectNone ==
  ASSUME NEW s, NEW x, NEW v, \A j \in 1 .. Len(s) : ~Touches(s[j], x)
  PROVE  Effect(s, x, v) = v
BY DEF Effect, Touching

(* Its last command that touches the component decides.                    *)
LEMMA EffectLast ==
  ASSUME NEW S, NEW s \in Seq(S), NEW x, NEW v,
         NEW j \in 1 .. Len(s), Touches(s[j], x),
         \A k \in 1 .. Len(s) : Touches(s[k], x) => k <= j
  PROVE  Effect(s, x, v) = Of(s[j], x)
<1>1. j \in Touching(s, x)
  BY DEF Touching
<1>2. Newest(Touching(s, x)) = j
  <2>1. j <= Newest(Touching(s, x)) /\ Newest(Touching(s, x)) \in 1 .. Len(s)
    BY <1>1, LastTouch
  <2>2. Newest(Touching(s, x)) <= j
    BY <1>1, LastTouch
  <2>3. Len(s) \in Nat
    OBVIOUS
  <2> QED
    BY <2>1, <2>2, <2>3
<1> QED
  BY <1>1, <1>2 DEF Effect

(* One command more: it decides if it touches the component.               *)
LEMMA EffectAppend ==
  ASSUME NEW S, NEW s \in Seq(S), NEW c \in S, NEW x, NEW v
  PROVE  Effect(Append(s, c), x, v) = IF Touches(c, x) THEN Of(c, x) ELSE Effect(s, x, v)
<1> DEFINE r == Append(s, c)
<1>1. /\ r \in Seq(S) /\ Len(r) = Len(s) + 1 /\ Len(s) \in Nat
      /\ \A k \in 1 .. Len(s) : r[k] = s[k]
      /\ r[Len(s) + 1] = c
  OBVIOUS
<1> HIDE DEF r
<1>2. \A k \in 1 .. Len(r) : k \in 1 .. Len(s) \/ k = Len(s) + 1
  BY <1>1
<1>3. CASE Touches(c, x)
  <2>1. Len(r) \in 1 .. Len(r) /\ r[Len(r)] = c
    BY <1>1
  <2>2. Effect(r, x, v) = Of(r[Len(r)], x)
    BY <1>1, <1>3, <2>1, EffectLast
  <2> QED
    BY <1>3, <2>1, <2>2 DEF r
<1>4. CASE ~Touches(c, x) /\ Touching(s, x) = {}
  <2>1. \A k \in 1 .. Len(s) : ~Touches(s[k], x)
    BY <1>4 DEF Touching
  <2>2. \A k \in 1 .. Len(r) : ~Touches(r[k], x)
    BY <1>1, <1>2, <1>4, <2>1
  <2>3. Effect(r, x, v) = v /\ Effect(s, x, v) = v
    BY <2>1, <2>2, EffectNone
  <2> QED
    BY <1>4, <2>3 DEF r
<1>5. CASE ~Touches(c, x) /\ Touching(s, x) # {}
  <2> DEFINE j == Newest(Touching(s, x))
  <2>1. /\ j \in 1 .. Len(s) /\ Touches(s[j], x)
        /\ \A k \in 1 .. Len(s) : Touches(s[k], x) => k <= j
    BY <1>5, LastTouch
  <2>2. Effect(s, x, v) = Of(s[j], x)
    BY <1>5 DEF Effect
  <2> HIDE DEF j
  <2>3. j \in 1 .. Len(r) /\ r[j] = s[j]
    BY <1>1, <2>1
  <2>4. \A k \in 1 .. Len(r) : Touches(r[k], x) => k <= j
    BY <1>1, <1>2, <1>5, <2>1
  <2>5. Effect(r, x, v) = Of(r[j], x)
    BY <1>1, <2>1, <2>3, <2>4, EffectLast
  <2> QED
    BY <1>5, <2>2, <2>3, <2>5 DEF r
<1> QED
  BY <1>3, <1>4, <1>5

(* One sequence after the other.                                           *)
LEMMA EffectConcat ==
  ASSUME NEW S, NEW s \in Seq(S), NEW t \in Seq(S), NEW x, NEW v
  PROVE  Effect(s \o t, x, v) = Effect(t, x, Effect(s, x, v))
<1> DEFINE r == s \o t
<1>1. /\ r \in Seq(S) /\ Len(r) = Len(s) + Len(t)
      /\ \A i \in 1 .. Len(s) + Len(t) : r[i] = IF i <= Len(s) THEN s[i] ELSE t[i - Len(s)]
  BY ConcatProperties
<1>2. Len(s) \in Nat /\ Len(t) \in Nat
  OBVIOUS
<1> HIDE DEF r
<1>3. \A i \in 1 .. Len(s) : i \in 1 .. Len(r) /\ r[i] = s[i]
  BY <1>1, <1>2
<1>4. \A i \in 1 .. Len(t) : Len(s) + i \in 1 .. Len(r) /\ r[Len(s) + i] = t[i]
  <2> SUFFICES ASSUME NEW i \in 1 .. Len(t)
               PROVE  Len(s) + i \in 1 .. Len(r) /\ r[Len(s) + i] = t[i]
    OBVIOUS
  <2>1. /\ Len(s) + i \in 1 .. Len(s) + Len(t) /\ ~(Len(s) + i <= Len(s))
        /\ (Len(s) + i) - Len(s) = i
    BY <1>2
  <2> QED
    BY <1>1, <2>1
<1>5. \A k \in 1 .. Len(r) : k \in 1 .. Len(s) \/ (k - Len(s) \in 1 .. Len(t) /\ k = Len(s) + (k - Len(s)))
  BY <1>1, <1>2
<1>6. CASE Touching(t, x) # {}
  <2> DEFINE j == Newest(Touching(t, x))
  <2>1. /\ j \in 1 .. Len(t) /\ Touches(t[j], x)
        /\ \A k \in 1 .. Len(t) : Touches(t[k], x) => k <= j
    BY <1>6, LastTouch
  <2>2. Effect(t, x, Effect(s, x, v)) = Of(t[j], x)
    BY <1>6 DEF Effect
  <2> HIDE DEF j
  <2>3. Len(s) + j \in 1 .. Len(r) /\ r[Len(s) + j] = t[j]
    BY <1>4, <2>1
  <2>4. ASSUME NEW k \in 1 .. Len(r), Touches(r[k], x) PROVE k <= Len(s) + j
    <3>1. CASE k \in 1 .. Len(s)
      BY <1>2, <2>1, <3>1
    <3>2. CASE k - Len(s) \in 1 .. Len(t) /\ k = Len(s) + (k - Len(s))
      <4>1. r[k] = t[k - Len(s)]
        BY <1>4, <3>2
      <4>2. k - Len(s) <= j
        BY <2>1, <2>4, <3>2, <4>1
      <4> QED
        BY <1>2, <2>1, <4>2
    <3> QED
      BY <1>5, <3>1, <3>2
  <2>5. Effect(r, x, v) = Of(r[Len(s) + j], x)
    BY <1>1, <2>1, <2>3, <2>4, EffectLast
  <2> QED
    BY <2>2, <2>3, <2>5 DEF r
<1>7. CASE Touching(t, x) = {} /\ Touching(s, x) = {}
  <2>1. /\ \A k \in 1 .. Len(s) : ~Touches(s[k], x)
        /\ \A k \in 1 .. Len(t) : ~Touches(t[k], x)
    BY <1>7 DEF Touching
  <2>2. \A k \in 1 .. Len(r) : ~Touches(r[k], x)
    BY <1>3, <1>4, <1>5, <2>1
  <2>3. Effect(r, x, v) = v /\ Effect(s, x, v) = v /\ Effect(t, x, v) = v
    BY <2>1, <2>2, EffectNone
  <2> QED
    BY <2>3 DEF r
<1>8. CASE Touching(t, x) = {} /\ Touching(s, x) # {}
  <2> DEFINE j == Newest(Touching(s, x))
  <2>1. /\ j \in 1 .. Len(s) /\ Touches(s[j], x)
        /\ \A k \in 1 .. Len(s) : Touches(s[k], x) => k <= j
    BY <1>8, LastTouch
  <2>2. Effect(s, x, v) = Of(s[j], x)
    BY <1>8 DEF Effect
  <2>3. Effect(t, x, Effect(s, x, v)) = Effect(s, x, v)
    BY <1>8 DEF Effect
  <2>4. \A k \in 1 .. Len(t) : ~Touches(t[k], x)
    BY <1>8 DEF Touching
  <2> HIDE DEF j
  <2>5. j \in 1 .. Len(r) /\ r[j] = s[j]
    BY <1>3, <2>1
  <2>6. \A k \in 1 .. Len(r) : Touches(r[k], x) => k <= j
    BY <1>3, <1>4, <1>5, <2>1, <2>4
  <2>7. Effect(r, x, v) = Of(r[j], x)
    BY <1>1, <2>1, <2>5, <2>6, EffectLast
  <2> QED
    BY <2>2, <2>3, <2>5, <2>7 DEF r
<1> QED
  BY <1>6, <1>7, <1>8

(* InstallAll() component by component.                                    *)
LEMMA InstallAllIs ==
  ASSUME NEW d, NEW s
  PROVE  /\ InstallAll(d, s).model = Effect(s, "model", d.model)
         /\ InstallAll(d, s).ir = Effect(s, "ir", d.ir)
BY DEF InstallAll, Effect, Of

-----------------------------------------------------------------------------
(* WithoutModels.                                                          *)

(* What the rollback has recovered of the first n commands.                *)
KeptFrom(s, n, before) ==
  IF n = 0 THEN <<>>
  ELSE IF NotModel(s[n]) THEN Append(before, s[n])
  ELSE before

KeepsTo(s, k, f) == f = [n \in 0 .. k |-> KeptFrom(s, n, f[n - 1])]

(* Such a function exists, however long the ring is.                       *)
LEMMA KeepsExists ==
  ASSUME NEW s, NEW k \in Nat
  PROVE  \E f : KeepsTo(s, k, f)
<1> DEFINE S == {n \in Nat : \E f : KeepsTo(s, n, f)}
<1>1. 0 \in S
  <2> DEFINE f == [n \in 0 .. 0 |-> <<>>]
  <2>1. f = [n \in 0 .. 0 |-> KeptFrom(s, n, f[n - 1])]
    BY DEF KeptFrom
  <2> QED
    BY <2>1 DEF KeepsTo
<1>2. ASSUME NEW n \in Nat, n \in S PROVE n + 1 \in S
  <2>1. PICK f : KeepsTo(s, n, f)
    BY <1>2
  <2> DEFINE g == [m \in 0 .. n + 1 |-> IF m <= n THEN f[m] ELSE KeptFrom(s, m, f[n])]
             h == [m \in 0 .. n + 1 |-> KeptFrom(s, m, g[m - 1])]
  <2>2. ASSUME NEW m \in 0 .. n + 1 PROVE g[m] = KeptFrom(s, m, g[m - 1])
    <3>1. CASE m = 0
      <4>1. g[m] = f[0]
        BY <3>1
      <4>2. f[0] = KeptFrom(s, 0, f[0 - 1])
        BY <2>1 DEF KeepsTo
      <4> QED
        BY <3>1, <4>1, <4>2 DEF KeptFrom
    <3>2. CASE m # 0 /\ m <= n
      <4>1. g[m] = f[m] /\ g[m - 1] = f[m - 1]
        BY <3>2
      <4>2. f[m] = KeptFrom(s, m, f[m - 1])
        BY <2>1, <3>2 DEF KeepsTo
      <4> QED
        BY <4>1, <4>2
    <3>3. CASE m = n + 1
      <4>1. g[m] = KeptFrom(s, m, f[n])
        BY <3>3
      <4>2. g[m - 1] = f[n]
        BY <3>3
      <4> QED
        BY <4>1, <4>2
    <3> QED
      BY <3>1, <3>2, <3>3
  <2>3. g = h
    BY <2>2
  <2> HIDE DEF g
  <2>4. KeepsTo(s, n + 1, g)
    BY <2>3 DEF KeepsTo
  <2> QED
    BY <2>4
<1>3. Nat \subseteq S
  <2> HIDE DEF S
  <2> QED
    BY <1>1, <1>2, Induct
<1> QED
  BY <1>3

(* WithoutModels is the last value of such a function.                     *)
LEMMA WithoutModelsIsKept ==
  ASSUME NEW S, NEW s \in Seq(S)
  PROVE  \E f : KeepsTo(s, Len(s), f) /\ WithoutModels(s) = f[Len(s)]
<1> DEFINE f == CHOOSE f : KeepsTo(s, Len(s), f)
<1>1. KeepsTo(s, Len(s), f)
  BY KeepsExists
<1>2. WithoutModels(s) = f[Len(s)]
  BY DEF WithoutModels, KeepsTo, KeptFrom
<1> HIDE DEF f
<1> QED
  BY <1>1, <1>2

(* r is what has to be recovered of the first n commands of s: none of its *)
(* models, all the rest, and the same effect wherever no model matters.    *)
Recovers(r, s, n, S) ==
  /\ r \in Seq({c \in S : NotModel(c)})
  /\ \A i \in 1 .. n : NotModel(s[i]) => \E j \in 1 .. Len(r) : r[j] = s[i]
  /\ \A x, v :
       (\A i \in 1 .. n : IsModel(s[i]) => ~Touches(s[i], x))
         => Effect(r, x, v) = Effect(SubSeq(s, 1, n), x, v)

(* A prefix and the command after it are the next prefix.                  *)
LEMMA NextPrefix ==
  ASSUME NEW S, NEW s \in Seq(S), NEW n \in 1 .. Len(s)
  PROVE  /\ SubSeq(s, 1, n) = Append(SubSeq(s, 1, n - 1), s[n])
         /\ SubSeq(s, 1, n - 1) \in Seq(S) /\ s[n] \in S
<1>1. SubSeq(s, 1, n) = SubSeq(s, 1, n - 1) \o <<s[n]>>
  BY SubSeqRecursiveSecond
<1>2. SubSeq(s, 1, n - 1) \in Seq(S) /\ s[n] \in S
  <2>1. \A i \in 1 .. n - 1 : s[i] \in S
    OBVIOUS
  <2> QED
    BY <2>1, SubSeqProperties
<1>3. Append(SubSeq(s, 1, n - 1), s[n]) = SubSeq(s, 1, n - 1) \o <<s[n]>>
  BY <1>2, AppendIsConcat
<1> QED
  BY <1>1, <1>2, <1>3

(* One command more.                                                       *)
LEMMA RecoversStep ==
  ASSUME NEW S, NEW s \in Seq(S), NEW n \in 1 .. Len(s), NEW r, Recovers(r, s, n - 1, S)
  PROVE  Recovers(KeptFrom(s, n, r), s, n, S)
<1> DEFINE W == {c \in S : NotModel(c)}
           p == SubSeq(s, 1, n - 1)
<1>1. /\ SubSeq(s, 1, n) = Append(p, s[n]) /\ p \in Seq(S) /\ s[n] \in S
  BY NextPrefix
<1>2. /\ r \in Seq(W)
      /\ \A i \in 1 .. n - 1 : NotModel(s[i]) => \E j \in 1 .. Len(r) : r[j] = s[i]
      /\ \A x, v :
           (\A i \in 1 .. n - 1 : IsModel(s[i]) => ~Touches(s[i], x))
             => Effect(r, x, v) = Effect(p, x, v)
  BY DEF Recovers
<1>3. n # 0 /\ (\A i \in 1 .. n : i \in 1 .. n - 1 \/ i = n) /\ 1 .. n - 1 \subseteq 1 .. n
      /\ n \in 1 .. n
  OBVIOUS
<1> HIDE DEF p
<1>4. CASE NotModel(s[n])
  <2> DEFINE q == Append(r, s[n])
  <2>1. s[n] \in W
    BY <1>1, <1>4
  <2> HIDE DEF W
  <2>2. /\ q \in Seq(W) /\ Len(q) = Len(r) + 1 /\ Len(r) \in Nat
        /\ \A k \in 1 .. Len(r) : q[k] = r[k]
        /\ q[Len(r) + 1] = s[n]
    BY <1>2, <2>1, AppendProperties
  <2>3. \A x, v : Effect(q, x, v) = IF Touches(s[n], x) THEN Of(s[n], x) ELSE Effect(r, x, v)
    BY <1>2, <2>1, EffectAppend
  <2>4. \A x, v : Effect(SubSeq(s, 1, n), x, v)
                    = IF Touches(s[n], x) THEN Of(s[n], x) ELSE Effect(p, x, v)
    <3>1. \A x, v : Effect(Append(p, s[n]), x, v)
                      = IF Touches(s[n], x) THEN Of(s[n], x) ELSE Effect(p, x, v)
      BY <1>1, EffectAppend
    <3> QED
      BY <1>1, <3>1, Zenon
  <2> HIDE DEF q
  <2>5. ASSUME NEW i \in 1 .. n, NotModel(s[i]) PROVE \E j \in 1 .. Len(q) : q[j] = s[i]
    <3>1. CASE i = n
      <4>1. Len(q) \in 1 .. Len(q) /\ q[Len(q)] = s[n]
        BY <2>2
      <4> QED
        BY <3>1, <4>1
    <3>2. CASE i \in 1 .. n - 1
      <4>1. PICK j \in 1 .. Len(r) : r[j] = s[i]
        BY <1>2, <2>5, <3>2
      <4>2. j \in 1 .. Len(q) /\ q[j] = s[i]
        BY <2>2, <4>1
      <4> QED
        BY <4>2
    <3> QED
      BY <1>3, <3>1, <3>2
  <2>6. ASSUME NEW x, NEW v, \A i \in 1 .. n : IsModel(s[i]) => ~Touches(s[i], x)
        PROVE  Effect(q, x, v) = Effect(SubSeq(s, 1, n), x, v)
    <3>1. Effect(r, x, v) = Effect(p, x, v)
      BY <1>2, <1>3, <2>6
    <3> QED
      BY <2>3, <2>4, <3>1
  <2>7. KeptFrom(s, n, r) = q
    BY <1>3, <1>4 DEF KeptFrom, q
  <2>8. Recovers(q, s, n, S)
    BY <2>2, <2>5, <2>6 DEF Recovers, W
  <2> QED
    BY <2>7, <2>8
<1>5. CASE ~NotModel(s[n])
  <2> HIDE DEF W
  <2>1. IsModel(s[n])
    BY <1>5 DEF NotModel
  <2>2. \A x, v : Effect(SubSeq(s, 1, n), x, v)
                    = IF Touches(s[n], x) THEN Of(s[n], x) ELSE Effect(p, x, v)
    <3>1. \A x, v : Effect(Append(p, s[n]), x, v)
                      = IF Touches(s[n], x) THEN Of(s[n], x) ELSE Effect(p, x, v)
      BY <1>1, EffectAppend
    <3> QED
      BY <1>1, <3>1, Zenon
  <2>3. ASSUME NEW x, NEW v, \A i \in 1 .. n : IsModel(s[i]) => ~Touches(s[i], x)
        PROVE  Effect(r, x, v) = Effect(SubSeq(s, 1, n), x, v)
    <3>1. Effect(r, x, v) = Effect(p, x, v)
      BY <1>2, <1>3, <2>3
    <3>2. ~Touches(s[n], x)
      BY <1>3, <2>1, <2>3
    <3> QED
      BY <2>2, <3>1, <3>2
  <2>4. ASSUME NEW i \in 1 .. n, NotModel(s[i]) PROVE \E j \in 1 .. Len(r) : r[j] = s[i]
    BY <1>2, <1>3, <1>5, <2>4
  <2>5. KeptFrom(s, n, r) = r
    BY <1>3, <1>5 DEF KeptFrom
  <2>6. Recovers(r, s, n, S)
    BY <1>2, <2>3, <2>4 DEF Recovers, W
  <2> QED
    BY <2>5, <2>6
<1> QED
  BY <1>4, <1>5

(* By induction, over the whole ring.                                      *)
LEMMA WithoutModelsRecovers ==
  ASSUME NEW S, NEW s \in Seq(S)
  PROVE  Recovers(WithoutModels(s), s, Len(s), S)
<1>1. PICK f : KeepsTo(s, Len(s), f) /\ WithoutModels(s) = f[Len(s)]
  BY WithoutModelsIsKept
<1>2. Len(s) \in Nat
  OBVIOUS
<1>3. \A n \in 0 .. Len(s) : f[n] = KeptFrom(s, n, f[n - 1])
  BY <1>1 DEF KeepsTo
<1> DEFINE T == {n \in Nat : n <= Len(s) => Recovers(f[n], s, n, S)}
<1>4. 0 \in T
  <2>1. f[0] = <<>>
    BY <1>2, <1>3 DEF KeptFrom
  <2>3. SubSeq(s, 1, 0) = <<>>
    BY SubSeqEmpty
  <2>4. <<>> \in Seq({c \in S : NotModel(c)})
    OBVIOUS
  <2>5. \A x, v : Effect(<<>>, x, v) = Effect(SubSeq(s, 1, 0), x, v)
    BY <2>3, Zenon
  <2>6. \A i \in 1 .. 0 : NotModel(s[i]) => \E j \in 1 .. Len(<<>>) : <<>>[j] = s[i]
    OBVIOUS
  <2>7. Recovers(<<>>, s, 0, S)
    BY <2>4, <2>5, <2>6, Zenon DEF Recovers
  <2> QED
    BY <2>1, <2>7
<1>5. ASSUME NEW n \in Nat, n \in T PROVE n + 1 \in T
  <2> SUFFICES ASSUME n + 1 <= Len(s) PROVE Recovers(f[n + 1], s, n + 1, S)
    OBVIOUS
  <2>1. n + 1 \in 1 .. Len(s) /\ n + 1 \in 0 .. Len(s) /\ (n + 1) - 1 = n /\ n <= Len(s)
    BY <1>2
  <2>2. Recovers(f[n], s, n, S)
    BY <1>5, <2>1
  <2>3. f[n + 1] = KeptFrom(s, n + 1, f[n])
    BY <1>3, <2>1
  <2>4. Recovers(KeptFrom(s, n + 1, f[n]), s, n + 1, S)
    BY <2>1, <2>2, RecoversStep
  <2> QED
    BY <2>3, <2>4
<1>6. Len(s) \in T
  <2> HIDE DEF T
  <2> QED
    BY <1>2, <1>4, <1>5, Induct
<1> QED
  BY <1>1, <1>2, <1>6

(* All of it: the recovered commands of a ring.                            *)
LEMMA WithoutModelsIs ==
  ASSUME NEW S, NEW s \in Seq(S)
  PROVE  /\ WithoutModels(s) \in Seq(S)
         /\ WithoutModels(s) \in Seq({c \in S : NotModel(c)})
         /\ \A i \in 1 .. Len(s) : NotModel(s[i]) =>
              \E j \in 1 .. Len(WithoutModels(s)) : WithoutModels(s)[j] = s[i]
         /\ \A x, v :
              (\A i \in 1 .. Len(s) : IsModel(s[i]) => ~Touches(s[i], x))
                => Effect(WithoutModels(s), x, v) = Effect(s, x, v)
<1>1. Recovers(WithoutModels(s), s, Len(s), S)
  BY WithoutModelsRecovers
<1>2. SubSeq(s, 1, Len(s)) = s
  BY SubSeqFull
<1>3. {c \in S : NotModel(c)} \subseteq S
  OBVIOUS
<1>4. WithoutModels(s) \in Seq({c \in S : NotModel(c)})
  BY <1>1 DEF Recovers
<1>5. WithoutModels(s) \in Seq(S)
  BY <1>3, <1>4, SeqMonotonic
<1> QED
  BY <1>1, <1>2, <1>4, <1>5 DEF Recovers

-----------------------------------------------------------------------------
(* The channel and the chain.                                              *)

(* Everything in the channel is in S.                                      *)
ChannelOf(S) == ring \in Seq(S) /\ recovered \in Seq(S) /\ replay \in Seq(S)

(* Commands carry what their kind is for.                                  *)
Shape(c) ==
  /\ c.kind = "LoadModel" => c.ir = Keep /\ c.model # Keep
  /\ c.kind = "Params" => c.model = Keep /\ c.ir = Keep
Sane == {c \in Command : Shape(c)}

(* Commands that change nothing, and those that keep the latency l.        *)
Still == {c \in Command : c.model = Keep /\ c.ir = Keep}
Steady(l) == {c \in Command : ~OtherLatency(c, l)}

FullRestore(r) == r.cmd.kind = "RestoreTxn" /\ (r.full => r.cmd.model # Keep)

Shapes ==
  /\ ChannelOf(Sane)
  /\ pending_model # None => pending_model.kind = "LoadModel" /\ Shape(pending_model)
  /\ pending_restore # None => FullRestore(pending_restore)
  /\ staged_restore # None => FullRestore(staged_restore)

(* Where the channel and the chain are, phase by phase.                    *)
Phases ==
  /\ phase = "active" => dsp # None
  /\ phase # "inactive" => sized /\ recovered = <<>>
  /\ phase = "inactive" => replay = <<>> /\ ~parked
  /\ parked => ring # <<>>

(* Before an activation has published a buffer size.                       *)
Unsized ==
  ~sized =>
    /\ staged_restore = None /\ pending_restore = None /\ pending_ir = None
    /\ staged_swap.model = Keep /\ dsp = None
    /\ latency.cabsim = 0
    /\ ChannelOf(Still)

(* The latency of the kept chain is the published one, and nothing that    *)
(* waits changes it.                                                       *)
SameLatency ==
  dsp # None =>
    /\ latency = LatencyOf(dsp)
    /\ "carried" \notin met =>
         /\ ChannelOf(Steady(latency))
         /\ pending_model # None => ~OtherLatency(pending_model, latency)
         /\ pending_restore # None => ~OtherLatency(pending_restore.cmd, latency)
         /\ pending_ir # None => CabsimLatency(pending_ir) = latency.cabsim

CInv == TypeOK /\ Shapes /\ Phases /\ Unsized /\ SameLatency

(* The constants.                                                          *)
LEMMA Constants ==
  /\ Keep \notin ModelOrNone /\ Keep \notin IrOrNone
  /\ NoAsset \in ModelOrNone /\ NoAsset \in IrOrNone
  /\ Models \subseteq ModelOrNone /\ Irs \subseteq IrOrNone
  /\ NoAsset \notin Irs /\ NoAsset \notin Models
  /\ HostRate \in Rates /\ DefaultRate \in Rates /\ 0 \notin Rates
  /\ \A m \in Models : RateOf[m] \in Rates
  /\ None \notin Command /\ None \notin Restore /\ None \notin Chain /\ None \notin Irs
BY AssetAssumption, NoneAssumption DEF ModelOrNone, IrOrNone, Rates

LEMMA SwapTypes == NothingStaged \in StagedSwap
BY Constants DEF NothingStaged, StagedSwap

(* A latency is read component by component.                               *)
LEMMA LatencyTypes ==
  /\ \A d : LatencyOf(d) \in [stream : {0, 1}, cabsim : {0, 1}]
  /\ \A d : LatencyOf(d).stream = StreamLatency(d.rate)
  /\ \A d : LatencyOf(d).cabsim = CabsimLatency(d.ir)
  /\ \A r : StreamLatency(r) \in {0, 1}
  /\ \A i : CabsimLatency(i) \in {0, 1}
BY DEF LatencyOf, StreamLatency, CabsimLatency

(* The commands that requests build.                                       *)
LEMMA CommandTypes ==
  ASSUME ops \in Nat
  PROVE  /\ \A m \in ModelOrNone, r \in Rates :
              /\ ModelCommand(m, r) \in Sane
              /\ ModelCommand(m, r).kind = "LoadModel" /\ ModelCommand(m, r).id = ops + 1
              /\ ModelCommand(m, r).model = m /\ ModelCommand(m, r).rate = r
              /\ ModelCommand(m, r).ir = Keep
         /\ \A i \in IrOrNone :
              /\ IrCommand(i) \in Sane
              /\ IrCommand(i).kind = "LoadCabIr" /\ IrCommand(i).model = Keep
              /\ IrCommand(i).ir = i
         /\ Snapshot \in Sane /\ Snapshot \in Still
         /\ Snapshot.kind = "Params" /\ Snapshot.model = Keep /\ Snapshot.ir = Keep
<1>1. ops + 1 \in Nat /\ 0 \in Nat
  OBVIOUS
<1>2. ASSUME NEW m \in ModelOrNone, NEW r \in Rates
      PROVE  /\ ModelCommand(m, r) \in Sane
             /\ ModelCommand(m, r).kind = "LoadModel" /\ ModelCommand(m, r).id = ops + 1
             /\ ModelCommand(m, r).model = m /\ ModelCommand(m, r).rate = r
             /\ ModelCommand(m, r).ir = Keep
  BY <1>1, Constants DEF ModelCommand, Sane, Command, Shape
<1>3. ASSUME NEW i \in IrOrNone
      PROVE  /\ IrCommand(i) \in Sane
             /\ IrCommand(i).kind = "LoadCabIr" /\ IrCommand(i).model = Keep
             /\ IrCommand(i).ir = i
  BY <1>1, Constants DEF IrCommand, Sane, Command, Shape
<1>4. /\ Snapshot \in Sane /\ Snapshot \in Still
      /\ Snapshot.kind = "Params" /\ Snapshot.model = Keep /\ Snapshot.ir = Keep
  BY <1>1, Constants DEF Snapshot, Sane, Still, Command, Shape
<1> QED
  BY <1>2, <1>3, <1>4

(* The command of a restore.                                               *)
LEMMA RestoreTypes ==
  ASSUME ops \in Nat, NEW full \in BOOLEAN, NEW m \in ModelOrNone, NEW i \in IrOrNone
  PROVE  LET cmd == RestoreCommand(full, m, i)
         IN  /\ cmd \in Sane /\ cmd.kind = "RestoreTxn" /\ cmd.id = ops + 1
             /\ full => cmd.model # Keep
             /\ full => cmd.ir # Keep
             /\ cmd.model \in {Keep, m} /\ cmd.ir \in {Keep, i}
<1>1. ops + 1 \in Nat
  OBVIOUS
<1>2. m # NoAsset => RateOf[m] \in Rates
  BY Constants DEF ModelOrNone
<1>3. (IF m = NoAsset THEN DefaultRate ELSE RateOf[m]) \in Rates
  BY <1>2, Constants
<1> QED
  BY <1>1, <1>3, Constants DEF RestoreCommand, Sane, Command, Shape

LEMMA SaneIs == Sane \subseteq Command /\ Still \subseteq Command
BY DEF Sane, Still

LEMMA SteadyIs == \A l : Steady(l) \subseteq Command /\ Still \subseteq Steady(l)
BY DEF Steady, Still, OtherLatency

(* Replacing a component keeps the types.                                  *)
LEMMA ReplacedTypes ==
  /\ \A a \in ModelOrNone, b \in ModelOrNone \cup {Keep} : Replaced(a, b) \in ModelOrNone
  /\ \A a \in IrOrNone, b \in IrOrNone \cup {Keep} : Replaced(a, b) \in IrOrNone
  /\ \A a \in IrOrNone \cup {Keep}, b \in IrOrNone \cup {Keep} :
       Replaced(a, b) \in IrOrNone \cup {Keep}
BY DEF Replaced

(* Publishing a restore keeps the identities well typed.                   *)
LEMMA PublishedTypes ==
  ASSUME TypeOK, NEW cmd \in Command, NEW full \in BOOLEAN, full => cmd.model # Keep,
         Published(cmd, full)
  PROVE  shown' \in Identity /\ saved' \in ModelOrNone /\ shown_rate' \in Rates \cup {0}
<1>1. /\ cmd.model \in ModelOrNone \cup {Keep} /\ cmd.rate \in Rates
      /\ cmd.ir \in IrOrNone \cup {Keep}
      /\ full => cmd.model \in ModelOrNone
  BY DEF Command
<1>2. /\ shown.model \in ModelOrNone /\ shown.ir \in IrOrNone
      /\ saved \in ModelOrNone /\ shown_rate \in Rates \cup {0}
  BY DEF TypeOK, Identity
<1>3. shown' \in Identity
  BY <1>1, <1>2, ReplacedTypes DEF Published, Identity
<1>4. saved' \in ModelOrNone
  BY <1>1, <1>2 DEF Published
<1>5. shown_rate' \in Rates \cup {0}
  BY <1>1, <1>2 DEF Published
<1> QED
  BY <1>3, <1>4, <1>5

(* Installing a sequence gives a chain, of the same latency if each of its *)
(* commands keeps it.                                                      *)
LEMMA InstallAllTypes ==
  ASSUME NEW d \in Chain, NEW s \in Seq(Command)
  PROVE  InstallAll(d, s) \in Chain
<1>1. Touching(s, "model") # {} =>
        /\ s[Newest(Touching(s, "model"))] \in Command
        /\ s[Newest(Touching(s, "model"))].model # Keep
  BY LastTouch DEF Touches
<1>2. Touching(s, "ir") # {} =>
        /\ s[Newest(Touching(s, "ir"))] \in Command
        /\ s[Newest(Touching(s, "ir"))].ir # Keep
  BY LastTouch DEF Touches
<1>3. /\ InstallAll(d, s).model \in ModelOrNone
      /\ InstallAll(d, s).rate \in Rates
      /\ InstallAll(d, s).ir \in IrOrNone
  BY <1>1, <1>2 DEF InstallAll, Chain, Command
<1>4. InstallAll(d, s) = [model |-> InstallAll(d, s).model, rate |-> InstallAll(d, s).rate,
                          ir |-> InstallAll(d, s).ir]
  BY DEF InstallAll
<1> HIDE DEF InstallAll
<1> QED
  BY <1>3, <1>4 DEF Chain

(* Installing commands that keep the latency keeps it.                     *)
LEMMA InstallAllSteady ==
  ASSUME NEW d, NEW s \in Seq(Steady(LatencyOf(d)))
  PROVE  LatencyOf(InstallAll(d, s)) = LatencyOf(d)
<1>1. Touching(s, "model") # {} =>
        StreamLatency(s[Newest(Touching(s, "model"))].rate) = StreamLatency(d.rate)
  <2> SUFFICES ASSUME Touching(s, "model") # {}
               PROVE  StreamLatency(s[Newest(Touching(s, "model"))].rate) = StreamLatency(d.rate)
    OBVIOUS
  <2> DEFINE c == s[Newest(Touching(s, "model"))]
  <2>1. c \in Steady(LatencyOf(d)) /\ c.model # Keep
    BY LastTouch DEF Touches
  <2> HIDE DEF c
  <2>2. StreamLatency(c.rate) = LatencyOf(d).stream
    BY <2>1 DEF Steady, OtherLatency
  <2> QED
    BY <2>2, LatencyTypes DEF c
<1>2. Touching(s, "ir") # {} =>
        CabsimLatency(s[Newest(Touching(s, "ir"))].ir) = CabsimLatency(d.ir)
  <2> SUFFICES ASSUME Touching(s, "ir") # {}
               PROVE  CabsimLatency(s[Newest(Touching(s, "ir"))].ir) = CabsimLatency(d.ir)
    OBVIOUS
  <2> DEFINE c == s[Newest(Touching(s, "ir"))]
  <2>1. c \in Steady(LatencyOf(d)) /\ c.ir # Keep
    BY LastTouch DEF Touches
  <2> HIDE DEF c
  <2>2. CabsimLatency(c.ir) = LatencyOf(d).cabsim
    BY <2>1 DEF Steady, OtherLatency
  <2> QED
    BY <2>2, LatencyTypes DEF c
<1>3. StreamLatency(InstallAll(d, s).rate) = StreamLatency(d.rate)
  BY <1>1 DEF InstallAll
<1>4. CabsimLatency(InstallAll(d, s).ir) = CabsimLatency(d.ir)
  BY <1>2 DEF InstallAll
<1> QED
  BY <1>3, <1>4, Zenon DEF LatencyOf

-----------------------------------------------------------------------------
(* Every step keeps the types and the chain.                               *)

LEMMA CInit == Init => CInv
<1> SUFFICES ASSUME Init PROVE CInv
  OBVIOUS
<1>1. \A S : <<>> \in Seq(S)
  OBVIOUS
<1>2. TypeOK
  <2>1. shown \in Identity /\ saved \in ModelOrNone
    BY Constants DEF Init, Identity
  <2>2. latency \in [stream : {0, 1}, cabsim : {0, 1}]
    BY DEF Init
  <2>3. hk \in {"idle", "model"} \cup DOMAIN After
    BY DEF Init
  <2> QED
    BY <1>1, <2>1, <2>2, <2>3, SwapTypes DEF Init, TypeOK
<1>3. Shapes /\ Phases /\ SameLatency
  BY <1>1 DEF Init, Shapes, ChannelOf, Phases, SameLatency
<1>4. Unsized
  BY <1>1 DEF Init, Unsized, ChannelOf, NothingStaged
<1> QED
  BY <1>2, <1>3, <1>4 DEF CInv

(* A push to the ring, if there is room.                                   *)
LEMMA PushedTo ==
  ASSUME NEW S, ChannelOf(S), NEW c \in S, ring' = ring \/ ring' = Append(ring, c),
         UNCHANGED <<recovered, replay>>
  PROVE  ring' \in Seq(S) /\ recovered' \in Seq(S) /\ replay' \in Seq(S)
<1>1. Append(ring, c) \in Seq(S)
  BY AppendProperties DEF ChannelOf
<1> QED
  BY <1>1 DEF ChannelOf

LEMMA PushedNotEmpty ==
  ASSUME NEW S, ChannelOf(S), NEW c \in S, ring' = ring \/ ring' = Append(ring, c)
  PROVE  ring # <<>> => ring' # <<>>
BY AppendProperties DEF ChannelOf

LEMMA NotingTypes ==
  /\ \A h \in Hazards : \A b : Noting(h, b) \subseteq Hazards
  /\ \A h, b : h \in Noting(h, b) <=> b
BY DEF Noting

(* An operation counts and only adds to met.                               *)
LEMMA OperationTypes ==
  ASSUME TypeOK, NEW touched, NEW beside, NEW other, other \subseteq Hazards,
         Operation(touched, beside, other)
  PROVE  ops' \in Nat /\ met' \subseteq Hazards /\ met \subseteq met' /\ other \subseteq met'
<1>1. ops' \in Nat
  BY DEF TypeOK, Operation
<1>2. "overtaken" \in Hazards
  BY DEF Hazards
<1> QED
  BY <1>1, <1>2, NotingTypes DEF TypeOK, Operation

LEMMA ShapesFrame ==
  ASSUME Shapes, UNCHANGED <<ring, recovered, replay>>,
         UNCHANGED <<pending_model, pending_restore, staged_restore>>
  PROVE  Shapes'
BY DEF Shapes, ChannelOf

LEMMA PhasesFrame ==
  ASSUME Phases, UNCHANGED <<phase, dsp, sized>>, UNCHANGED <<recovered, replay, parked>>,
         ring # <<>> => ring' # <<>>
  PROVE  Phases'
BY DEF Phases

LEMMA UnsizedFrame ==
  ASSUME Unsized, UNCHANGED <<sized, dsp, latency, ring, recovered, replay>>,
         UNCHANGED <<staged_restore, pending_restore, pending_ir>>,
         staged_swap'.model = staged_swap.model
  PROVE  Unsized'
BY DEF Unsized, ChannelOf

LEMMA SameLatencyFrame ==
  ASSUME SameLatency, UNCHANGED <<dsp, latency, ring, recovered, replay>>,
         UNCHANGED <<pending_model, pending_restore, pending_ir>>, met \subseteq met'
  PROVE  SameLatency'
BY DEF SameLatency, ChannelOf

(* A restore before the first activation: the slot and the staged swap.    *)
LEMMA LocalCommitHolds ==
  ASSUME CInv, NEW cmd \in Sane, NEW full \in BOOLEAN, cmd.kind = "RestoreTxn",
         full => cmd.model # Keep, LocalCommit(cmd, full),
         UNCHANGED <<hk, sized, phase, poison, chain, bounds>>
  PROVE  CInv'
<1>1. /\ UNCHANGED <<hk, sized, phase, poison_flag, poison_restart_requested, dsp, latency>>
      /\ UNCHANGED <<snapshots, failures, panics, restarts>>
      /\ UNCHANGED <<pending_restore, pending_ir, staged_restore, restart>>
      /\ UNCHANGED <<ring, parked, recovered, replay>>
  BY DEF LocalCommit, poison, chain, bounds, channel
<1>2. TypeOK /\ Shapes /\ Phases /\ Unsized /\ SameLatency
  BY DEF CInv
<1>3. ops' \in Nat /\ met' \subseteq Hazards /\ met \subseteq met'
  <2>1. /\ ops' = ops + 1
        /\ met' = met \cup {} \cup Noting("overtaken", \E x \in {} : InSlot(x) \/ (FALSE /\ InChannel(x)))
    BY DEF LocalCommit, Operation
  <2>2. "overtaken" \in Hazards
    BY DEF Hazards
  <2>3. met \subseteq met' /\ met' \subseteq met \cup {"overtaken"}
    BY <2>1 DEF Noting
  <2>4. ops \in Nat /\ met \subseteq Hazards
    BY <1>2 DEF TypeOK
  <2>5. ops' \in Nat
    BY <2>1, <2>4
  <2>6. met' \subseteq Hazards
    <3> HIDE <2>1
    <3> QED
      BY <2>2, <2>3, <2>4
  <2> QED
    BY <2>3, <2>5, <2>6
<1>4. /\ shown' \in Identity /\ saved' \in ModelOrNone /\ shown_rate' \in Rates \cup {0}
  BY <1>2, SaneIs, PublishedTypes DEF LocalCommit
<1> DEFINE load == [cmd EXCEPT !.kind = "LoadModel", !.ir = Keep]
<1>5. cmd.model # Keep => load \in Sane /\ load.kind = "LoadModel"
  BY Constants DEF Sane, Command, Shape
<1>6. pending_model' = pending_model \/ (pending_model' = load /\ cmd.model # Keep)
  BY DEF LocalCommit
<1> HIDE DEF load
<1>7. pending_model' \in Command \cup {None} /\ (pending_model' # None => pending_model'.kind = "LoadModel" /\ Shape(pending_model'))
  BY <1>2, <1>5, <1>6 DEF TypeOK, Shapes, Sane
<1>8. staged_swap' \in StagedSwap /\ staged_swap'.model = staged_swap.model
  <2>1. Replaced(staged_swap.ir, cmd.ir) \in IrOrNone \cup {Keep}
    BY <1>2, ReplacedTypes DEF TypeOK, StagedSwap, Sane, Command
  <2>2. staged_swap' = [staged_swap EXCEPT !.ir = Replaced(staged_swap.ir, cmd.ir)]
    BY DEF LocalCommit
  <2> QED
    BY <1>2, <2>1, <2>2 DEF TypeOK, StagedSwap
<1>9. TypeOK'
  BY <1>1, <1>2, <1>3, <1>4, <1>7, <1>8 DEF TypeOK
<1>10. Shapes'
  BY <1>1, <1>2, <1>7 DEF Shapes, ChannelOf
<1>11. Phases'
  BY <1>1, <1>2, PhasesFrame
<1>12. Unsized'
  BY <1>1, <1>2, <1>8, UnsizedFrame
<1>13. SameLatency'
  <2>1. ~sized
    BY DEF LocalCommit
  <2>2. dsp' = None
    BY <1>1, <1>2, <2>1 DEF Unsized
  <2> QED
    BY <2>2 DEF SameLatency
<1> QED
  BY <1>9, <1>10, <1>11, <1>12, <1>13 DEF CInv

(* A restore at equal latency: it is sent, or waits to be.                 *)
LEMMA ContinuousCommitHolds ==
  ASSUME CInv, NEW cmd \in Sane, NEW full \in BOOLEAN, cmd.kind = "RestoreTxn",
         full => cmd.model # Keep, ContinuousCommit(cmd, full),
         UNCHANGED <<hk, sized, phase, poison, chain, bounds>>
  PROVE  CInv'
<1>1. /\ UNCHANGED <<hk, sized, phase, poison_flag, poison_restart_requested, dsp, latency>>
      /\ UNCHANGED <<snapshots, failures, panics, restarts>>
      /\ UNCHANGED <<pending_model, pending_ir, restart, parked, recovered, replay>>
      /\ UNCHANGED <<shown, shown_rate, saved>>
  BY DEF ContinuousCommit, poison, chain, bounds, identity
<1>2. TypeOK /\ Shapes /\ Phases /\ Unsized /\ SameLatency
  BY DEF CInv
<1>3. CommitHazards \subseteq Hazards
  BY NotingTypes DEF CommitHazards, Hazards
<1>4. ops' \in Nat /\ met' \subseteq Hazards /\ met \subseteq met'
  BY <1>2, <1>3, OperationTypes DEF ContinuousCommit
<1>5. ring' = ring \/ ring' = Append(ring, cmd)
  BY DEF ContinuousCommit
<1>6. staged_restore' = None /\ staged_swap' = NothingStaged /\ staged_swap' \in StagedSwap
  BY SwapTypes DEF ContinuousCommit
<1>7. pending_restore' = [cmd |-> cmd, full |-> full, delivered |-> Room]
  BY DEF ContinuousCommit
<1>8. pending_restore' \in Restore /\ pending_restore'.cmd = cmd /\ pending_restore'.full = full
  <2>1. Room \in BOOLEAN
    BY DEF Room
  <2> QED
    BY <1>7, <2>1, SaneIs DEF Restore
<1>9. cmd \in Command
  BY SaneIs
<1>10. TypeOK'
  <2>1. ring \in Seq(Command)
    BY <1>2 DEF TypeOK
  <2>2. Append(ring, cmd) \in Seq(Command)
    BY <1>9, <2>1, AppendProperties
  <2>3. ring' \in Seq(Command)
    BY <1>5, <2>1, <2>2
  <2> QED
    BY <1>1, <1>2, <1>4, <1>6, <1>8, <2>3 DEF TypeOK
<1>11. Shapes'
  <2>1. ring' \in Seq(Sane) /\ recovered' \in Seq(Sane) /\ replay' \in Seq(Sane)
    BY <1>1, <1>2, <1>5, PushedTo DEF Shapes
  <2>2. FullRestore(pending_restore)'
    BY <1>8 DEF FullRestore
  <2> QED
    BY <1>1, <1>2, <1>6, <2>1, <2>2 DEF Shapes, ChannelOf
<1>12. Phases'
  <2>1. ring # <<>> => ring' # <<>>
    BY <1>2, <1>5, PushedNotEmpty DEF Shapes
  <2> QED
    BY <1>1, <1>2, <2>1, PhasesFrame
<1>13. Unsized'
  BY <1>1 DEF ContinuousCommit, Unsized
<1>14. SameLatency'
  <2>1. ~OtherLatency(cmd, latency) /\ cmd \in Steady(latency)
    BY <1>9 DEF ContinuousCommit, DiffersInLatency, Steady
  <2>2. ChannelOf(Steady(latency)) =>
          /\ ring' \in Seq(Steady(latency)) /\ recovered' \in Seq(Steady(latency))
          /\ replay' \in Seq(Steady(latency))
    BY <1>1, <1>5, <2>1, PushedTo
  <2> QED
    BY <1>1, <1>2, <1>4, <1>8, <2>1, <2>2 DEF SameLatency, ChannelOf
<1> QED
  BY <1>10, <1>11, <1>12, <1>13, <1>14 DEF CInv

(* A restore at another latency: it waits for the restart.                 *)
LEMMA StagedCommitHolds ==
  ASSUME CInv, NEW cmd \in Sane, NEW full \in BOOLEAN, cmd.kind = "RestoreTxn",
         full => cmd.model # Keep, NEW os_differs, StagedCommit(cmd, full, os_differs),
         UNCHANGED <<hk, sized, phase, poison, chain, bounds>>
  PROVE  CInv'
<1>1. /\ UNCHANGED <<hk, sized, phase, poison_flag, poison_restart_requested, dsp, latency>>
      /\ UNCHANGED <<snapshots, failures, panics, restarts>>
      /\ UNCHANGED <<pending_model, pending_restore, pending_ir>>
      /\ UNCHANGED <<ring, parked, recovered, replay, shown, shown_rate, saved>>
  BY DEF StagedCommit, poison, chain, bounds, identity, slots, channel
<1>2. TypeOK /\ Shapes /\ Phases /\ Unsized /\ SameLatency
  BY DEF CInv
<1>3. CommitHazards \subseteq Hazards
  BY NotingTypes DEF CommitHazards, Hazards
<1>4. ops' \in Nat /\ met' \subseteq Hazards /\ met \subseteq met'
  BY <1>2, <1>3, OperationTypes DEF StagedCommit
<1>5. restart' = TRUE /\ staged_swap' = NothingStaged /\ staged_swap' \in StagedSwap
  BY SwapTypes DEF StagedCommit
<1>6. staged_restore' = [cmd |-> cmd, full |-> full, delivered |-> FALSE]
  BY DEF StagedCommit
<1>7. staged_restore' \in Restore /\ staged_restore'.cmd = cmd /\ staged_restore'.full = full
  BY <1>6, SaneIs DEF Restore
<1>8. TypeOK'
  BY <1>1, <1>2, <1>4, <1>5, <1>7 DEF TypeOK
<1>9. Shapes'
  <2>1. FullRestore(staged_restore)'
    BY <1>7 DEF FullRestore
  <2> QED
    BY <1>1, <1>2, <2>1 DEF Shapes, ChannelOf
<1>10. Phases'
  BY <1>1, <1>2, PhasesFrame
<1>11. Unsized'
  BY <1>1 DEF StagedCommit, Unsized
<1>12. SameLatency'
  BY <1>1, <1>2, <1>4, SameLatencyFrame
<1> QED
  BY <1>8, <1>9, <1>10, <1>11, <1>12 DEF CInv

LEMMA CommitHolds == CInv /\ Commit => CInv'
<1> SUFFICES ASSUME CInv, Commit PROVE CInv'
  OBVIOUS
<1>1. PICK full \in BOOLEAN, m \in ModelOrNone, i \in IrOrNone :
        LET cmd == RestoreCommand(full, m, i)
        IN  \/ LocalCommit(cmd, full)
            \/ ContinuousCommit(cmd, full)
            \/ \E os_differs \in BOOLEAN : StagedCommit(cmd, full, os_differs)
  BY DEF Commit
<1>2. UNCHANGED <<hk, sized, phase, poison, chain, bounds>>
  BY DEF Commit
<1> DEFINE cmd == RestoreCommand(full, m, i)
<1>3. ops \in Nat
  BY DEF CInv, TypeOK
<1>4. cmd \in Sane /\ cmd.kind = "RestoreTxn" /\ (full => cmd.model # Keep)
  BY <1>3, RestoreTypes
<1>5. \/ LocalCommit(cmd, full)
      \/ ContinuousCommit(cmd, full)
      \/ \E os_differs \in BOOLEAN : StagedCommit(cmd, full, os_differs)
  BY <1>1
<1> HIDE DEF cmd
<1>6. CASE LocalCommit(cmd, full)
  BY <1>2, <1>4, <1>6, LocalCommitHolds
<1>7. CASE ContinuousCommit(cmd, full)
  BY <1>2, <1>4, <1>7, ContinuousCommitHolds
<1>8. ASSUME NEW os_differs \in BOOLEAN, StagedCommit(cmd, full, os_differs) PROVE CInv'
  BY <1>2, <1>4, <1>8, StagedCommitHolds
<1> QED
  BY <1>5, <1>6, <1>7, <1>8

LEMMA RedeliverRestoreHolds == CInv /\ RedeliverRestore => CInv'
<1> SUFFICES ASSUME CInv, RedeliverRestore PROVE CInv'
  OBVIOUS
<1>1. /\ UNCHANGED <<ops, sized, pending_model, pending_ir, parked, recovered, replay>>
      /\ UNCHANGED <<phase, poison_flag, poison_restart_requested, dsp, latency, met>>
      /\ UNCHANGED <<snapshots, failures, panics, restarts, shown, shown_rate, saved>>
      /\ UNCHANGED <<staged_swap, staged_restore, restart>>
      /\ hk' = "model"
  BY DEF RedeliverRestore, poison, chain, bounds, identity, staging
<1>2. TypeOK /\ Shapes /\ Phases /\ Unsized /\ SameLatency
  BY DEF CInv
<1> DEFINE cmd == pending_restore.cmd
<1>3. pending_restore # None /\ pending_restore \in Restore /\ FullRestore(pending_restore)
  BY <1>2 DEF RedeliverRestore, RestoreToPush, TypeOK, Shapes
<1>4. cmd \in Command /\ cmd \in Sane
  BY <1>3 DEF Restore, FullRestore, Sane, Shape
<1>5. ring' = ring \/ ring' = Append(ring, cmd)
  BY DEF RedeliverRestore
<1>6. /\ pending_restore' \in Restore /\ pending_restore'.cmd = cmd
      /\ pending_restore'.full = pending_restore.full
  <2>1. Room \in BOOLEAN
    BY DEF Room
  <2> QED
    BY <1>3, <2>1 DEF RedeliverRestore, Restore
<1> HIDE DEF cmd
<1>7. TypeOK'
  <2>1. ring \in Seq(Command)
    BY <1>2 DEF TypeOK
  <2>2. Append(ring, cmd) \in Seq(Command)
    BY <1>4, <2>1, AppendProperties
  <2>3. ring' \in Seq(Command)
    BY <1>5, <2>1, <2>2
  <2> QED
    BY <1>1, <1>2, <1>6, <2>3 DEF TypeOK
<1>8. Shapes'
  <2>1. ring' \in Seq(Sane) /\ recovered' \in Seq(Sane) /\ replay' \in Seq(Sane)
    BY <1>1, <1>2, <1>4, <1>5, PushedTo DEF Shapes
  <2>2. FullRestore(pending_restore)'
    BY <1>3, <1>6 DEF FullRestore, cmd
  <2> QED
    BY <1>1, <1>2, <2>1, <2>2 DEF Shapes, ChannelOf
<1>9. Phases'
  <2>1. ring # <<>> => ring' # <<>>
    BY <1>2, <1>4, <1>5, PushedNotEmpty DEF Shapes
  <2> QED
    BY <1>1, <1>2, <2>1, PhasesFrame
<1>10. Unsized'
  BY <1>1, <1>2, <1>3 DEF Unsized
<1>11. SameLatency'
  <2>1. dsp # None /\ "carried" \notin met => cmd \in Steady(latency)
    BY <1>2, <1>3, <1>4 DEF SameLatency, Steady, cmd
  <2>2. ChannelOf(Steady(latency)) /\ cmd \in Steady(latency) =>
          /\ ring' \in Seq(Steady(latency)) /\ recovered' \in Seq(Steady(latency))
          /\ replay' \in Seq(Steady(latency))
    BY <1>1, <1>5, PushedTo
  <2> QED
    BY <1>1, <1>2, <1>3, <1>6, <2>1, <2>2 DEF SameLatency, ChannelOf, cmd
<1> QED
  BY <1>7, <1>8, <1>9, <1>10, <1>11 DEF CInv

LEMMA PublishRestoreHolds == CInv /\ PublishRestore => CInv'
<1> SUFFICES ASSUME CInv, PublishRestore PROVE CInv'
  OBVIOUS
<1>1. /\ UNCHANGED <<ops, sized, pending_model, pending_ir, ring, parked, recovered, replay>>
      /\ UNCHANGED <<phase, poison_flag, poison_restart_requested, dsp, latency, met>>
      /\ UNCHANGED <<snapshots, failures, panics, restarts>>
      /\ UNCHANGED <<staged_swap, staged_restore, restart>>
      /\ hk' = "model" /\ pending_restore' = None
  BY DEF PublishRestore, poison, chain, bounds, channel, staging
<1>2. TypeOK /\ Shapes /\ Phases /\ Unsized /\ SameLatency
  BY DEF CInv
<1>3. pending_restore # None /\ pending_restore \in Restore /\ FullRestore(pending_restore)
  BY <1>2 DEF PublishRestore, RestoreAcked, TypeOK, Shapes
<1>4. /\ pending_restore.cmd \in Command /\ pending_restore.full \in BOOLEAN
      /\ pending_restore.full => pending_restore.cmd.model # Keep
  BY <1>3 DEF Restore, FullRestore
<1>5. shown' \in Identity /\ saved' \in ModelOrNone /\ shown_rate' \in Rates \cup {0}
  BY <1>2, <1>4, PublishedTypes DEF PublishRestore
<1>6. TypeOK'
  BY <1>1, <1>2, <1>5 DEF TypeOK
<1>7. Shapes'
  BY <1>1, <1>2 DEF Shapes, ChannelOf
<1>8. Phases'
  BY <1>1, <1>2, PhasesFrame
<1>9. Unsized'
  BY <1>1, <1>2 DEF Unsized, ChannelOf
<1>10. SameLatency'
  BY <1>1, <1>2 DEF SameLatency, ChannelOf
<1> QED
  BY <1>6, <1>7, <1>8, <1>9, <1>10 DEF CInv

(* Steps of housekeeping() that find nothing to do.                        *)
LEMMA IdleStepsHold == CInv /\ (NoRestoreToFlush \/ NothingRequested) => CInv'
<1> SUFFICES ASSUME CInv, NoRestoreToFlush \/ NothingRequested PROVE CInv'
  OBVIOUS
<1>1. UNCHANGED <<ops, sized, slots, staging, identity, channel, chain, phase, poison, bounds, met>>
  BY DEF NoRestoreToFlush, NothingRequested
<1>2. /\ UNCHANGED <<ops, sized, pending_model, pending_restore, pending_ir, met>>
      /\ UNCHANGED <<ring, parked, recovered, replay>>
      /\ UNCHANGED <<phase, poison_flag, poison_restart_requested, dsp, latency>>
      /\ UNCHANGED <<snapshots, failures, panics, restarts, shown, shown_rate, saved>>
      /\ UNCHANGED <<staged_swap, staged_restore, restart>>
  BY <1>1 DEF poison, chain, bounds, channel, staging, slots, identity
<1>3. hk' \in {"idle", "model"} \cup DOMAIN After
  <2>1. CASE NoRestoreToFlush
    BY <2>1 DEF NoRestoreToFlush
  <2>2. CASE NothingRequested
    BY <2>2 DEF NothingRequested, After
  <2> QED
    BY <2>1, <2>2
<1>4. TypeOK /\ Shapes /\ Phases /\ Unsized /\ SameLatency
  BY DEF CInv
<1>5. TypeOK'
  BY <1>2, <1>3, <1>4 DEF TypeOK
<1>6. Shapes' /\ Phases' /\ Unsized' /\ SameLatency'
  BY <1>2, <1>4, ShapesFrame, PhasesFrame, UnsizedFrame, SameLatencyFrame
<1> QED
  BY <1>4, <1>5, <1>6 DEF CInv

LEMMA FlushPendingModelHolds == CInv /\ FlushPendingModel => CInv'
<1> SUFFICES ASSUME CInv, FlushPendingModel PROVE CInv'
  OBVIOUS
<1>1. /\ UNCHANGED <<ops, sized, pending_restore, pending_ir, parked, recovered, replay>>
      /\ UNCHANGED <<phase, poison_flag, dsp, latency, met>>
      /\ UNCHANGED <<snapshots, failures, panics, restarts, shown, shown_rate, saved>>
      /\ UNCHANGED <<staged_swap, staged_restore>>
      /\ hk' = "load" /\ poison_restart_requested' = poison_flag
  BY DEF FlushPendingModel, chain, bounds, identity
<1>2. TypeOK /\ Shapes /\ Phases /\ Unsized /\ SameLatency
  BY DEF CInv
<1>3. restart' \in BOOLEAN
  BY DEF FlushPendingModel
<1>4. \/ ring' = ring /\ pending_model' = pending_model
      \/ sized /\ pending_model # None /\ ring' = Append(ring, pending_model) /\ pending_model' = None
  BY DEF FlushPendingModel, Flushes
<1>5. pending_model # None => pending_model \in Command /\ pending_model \in Sane
  BY <1>2 DEF TypeOK, Shapes, Sane
<1>6. CASE ring' = ring /\ pending_model' = pending_model
  <2>1. TypeOK'
    BY <1>1, <1>2, <1>3, <1>6 DEF TypeOK, After
  <2>2. Shapes' /\ Phases' /\ Unsized' /\ SameLatency'
    BY <1>1, <1>2, <1>6, ShapesFrame, PhasesFrame, UnsizedFrame, SameLatencyFrame
  <2> QED
    BY <2>1, <2>2 DEF CInv
<1>7. CASE sized /\ pending_model # None /\ ring' = Append(ring, pending_model) /\ pending_model' = None
  <2>1. TypeOK'
    <3>1. ring \in Seq(Command)
      BY <1>2 DEF TypeOK
    <3>2. ring' \in Seq(Command)
      BY <1>5, <1>7, <3>1, AppendProperties
    <3> QED
      BY <1>1, <1>2, <1>3, <1>7, <3>2 DEF TypeOK, After
  <2>2. Shapes'
    <3>1. ring' \in Seq(Sane) /\ recovered' \in Seq(Sane) /\ replay' \in Seq(Sane)
      BY <1>1, <1>2, <1>5, <1>7, PushedTo DEF Shapes
    <3> QED
      BY <1>1, <1>2, <1>7, <3>1 DEF Shapes, ChannelOf
  <2>3. Phases'
    <3>1. ring # <<>> => ring' # <<>>
      BY <1>2, <1>5, <1>7, PushedNotEmpty DEF Shapes
    <3> QED
      BY <1>1, <1>2, <3>1, PhasesFrame
  <2>4. Unsized'
    BY <1>1, <1>7 DEF Unsized
  <2>5. SameLatency'
    <3>1. dsp # None /\ "carried" \notin met => pending_model \in Steady(latency)
      BY <1>2, <1>5, <1>7 DEF SameLatency, Steady
    <3>2. ChannelOf(Steady(latency)) /\ pending_model \in Steady(latency) =>
            /\ ring' \in Seq(Steady(latency)) /\ recovered' \in Seq(Steady(latency))
            /\ replay' \in Seq(Steady(latency))
      BY <1>1, <1>7, PushedTo
    <3> QED
      BY <1>1, <1>2, <1>7, <3>1, <3>2 DEF SameLatency, ChannelOf
  <2> QED
    BY <2>1, <2>2, <2>3, <2>4, <2>5 DEF CInv
<1> QED
  BY <1>4, <1>6, <1>7

(* A model command is sent, waits in its slot or is staged.                *)
LEMMA DeliverModelHolds ==
  ASSUME CInv, NEW cmd \in Sane, cmd.kind = "LoadModel", DeliverModel(cmd),
         UNCHANGED <<sized, phase, dsp, latency>>, met \subseteq met'
  PROVE  /\ pending_model' \in Command \cup {None}
         /\ pending_restore' \in Restore \cup {None} /\ pending_ir' \in Irs \cup {None}
         /\ staged_swap' \in StagedSwap
         /\ staged_restore' \in Restore \cup {None} /\ restart' \in BOOLEAN
         /\ ring' \in Seq(Command) /\ recovered' \in Seq(Command) /\ replay' \in Seq(Command)
         /\ parked' \in BOOLEAN
         /\ Shapes' /\ Phases' /\ Unsized' /\ SameLatency'
<1>1. UNCHANGED <<pending_restore, pending_ir, parked, recovered, replay>>
  BY DEF DeliverModel
<1>2. TypeOK /\ Shapes /\ Phases /\ Unsized /\ SameLatency
  BY DEF CInv
<1>3. cmd \in Command /\ Shape(cmd)
  BY DEF Sane
<1>4. ring' = ring \/ (ring' = Append(ring, cmd) /\ sized /\ SameStream(cmd.rate))
  BY DEF DeliverModel
<1>5. \/ pending_model' = pending_model
      \/ pending_model' = cmd /\ (~sized \/ SameStream(cmd.rate))
  BY DEF DeliverModel
<1>6. staged_restore' \in {staged_restore, None}
  BY DEF DeliverModel
<1>7. restart' \in BOOLEAN
  BY DEF DeliverModel
<1>8. staged_swap' \in StagedSwap /\ (~sized => staged_swap' = staged_swap)
  <2>1. CASE ~sized
    BY <1>2, <2>1 DEF DeliverModel, TypeOK
  <2>2. CASE sized
    <3>1. /\ staged_swap \in StagedSwap /\ cmd.model \in ModelOrNone \cup {Keep} /\ cmd.rate \in Rates
      BY <1>2, <1>3 DEF TypeOK, Command
    <3>2. \E a \in ModelOrNone \cup {Keep}, b \in Rates :
            staged_swap' = [staged_swap EXCEPT !.model = a, !.rate = b]
      BY <2>2, <3>1, Constants DEF DeliverModel
    <3> QED
      BY <2>2, <3>1, <3>2 DEF StagedSwap
  <2> QED
    BY <2>1, <2>2
<1>9. ring' \in Seq(Command)
  <2>1. ring \in Seq(Command)
    BY <1>2 DEF TypeOK
  <2>2. Append(ring, cmd) \in Seq(Command)
    BY <1>3, <2>1, AppendProperties
  <2> QED
    BY <1>4, <2>1, <2>2
<1>10. Shapes'
  <2>1. ring' \in Seq(Sane) /\ recovered' \in Seq(Sane) /\ replay' \in Seq(Sane)
    BY <1>1, <1>2, <1>4, PushedTo DEF Shapes
  <2> QED
    BY <1>1, <1>2, <1>3, <1>5, <1>6, <2>1 DEF Shapes, ChannelOf
<1>11. Phases'
  <2>1. ring # <<>> => ring' # <<>>
    BY <1>2, <1>4, PushedNotEmpty DEF Shapes
  <2> QED
    BY <1>1, <1>2, <2>1, PhasesFrame
<1>12. Unsized'
  BY <1>1, <1>2, <1>4, <1>6, <1>8 DEF Unsized, ChannelOf
<1>13. SameLatency'
  <2>1. SameStream(cmd.rate) => ~OtherLatency(cmd, latency) /\ cmd \in Steady(latency)
    BY <1>3 DEF SameStream, OtherLatency, Steady, Shape
  <2>2. ChannelOf(Steady(latency)) =>
          /\ ring' \in Seq(Steady(latency)) /\ recovered' \in Seq(Steady(latency))
          /\ replay' \in Seq(Steady(latency))
    <3>1. CASE ring' = ring
      BY <1>1, <3>1 DEF ChannelOf
    <3>2. CASE ring' = Append(ring, cmd) /\ SameStream(cmd.rate)
      BY <1>1, <2>1, <3>2, PushedTo
    <3> QED
      BY <1>4, <3>1, <3>2
  <2>3. dsp # None => sized
    BY <1>2 DEF Unsized
  <2> QED
    BY <1>1, <1>2, <1>5, <2>1, <2>2, <2>3 DEF SameLatency, ChannelOf
<1> QED
  BY <1>1, <1>2, <1>5, <1>3, <1>6, <1>7, <1>8, <1>9, <1>10, <1>11, <1>12, <1>13 DEF TypeOK

LEMMA LoadModelHolds == CInv /\ LoadModel => CInv'
<1> SUFFICES ASSUME CInv, LoadModel PROVE CInv'
  OBVIOUS
<1>1. PICK m \in Models :
       /\ Operation({"model"}, ~SameStream(RateOf[m]), {})
       /\ DeliverModel(ModelCommand(m, RateOf[m]))
       /\ shown' = [shown EXCEPT !.model = m]
       /\ shown_rate' = RateOf[m]
       /\ saved' = m
  BY DEF LoadModel
<1>2. /\ UNCHANGED <<sized, phase, dsp, latency, poison_flag, poison_restart_requested>>
      /\ UNCHANGED <<snapshots, failures, panics, restarts>>
      /\ hk' \in {"load", "ir"}
  BY DEF LoadModel, chain, poison, bounds
<1>3. TypeOK
  BY DEF CInv
<1>4. ops' \in Nat /\ met' \subseteq Hazards /\ met \subseteq met'
  <2>1. ops \in Nat /\ met \subseteq Hazards /\ "overtaken" \in Hazards
    BY <1>3 DEF TypeOK, Hazards
  <2>2. ops' = ops + 1 /\ met' \subseteq met \cup {"overtaken"} /\ met \subseteq met'
    BY <1>1 DEF Operation, Noting
  <2> QED
    BY <2>1, <2>2
<1>5. ModelCommand(m, RateOf[m]) \in Sane /\ ModelCommand(m, RateOf[m]).kind = "LoadModel"
  <2>1. m \in ModelOrNone /\ RateOf[m] \in Rates /\ ops \in Nat
    BY <1>3, Constants DEF TypeOK
  <2> QED
    BY <2>1, CommandTypes
<1>6. shown' \in Identity /\ saved' \in ModelOrNone /\ shown_rate' \in Rates \cup {0}
  <2>1. m \in ModelOrNone /\ RateOf[m] \in Rates
    BY Constants
  <2> QED
    BY <1>1, <1>3, <2>1 DEF TypeOK, Identity
<1> DEFINE cmd == ModelCommand(m, RateOf[m])
<1>7. DeliverModel(cmd) /\ cmd \in Sane /\ cmd.kind = "LoadModel"
  BY <1>1, <1>5
<1> HIDE DEF cmd
<1>8. /\ pending_model' \in Command \cup {None}
      /\ pending_restore' \in Restore \cup {None} /\ pending_ir' \in Irs \cup {None}
      /\ staged_swap' \in StagedSwap
      /\ staged_restore' \in Restore \cup {None} /\ restart' \in BOOLEAN
      /\ ring' \in Seq(Command) /\ recovered' \in Seq(Command) /\ replay' \in Seq(Command)
      /\ parked' \in BOOLEAN
      /\ Shapes' /\ Phases' /\ Unsized' /\ SameLatency'
  BY <1>2, <1>4, <1>7, DeliverModelHolds
<1>9. TypeOK'
  BY <1>2, <1>3, <1>4, <1>6, <1>8 DEF TypeOK, After
<1> QED
  BY <1>8, <1>9 DEF CInv

LEMMA ClearModelHolds == CInv /\ ClearModel => CInv'
<1> SUFFICES ASSUME CInv, ClearModel PROVE CInv'
  OBVIOUS
<1> DEFINE cmd == ModelCommand(NoAsset, IF sized THEN HostRate ELSE DefaultRate)
<1>1. /\ UNCHANGED <<sized, phase, dsp, latency, poison_flag, poison_restart_requested>>
      /\ UNCHANGED <<snapshots, failures, panics, restarts>>
      /\ hk' = "idle"
  BY DEF ClearModel, chain, poison, bounds
<1>2. TypeOK
  BY DEF CInv
<1>3. ops' \in Nat /\ met' \subseteq Hazards /\ met \subseteq met'
  <2>1. ops \in Nat /\ met \subseteq Hazards /\ "overtaken" \in Hazards
    BY <1>2 DEF TypeOK, Hazards
  <2>2. ops' = ops + 1 /\ met' \subseteq met \cup {"overtaken"} /\ met \subseteq met'
    BY DEF ClearModel, Operation, Noting
  <2> QED
    BY <2>1, <2>2
<1>4. DeliverModel(cmd) /\ cmd \in Sane /\ cmd.kind = "LoadModel"
  <2>1. NoAsset \in ModelOrNone /\ (IF sized THEN HostRate ELSE DefaultRate) \in Rates /\ ops \in Nat
    BY <1>2, Constants DEF TypeOK
  <2> QED
    BY <2>1, CommandTypes DEF ClearModel
<1> HIDE DEF cmd
<1>5. shown' \in Identity /\ saved' \in ModelOrNone /\ shown_rate' \in Rates \cup {0}
  BY <1>2, Constants DEF TypeOK, Identity, ClearModel, ModelCleared
<1>6. /\ pending_model' \in Command \cup {None}
      /\ pending_restore' \in Restore \cup {None} /\ pending_ir' \in Irs \cup {None}
      /\ staged_swap' \in StagedSwap
      /\ staged_restore' \in Restore \cup {None} /\ restart' \in BOOLEAN
      /\ ring' \in Seq(Command) /\ recovered' \in Seq(Command) /\ replay' \in Seq(Command)
      /\ parked' \in BOOLEAN
      /\ Shapes' /\ Phases' /\ Unsized' /\ SameLatency'
  BY <1>1, <1>3, <1>4, DeliverModelHolds
<1>7. TypeOK'
  BY <1>1, <1>2, <1>3, <1>5, <1>6 DEF TypeOK, After
<1> QED
  BY <1>6, <1>7 DEF CInv

LEMMA ClearModelFailsHolds == CInv /\ ClearModelFails => CInv'
<1> SUFFICES ASSUME CInv, ClearModelFails PROVE CInv'
  OBVIOUS
<1>1. /\ UNCHANGED <<sized, pending_model, pending_restore, pending_ir>>
      /\ UNCHANGED <<ring, parked, recovered, replay>>
      /\ UNCHANGED <<phase, poison_flag, poison_restart_requested, dsp, latency>>
      /\ UNCHANGED <<snapshots, panics, restarts>>
      /\ UNCHANGED <<staged_swap, staged_restore, restart>>
      /\ hk' = "idle" /\ failures' = failures + 1
  BY DEF ClearModelFails, poison, chain, channel, staging, slots
<1>2. TypeOK /\ Shapes /\ Phases /\ Unsized /\ SameLatency
  BY DEF CInv
<1>3. ops' \in Nat /\ met' \subseteq Hazards /\ met \subseteq met' /\ failures' \in Nat
  <2>1. /\ ops \in Nat /\ met \subseteq Hazards /\ "overtaken" \in Hazards
        /\ "clear_failed" \in Hazards /\ failures \in Nat
    BY <1>2 DEF TypeOK, Hazards
  <2>2. ops' = ops + 1 /\ met' \subseteq met \cup {"overtaken", "clear_failed"} /\ met \subseteq met'
    BY DEF ClearModelFails, Operation, Noting
  <2> QED
    BY <1>1, <2>1, <2>2
<1>4. shown' \in Identity /\ saved' \in ModelOrNone /\ shown_rate' \in Rates \cup {0}
  BY <1>2, Constants DEF TypeOK, Identity, ClearModelFails, ModelCleared
<1>5. TypeOK'
  BY <1>1, <1>2, <1>3, <1>4 DEF TypeOK
<1>6. Shapes' /\ Phases' /\ Unsized' /\ SameLatency'
  BY <1>1, <1>2, <1>3, ShapesFrame, PhasesFrame, UnsizedFrame, SameLatencyFrame
<1> QED
  BY <1>5, <1>6 DEF CInv

(* An IR is sent, waits to be sent again, is staged, or left to activate().*)
LEMMA LoadIrHolds ==
  ASSUME CInv, NEW i \in Irs, LoadIrActive(i) \/ LoadIrInactive(i),
         UNCHANGED <<sized, pending_model, pending_restore, parked, recovered, replay>>,
         UNCHANGED <<phase, dsp, latency>>, met \subseteq met'
  PROVE  /\ pending_ir' \in Irs \cup {None} /\ staged_swap' \in StagedSwap
         /\ staged_restore' \in Restore \cup {None} /\ restart' \in BOOLEAN
         /\ ring' \in Seq(Command)
         /\ shown' \in Identity /\ saved' \in ModelOrNone /\ shown_rate' = shown_rate
         /\ Shapes' /\ Phases' /\ Unsized' /\ SameLatency'
<1>2. TypeOK /\ Shapes /\ Phases /\ Unsized /\ SameLatency
  BY DEF CInv
<1> DEFINE cmd == IrCommand(i)
<1>3. /\ cmd \in Sane /\ cmd \in Command /\ cmd.model = Keep /\ cmd.ir = i
  <2>1. ops \in Nat /\ i \in IrOrNone
    BY <1>2, Constants DEF TypeOK
  <2> QED
    BY <2>1, CommandTypes, SaneIs
<1>4. ring' = ring \/ (ring' = Append(ring, cmd) /\ SameCabsim(i))
  BY DEF LoadIrActive, LoadIrInactive
<1> HIDE DEF cmd
<1>5. pending_ir' = None \/ (pending_ir' = i /\ SameCabsim(i))
  BY DEF LoadIrActive, LoadIrInactive
<1>6. staged_restore' \in {staged_restore, None}
  BY DEF LoadIrActive, LoadIrInactive, staging
<1>7. restart' \in BOOLEAN
  BY <1>2 DEF LoadIrActive, LoadIrInactive, staging, TypeOK
<1>8. staged_swap' \in StagedSwap /\ staged_swap'.model = staged_swap.model
  <2>1. i \in IrOrNone \cup {Keep} /\ staged_swap \in StagedSwap
    BY <1>2, Constants DEF TypeOK
  <2>2. \E a \in IrOrNone \cup {Keep} :
          staged_swap' = [staged_swap EXCEPT !.ir = a] \/ staged_swap' = staged_swap
    BY <2>1, Constants DEF LoadIrActive, LoadIrInactive, staging
  <2> QED
    BY <2>1, <2>2 DEF StagedSwap
<1>9. shown' \in Identity /\ saved' \in ModelOrNone /\ shown_rate' = shown_rate
  <2>1. i \in IrOrNone /\ shown \in Identity /\ saved \in ModelOrNone
    BY <1>2, Constants DEF TypeOK
  <2>2. \/ UNCHANGED <<shown, saved, shown_rate>>
        \/ /\ shown' = [shown EXCEPT !.ir = i]
           /\ UNCHANGED <<saved, shown_rate>>
    BY DEF LoadIrActive, LoadIrInactive, ShowIr, identity
  <2> QED
    BY <2>1, <2>2 DEF Identity
<1>10. ring' \in Seq(Command)
  <2>1. ring \in Seq(Command)
    BY <1>2 DEF TypeOK
  <2>2. Append(ring, cmd) \in Seq(Command)
    BY <1>3, <2>1, AppendProperties
  <2> QED
    BY <1>4, <2>1, <2>2
<1>11. Shapes'
  <2>1. ring' \in Seq(Sane) /\ recovered' \in Seq(Sane) /\ replay' \in Seq(Sane)
    BY <1>2, <1>3, <1>4, PushedTo DEF Shapes
  <2> QED
    BY <1>2, <1>6, <2>1 DEF Shapes, ChannelOf
<1>12. Phases'
  <2>1. ring # <<>> => ring' # <<>>
    BY <1>2, <1>3, <1>4, PushedNotEmpty DEF Shapes
  <2> QED
    BY <1>2, <2>1, PhasesFrame
<1>13. Unsized'
  <2>1. ~sized => ring' = ring /\ pending_ir' = None
    BY <1>2 DEF LoadIrActive, LoadIrInactive, Phases
  <2> QED
    BY <1>2, <1>6, <1>8, <2>1 DEF Unsized, ChannelOf
<1>14. SameLatency'
  <2>1. SameCabsim(i) => CabsimLatency(i) = latency.cabsim /\ cmd \in Steady(latency)
    BY <1>3 DEF SameCabsim, OtherLatency, Steady
  <2>2. ChannelOf(Steady(latency)) =>
          /\ ring' \in Seq(Steady(latency)) /\ recovered' \in Seq(Steady(latency))
          /\ replay' \in Seq(Steady(latency))
    <3>1. CASE ring' = ring
      BY <3>1 DEF ChannelOf
    <3>2. CASE ring' = Append(ring, cmd) /\ SameCabsim(i)
      BY <2>1, <3>2, PushedTo
    <3> QED
      BY <1>4, <3>1, <3>2
  <2> QED
    BY <1>2, <1>5, <2>1, <2>2 DEF SameLatency, ChannelOf
<1> QED
  BY <1>2, <1>5, <1>6, <1>7, <1>8, <1>9, <1>10, <1>11, <1>12, <1>13, <1>14 DEF TypeOK

LEMMA LoadIrStepHolds == CInv /\ LoadIr => CInv'
<1> SUFFICES ASSUME CInv, LoadIr PROVE CInv'
  OBVIOUS
<1>1. PICK i \in Irs :
       /\ Operation({"ir"}, phase = "inactive" \/ ~SameCabsim(i), IrInactive)
       /\ LoadIrActive(i) \/ LoadIrInactive(i)
  BY DEF LoadIr
<1>2. /\ UNCHANGED <<sized, pending_model, pending_restore, parked, recovered, replay>>
      /\ UNCHANGED <<phase, dsp, latency, poison_flag, poison_restart_requested>>
      /\ UNCHANGED <<snapshots, failures, panics, restarts>>
      /\ hk' = "clear_ir"
  BY DEF LoadIr, chain, poison, bounds
<1>3. TypeOK
  BY DEF CInv
<1>4. ops' \in Nat /\ met' \subseteq Hazards /\ met \subseteq met'
  <2>1. ops \in Nat /\ met \subseteq Hazards /\ {"overtaken", "ir_inactive"} \subseteq Hazards
    BY <1>3 DEF TypeOK, Hazards
  <2>2. ops' = ops + 1 /\ met' \subseteq met \cup {"overtaken", "ir_inactive"} /\ met \subseteq met'
    BY <1>1 DEF Operation, Noting, IrInactive
  <2> QED
    BY <2>1, <2>2
<1>5. /\ pending_ir' \in Irs \cup {None} /\ staged_swap' \in StagedSwap
      /\ staged_restore' \in Restore \cup {None} /\ restart' \in BOOLEAN
      /\ ring' \in Seq(Command)
      /\ shown' \in Identity /\ saved' \in ModelOrNone /\ shown_rate' = shown_rate
      /\ Shapes' /\ Phases' /\ Unsized' /\ SameLatency'
  BY <1>1, <1>2, <1>4, LoadIrHolds
<1>6. TypeOK'
  BY <1>2, <1>3, <1>4, <1>5 DEF TypeOK, After
<1> QED
  BY <1>5, <1>6 DEF CInv

LEMMA RetryIrHolds == CInv /\ RetryIr => CInv'
<1> SUFFICES ASSUME CInv, RetryIr PROVE CInv'
  OBVIOUS
<1>1. LoadIrActive(pending_ir) \/ LoadIrInactive(pending_ir)
  BY DEF RetryIr
<1>2. /\ UNCHANGED <<ops, sized, pending_model, pending_restore, parked, recovered, replay>>
      /\ UNCHANGED <<phase, dsp, latency, poison_flag, poison_restart_requested>>
      /\ UNCHANGED <<snapshots, failures, panics, restarts>>
      /\ hk' = "clear_ir"
  BY DEF RetryIr, chain, poison, bounds
<1>3. TypeOK
  BY DEF CInv
<1>4. met' \subseteq Hazards /\ met \subseteq met'
  <2>1. met \subseteq Hazards /\ "ir_inactive" \in Hazards
    BY <1>3 DEF TypeOK, Hazards
  <2>2. met' \subseteq met \cup {"ir_inactive"} /\ met \subseteq met'
    BY DEF RetryIr, Noting, IrInactive
  <2> QED
    BY <2>1, <2>2
<1>5. pending_ir \in Irs
  BY <1>3 DEF TypeOK, RetryIr
<1>6. /\ pending_ir' \in Irs \cup {None} /\ staged_swap' \in StagedSwap
      /\ staged_restore' \in Restore \cup {None} /\ restart' \in BOOLEAN
      /\ ring' \in Seq(Command)
      /\ shown' \in Identity /\ saved' \in ModelOrNone /\ shown_rate' = shown_rate
      /\ Shapes' /\ Phases' /\ Unsized' /\ SameLatency'
  BY <1>1, <1>2, <1>4, <1>5, LoadIrHolds
<1>7. TypeOK'
  BY <1>2, <1>3, <1>4, <1>6 DEF TypeOK, After
<1> QED
  BY <1>6, <1>7 DEF CInv

LEMMA ClearIrHolds == CInv /\ ClearIr => CInv'
<1> SUFFICES ASSUME CInv, ClearIr PROVE CInv'
  OBVIOUS
<1>1. /\ UNCHANGED <<sized, pending_model, pending_restore, pending_ir, staged_restore>>
      /\ UNCHANGED <<ring, parked, recovered, replay, shown_rate, saved>>
      /\ UNCHANGED <<phase, dsp, latency, poison_flag, poison_restart_requested>>
      /\ UNCHANGED <<snapshots, failures, panics, restarts>>
      /\ hk' = "clear_model" /\ restart' = TRUE
  BY DEF ClearIr, chain, poison, bounds, slots, channel
<1>2. TypeOK /\ Shapes /\ Phases /\ Unsized /\ SameLatency
  BY DEF CInv
<1>3. ops' \in Nat /\ met' \subseteq Hazards /\ met \subseteq met'
  <2>1. ops \in Nat /\ met \subseteq Hazards /\ {"overtaken", "clear_over_restore"} \subseteq Hazards
    BY <1>2 DEF TypeOK, Hazards
  <2>2. ops' = ops + 1 /\ met' \subseteq met \cup {"overtaken", "clear_over_restore"} /\ met \subseteq met'
    BY DEF ClearIr, Operation, Noting
  <2> QED
    BY <2>1, <2>2
<1>4. staged_swap' \in StagedSwap /\ staged_swap'.model = staged_swap.model
  <2>1. staged_swap \in StagedSwap /\ NoAsset \in IrOrNone
    BY <1>2, Constants DEF TypeOK
  <2>2. staged_swap' = [staged_swap EXCEPT !.ir = NoAsset]
    BY DEF ClearIr
  <2> QED
    BY <2>1, <2>2 DEF StagedSwap
<1>5. shown' \in Identity
  <2>1. shown \in Identity /\ NoAsset \in IrOrNone
    BY <1>2, Constants DEF TypeOK
  <2>2. shown' = [shown EXCEPT !.ir = NoAsset]
    BY DEF ClearIr
  <2> QED
    BY <2>1, <2>2 DEF Identity
<1>6. TypeOK'
  BY <1>1, <1>2, <1>3, <1>4, <1>5 DEF TypeOK, After
<1>7. Shapes' /\ Phases' /\ Unsized' /\ SameLatency'
  BY <1>1, <1>2, <1>3, <1>4, ShapesFrame, PhasesFrame, UnsizedFrame, SameLatencyFrame
<1> QED
  BY <1>6, <1>7 DEF CInv

LEMMA PushSnapshotHolds == CInv /\ PushSnapshot => CInv'
<1> SUFFICES ASSUME CInv, PushSnapshot PROVE CInv'
  OBVIOUS
<1>1. /\ UNCHANGED <<hk, ops, sized, pending_model, pending_restore, pending_ir, met>>
      /\ UNCHANGED <<parked, recovered, replay, shown, shown_rate, saved>>
      /\ UNCHANGED <<phase, poison_flag, poison_restart_requested, dsp, latency>>
      /\ UNCHANGED <<failures, panics, restarts>>
      /\ UNCHANGED <<staged_swap, staged_restore, restart>>
      /\ snapshots' = snapshots + 1 /\ ring' = Append(ring, Snapshot)
  BY DEF PushSnapshot, poison, chain, staging, slots, identity
<1>2. TypeOK /\ Shapes /\ Phases /\ Unsized /\ SameLatency
  BY DEF CInv
<1>3. Snapshot \in Sane /\ Snapshot \in Still /\ Snapshot \in Command /\ Snapshot \in Steady(latency)
  <2>1. ops \in Nat
    BY <1>2 DEF TypeOK
  <2> QED
    BY <2>1, CommandTypes, SaneIs, SteadyIs
<1>4. TypeOK'
  <2>1. ring \in Seq(Command) /\ snapshots \in Nat
    BY <1>2 DEF TypeOK
  <2>2. ring' \in Seq(Command)
    BY <1>1, <1>3, <2>1, AppendProperties
  <2>3. snapshots' \in Nat
    BY <1>1, <2>1
  <2> QED
    BY <1>1, <1>2, <2>2, <2>3 DEF TypeOK
<1>5. Shapes'
  <2>1. ring' \in Seq(Sane) /\ recovered' \in Seq(Sane) /\ replay' \in Seq(Sane)
    BY <1>1, <1>2, <1>3, PushedTo DEF Shapes
  <2> QED
    BY <1>1, <1>2, <2>1 DEF Shapes, ChannelOf
<1>6. Phases'
  <2>1. ring # <<>> => ring' # <<>>
    BY <1>1, <1>2, <1>3, PushedNotEmpty DEF Shapes
  <2> QED
    BY <1>1, <1>2, <2>1, PhasesFrame
<1>7. Unsized'
  <2>1. ChannelOf(Still) =>
          ring' \in Seq(Still) /\ recovered' \in Seq(Still) /\ replay' \in Seq(Still)
    BY <1>1, <1>3, PushedTo
  <2> QED
    BY <1>1, <1>2, <2>1 DEF Unsized, ChannelOf
<1>8. SameLatency'
  <2>1. ASSUME ChannelOf(Steady(latency))
        PROVE  /\ ring' \in Seq(Steady(latency)) /\ recovered' \in Seq(Steady(latency))
               /\ replay' \in Seq(Steady(latency))
    <3>1. ring' = Append(ring, Snapshot) /\ UNCHANGED <<recovered, replay>>
      BY <1>1
    <3> QED
      BY <1>3, <2>1, <3>1, PushedTo
  <2> QED
    BY <1>1, <1>2, <2>1 DEF SameLatency, ChannelOf
<1> QED
  BY <1>4, <1>5, <1>6, <1>7, <1>8 DEF CInv

(* A callback installs a prefix of the ring.                               *)
LEMMA PrefixTypes ==
  ASSUME NEW S, NEW s \in Seq(S), NEW n \in 1 .. Len(s)
  PROVE  /\ SubSeq(s, 1, n) \in Seq(S) /\ SubSeq(s, n + 1, Len(s)) \in Seq(S)
         /\ n < Len(s) => SubSeq(s, n + 1, Len(s)) # <<>>
         /\ s = SubSeq(s, 1, n) \o SubSeq(s, n + 1, Len(s))
<1>1. SubSeq(s, 1, n) \in Seq(S)
  <2>1. \A i \in 1 .. n : s[i] \in S
    OBVIOUS
  <2> QED
    BY <2>1, SubSeqProperties
<1>2. SubSeq(s, n + 1, Len(s)) \in Seq(S) /\ (n < Len(s) => Len(SubSeq(s, n + 1, Len(s))) # 0)
  <2>1. \A i \in n + 1 .. Len(s) : s[i] \in S
    OBVIOUS
  <2>2. n + 1 \in Int /\ Len(s) \in Int
    OBVIOUS
  <2>3. /\ SubSeq(s, n + 1, Len(s)) \in Seq(S)
        /\ Len(SubSeq(s, n + 1, Len(s))) = IF n + 1 <= Len(s) THEN Len(s) - (n + 1) + 1 ELSE 0
    BY <2>1, <2>2, SubSeqProperties
  <2>4. n < Len(s) => n + 1 <= Len(s) /\ Len(s) - (n + 1) + 1 # 0
    OBVIOUS
  <2> QED
    BY <2>3, <2>4
<1>3. n < Len(s) => SubSeq(s, n + 1, Len(s)) # <<>>
  BY <1>2, EmptySeq
<1>4. SubSeq(s, 1, n) \o SubSeq(s, n + 1, Len(s)) = s
  <2>1. 1 \in 1 .. Len(s) + 1 /\ n \in 1 - 1 .. Len(s) /\ Len(s) \in n .. Len(s)
    OBVIOUS
  <2>2. SubSeq(s, 1, n) \o SubSeq(s, n + 1, Len(s)) = SubSeq(s, 1, Len(s))
    BY <2>1, ConcatAdjacentSubSeq
  <2> QED
    BY <2>2, SubSeqFull
<1> QED
  BY <1>1, <1>2, <1>3, <1>4

LEMMA DrainHolds == CInv /\ Drain => CInv'
<1> SUFFICES ASSUME CInv, Drain PROVE CInv'
  OBVIOUS
<1>1. PICK n \in 1 .. Len(ring) :
       /\ dsp' = InstallAll(dsp, SubSeq(ring, 1, n))
       /\ ring' = SubSeq(ring, n + 1, Len(ring))
       /\ parked' \in {FALSE, MayPark(n)}
  BY DEF Drain
<1>2. /\ UNCHANGED <<hk, ops, sized, pending_model, pending_restore, pending_ir, met>>
      /\ UNCHANGED <<recovered, replay, shown, shown_rate, saved>>
      /\ UNCHANGED <<phase, poison_flag, poison_restart_requested>>
      /\ UNCHANGED <<snapshots, failures, panics, restarts>>
      /\ UNCHANGED <<staged_swap, staged_restore, restart>>
      /\ phase = "active" /\ latency' = LatencyOf(dsp')
  BY DEF Drain, poison, bounds, staging, slots, identity
<1>3. TypeOK /\ Shapes /\ Phases /\ Unsized /\ SameLatency
  BY DEF CInv
<1>4. sized /\ dsp # None /\ dsp \in Chain
  BY <1>2, <1>3 DEF Phases, TypeOK
<1>5. \A S : ring \in Seq(S) => SubSeq(ring, 1, n) \in Seq(S) /\ ring' \in Seq(S)
  BY <1>1, PrefixTypes
<1>6. ring \in Seq(Command)
  BY <1>3 DEF TypeOK
<1>7. dsp' \in Chain /\ dsp' # None
  <2>1. SubSeq(ring, 1, n) \in Seq(Command)
    BY <1>5, <1>6
  <2> QED
    BY <1>1, <1>4, <2>1, InstallAllTypes, Constants
<1>8. MayPark(n) \in BOOLEAN /\ (MayPark(n) => ring' # <<>>)
  <2>1. MayPark(n) => n < Len(ring)
    BY DEF MayPark
  <2>2. MayPark(n) \in BOOLEAN
    BY DEF MayPark
  <2>3. n < Len(ring) => ring' # <<>>
    BY <1>1, <1>6, PrefixTypes
  <2> QED
    BY <2>1, <2>2, <2>3
<1>9. parked' \in BOOLEAN /\ (parked' => ring' # <<>>)
  BY <1>1, <1>8
<1>10. TypeOK'
  <2>1. ring' \in Seq(Command)
    BY <1>5, <1>6
  <2>2. latency' \in [stream : {0, 1}, cabsim : {0, 1}]
    BY <1>2, LatencyTypes
  <2> QED
    BY <1>2, <1>3, <1>7, <1>9, <2>1, <2>2 DEF TypeOK
<1>11. Shapes'
  BY <1>2, <1>3, <1>5 DEF Shapes, ChannelOf
<1>12. Phases'
  BY <1>2, <1>3, <1>7, <1>9 DEF Phases
<1>13. Unsized'
  BY <1>2, <1>4 DEF Unsized
<1>14. SameLatency'
  <2>1. CASE "carried" \notin met
    <3>1. latency = LatencyOf(dsp) /\ ring \in Seq(Steady(LatencyOf(dsp)))
      BY <1>3, <1>4, <2>1 DEF SameLatency, ChannelOf
    <3>2. SubSeq(ring, 1, n) \in Seq(Steady(LatencyOf(dsp)))
      BY <1>5, <3>1
    <3>3. latency' = latency
      BY <1>1, <1>2, <3>1, <3>2, InstallAllSteady
    <3>4. ring' \in Seq(Steady(latency))
      BY <1>5, <3>1
    <3> QED
      BY <1>2, <1>3, <1>4, <3>3, <3>4 DEF SameLatency, ChannelOf
  <2>2. CASE "carried" \in met
    BY <1>2, <2>2 DEF SameLatency
  <2> QED
    BY <2>1, <2>2
<1> QED
  BY <1>10, <1>11, <1>12, <1>13, <1>14 DEF CInv

LEMMA ReplayRecoveredHolds == CInv /\ ReplayRecovered => CInv'
<1> SUFFICES ASSUME CInv, ReplayRecovered PROVE CInv'
  OBVIOUS
<1>1. dsp' = InstallAll(dsp, replay) /\ replay' = <<>>
  BY DEF ReplayRecovered
<1>2. /\ UNCHANGED <<hk, ops, sized, pending_model, pending_restore, pending_ir, met>>
      /\ UNCHANGED <<ring, parked, recovered, shown, shown_rate, saved>>
      /\ UNCHANGED <<phase, poison_flag, poison_restart_requested>>
      /\ UNCHANGED <<snapshots, failures, panics, restarts>>
      /\ UNCHANGED <<staged_swap, staged_restore, restart>>
      /\ phase = "active" /\ latency' = LatencyOf(dsp')
  BY DEF ReplayRecovered, poison, bounds, staging, slots, identity
<1>3. TypeOK /\ Shapes /\ Phases /\ Unsized /\ SameLatency
  BY DEF CInv
<1>4. sized /\ dsp # None /\ dsp \in Chain /\ replay \in Seq(Command)
  BY <1>2, <1>3 DEF Phases, TypeOK
<1>5. dsp' \in Chain /\ dsp' # None
  BY <1>1, <1>4, InstallAllTypes, Constants
<1>6. \A S : replay' \in Seq(S)
  BY <1>1, EmptySeq
<1>7. TypeOK'
  <2>1. latency' \in [stream : {0, 1}, cabsim : {0, 1}]
    BY <1>2, LatencyTypes
  <2> QED
    BY <1>2, <1>3, <1>5, <1>6, <2>1 DEF TypeOK
<1>8. Shapes'
  BY <1>2, <1>3, <1>6 DEF Shapes, ChannelOf
<1>9. Phases'
  BY <1>1, <1>2, <1>3, <1>5 DEF Phases
<1>10. Unsized'
  BY <1>2, <1>4 DEF Unsized
<1>11. SameLatency'
  <2>1. CASE "carried" \notin met
    <3>1. latency = LatencyOf(dsp) /\ replay \in Seq(Steady(LatencyOf(dsp)))
      BY <1>3, <1>4, <2>1 DEF SameLatency, ChannelOf
    <3>2. latency' = latency
      BY <1>1, <1>2, <3>1, InstallAllSteady
    <3> QED
      BY <1>2, <1>3, <1>4, <1>6, <3>1, <3>2 DEF SameLatency, ChannelOf
  <2>2. CASE "carried" \in met
    BY <1>2, <2>2 DEF SameLatency
  <2> QED
    BY <2>1, <2>2
<1> QED
  BY <1>7, <1>8, <1>9, <1>10, <1>11 DEF CInv

LEMMA PanicHolds == CInv /\ Panic => CInv'
<1> SUFFICES ASSUME CInv, Panic PROVE CInv'
  OBVIOUS
<1>1. /\ UNCHANGED <<hk, ops, sized, pending_model, pending_restore, pending_ir, met>>
      /\ UNCHANGED <<ring, parked, recovered, replay, shown, shown_rate, saved>>
      /\ UNCHANGED <<poison_restart_requested, dsp, latency>>
      /\ UNCHANGED <<snapshots, failures, restarts>>
      /\ UNCHANGED <<staged_swap, staged_restore, restart>>
      /\ phase = "active" /\ phase' = "poisoned" /\ poison_flag' = TRUE
      /\ panics' = panics + 1
  BY DEF Panic, chain, staging, slots, identity, channel
<1>2. TypeOK /\ Shapes /\ Phases /\ Unsized /\ SameLatency
  BY DEF CInv
<1>3. panics' \in Nat
  <2>1. panics \in Nat
    BY <1>2 DEF TypeOK
  <2> QED
    BY <1>1, <2>1
<1>4. TypeOK'
  BY <1>1, <1>2, <1>3 DEF TypeOK
<1>5. Phases'
  BY <1>1, <1>2 DEF Phases
<1>6. Shapes' /\ Unsized' /\ SameLatency'
  BY <1>1, <1>2, ShapesFrame, UnsizedFrame, SameLatencyFrame
<1> QED
  BY <1>4, <1>5, <1>6 DEF CInv

-----------------------------------------------------------------------------
(* Activations and deactivations.                                          *)

LEMMA DeactivateHolds == CInv /\ Deactivate => CInv'
<1> SUFFICES ASSUME CInv, Deactivate PROVE CInv'
  OBVIOUS
<1>1. /\ UNCHANGED <<hk, ops, sized, pending_model, pending_restore, pending_ir>>
      /\ UNCHANGED <<recovered, shown, shown_rate, saved, latency>>
      /\ UNCHANGED <<poison_flag, poison_restart_requested>>
      /\ UNCHANGED <<snapshots, failures, panics>>
      /\ UNCHANGED <<staged_swap, staged_restore, restart>>
      /\ phase # "inactive" /\ phase' = "inactive"
      /\ parked' = FALSE /\ replay' = <<>> /\ dsp' \in {None, dsp}
  BY DEF Deactivate, staging, slots, identity, poison
<1>2. TypeOK /\ Shapes /\ Phases /\ Unsized /\ SameLatency
  BY DEF CInv
<1>3. restarts' \in Nat
  <2>1. restarts \in Nat
    BY <1>2 DEF TypeOK
  <2>2. restarts' = restarts + 1
    BY DEF Deactivate
  <2> QED
    BY <2>1, <2>2
<1>4. met' \subseteq Hazards /\ met \subseteq met'
  <2>1. /\ met \subseteq Hazards
        /\ {"parked_dropped", "recovered_dropped", "poisoned"} \subseteq Hazards
    BY <1>2 DEF TypeOK, Hazards
  <2>2. /\ met' \subseteq met \cup {"parked_dropped", "recovered_dropped", "poisoned"}
        /\ met \subseteq met'
    BY DEF Deactivate, Noting
  <2> QED
    BY <2>1, <2>2
<1>5. \A S : ring \in Seq(S) => ring' \in Seq(S) /\ replay' \in Seq(S)
  <2> SUFFICES ASSUME NEW S, ring \in Seq(S) PROVE ring' \in Seq(S) /\ replay' \in Seq(S)
    OBVIOUS
  <2>1. parked => ring # <<>>
    BY <1>2 DEF Phases
  <2>2. ring # <<>> => Tail(ring) \in Seq(S)
    BY HeadTailProperties
  <2>3. ring' = ring \/ (parked /\ ring' = Tail(ring))
    BY DEF Deactivate
  <2> QED
    BY <1>1, <2>1, <2>2, <2>3, EmptySeq
<1>6. sized
  BY <1>1, <1>2 DEF Phases
<1>7. TypeOK'
  <2>1. ring' \in Seq(Command) /\ replay' \in Seq(Command) /\ dsp' \in Chain \cup {None}
    BY <1>1, <1>2, <1>5 DEF TypeOK
  <2> QED
    <3>1. /\ hk' \in {"idle", "model"} \cup DOMAIN After /\ ops' \in Nat
          /\ sized' \in BOOLEAN
          /\ pending_model' \in Command \cup {None} /\ pending_restore' \in Restore \cup {None}
          /\ pending_ir' \in Irs \cup {None} /\ staged_swap' \in StagedSwap
          /\ staged_restore' \in Restore \cup {None} /\ restart' \in BOOLEAN
          /\ poison_flag' \in BOOLEAN /\ poison_restart_requested' \in BOOLEAN
          /\ snapshots' \in Nat /\ panics' \in Nat
      BY <1>1, <1>2 DEF TypeOK
    <3>2. /\ shown' \in Identity /\ saved' \in ModelOrNone /\ shown_rate' \in Rates \cup {0}
          /\ latency' \in [stream : {0, 1}, cabsim : {0, 1}]
      BY <1>1, <1>2 DEF TypeOK
    <3>3. failures' \in Nat /\ recovered' \in Seq(Command)
      BY <1>1, <1>2 DEF TypeOK
    <3>4. parked' \in BOOLEAN /\ phase' \in {"inactive", "active", "poisoned"}
      BY <1>1
    <3> QED
      BY <1>3, <1>4, <2>1, <3>1, <3>2, <3>3, <3>4 DEF TypeOK
<1>8. Shapes'
  BY <1>1, <1>2, <1>5 DEF Shapes, ChannelOf
<1>9. Phases'
  BY <1>1 DEF Phases
<1>10. Unsized'
  BY <1>1, <1>6 DEF Unsized
<1>11. SameLatency'
  BY <1>1, <1>2, <1>4, <1>5 DEF SameLatency, ChannelOf
<1> QED
  BY <1>7, <1>8, <1>9, <1>10, <1>11 DEF CInv

(* Installing one swap or restore gives a chain.                           *)
LEMMA InstallTypes ==
  ASSUME NEW d \in Chain, NEW c, c.model \in ModelOrNone \cup {Keep}, c.rate \in Rates,
         c.ir \in IrOrNone \cup {Keep}
  PROVE  Install(d, c) \in Chain
<1>1. d.model \in ModelOrNone /\ d.rate \in Rates /\ d.ir \in IrOrNone
  BY DEF Chain
<1> QED
  BY <1>1, ReplacedTypes DEF Install, Chain

(* activate() builds a chain.                                              *)
LEMMA TakenTypes ==
  ASSUME TypeOK, NEW resized \in BOOLEAN
  PROVE  Taken(resized) \in Chain /\ Taken(resized) # None
<1>1. RateOrDefault \in Rates /\ shown.ir \in IrOrNone /\ shown.model \in ModelOrNone
  BY Constants DEF RateOrDefault, TypeOK, Identity
<1>2. Base(resized) \in Chain
  BY <1>1, Constants DEF Base, Chain, TypeOK
<1>3. staged_restore # None =>
        /\ staged_restore.cmd.model \in ModelOrNone \cup {Keep}
        /\ staged_restore.cmd.rate \in Rates
        /\ staged_restore.cmd.ir \in IrOrNone \cup {Keep}
  BY DEF TypeOK, Restore, Command
<1>4. /\ Adapted(staged_swap, resized).model \in ModelOrNone \cup {Keep}
      /\ Adapted(staged_swap, resized).rate \in Rates
      /\ Adapted(staged_swap, resized).ir \in IrOrNone \cup {Keep}
  BY <1>1 DEF Adapted, TypeOK, StagedSwap
<1>5. Taken(resized) \in Chain
  <2>1. CASE staged_restore # None
    BY <1>2, <1>3, <2>1, InstallTypes DEF Taken
  <2>2. CASE staged_restore = None
    BY <1>2, <1>4, <2>2, InstallTypes DEF Taken
  <2> QED
    BY <2>1, <2>2
<1> QED
  BY <1>5, Constants

LEMMA PublishStagedTypes ==
  ASSUME CInv, PublishStaged
  PROVE  shown' \in Identity /\ saved' \in ModelOrNone /\ shown_rate' \in Rates \cup {0}
<1>1. TypeOK /\ Shapes
  BY DEF CInv
<1>2. CASE staged_restore # None
  <2>1. /\ staged_restore.cmd \in Command /\ staged_restore.full \in BOOLEAN
        /\ staged_restore.full => staged_restore.cmd.model # Keep
    BY <1>1, <1>2 DEF TypeOK, Shapes, Restore, FullRestore
  <2> QED
    BY <1>1, <1>2, <2>1, PublishedTypes DEF PublishStaged
<1>3. CASE staged_restore = None
  BY <1>1, <1>3 DEF PublishStaged, identity, TypeOK
<1> QED
  BY <1>2, <1>3

(* When nothing is carried, all that waits keeps the new latency.          *)
LEMMA NothingCarried ==
  ASSUME CInv, "carried" \notin Carried
  PROVE  /\ ring \in Seq(Steady(latency')) /\ recovered \in Seq(Steady(latency'))
         /\ pending_model # None =>
              pending_model \in Steady(latency') /\ ~OtherLatency(pending_model, latency')
         /\ pending_restore # None => ~OtherLatency(pending_restore.cmd, latency')
         /\ pending_ir # None => CabsimLatency(pending_ir) = latency'.cabsim
<1> DEFINE q == ring \o recovered
           waiting == {q[j] : j \in 1 .. Len(q)}
             \cup ({pending_model} \ {None})
             \cup {pending_restore.cmd : x \in {pending_restore} \ {None}}
             \cup {IrCommand(i) : i \in {pending_ir} \ {None}}
<1>1. TypeOK
  BY DEF CInv
<1>2. \A c \in waiting : ~OtherLatency(c, latency')
  BY DEF Carried, Noting
<1>3. ring \in Seq(Command) /\ recovered \in Seq(Command) /\ ops \in Nat
      /\ pending_model \in Command \cup {None} /\ pending_ir \in Irs \cup {None}
  BY <1>1 DEF TypeOK
<1>4. /\ q \in Seq(Command) /\ Len(q) = Len(ring) + Len(recovered)
      /\ \A i \in 1 .. Len(ring) + Len(recovered) :
           q[i] = IF i <= Len(ring) THEN ring[i] ELSE recovered[i - Len(ring)]
  BY <1>3, ConcatProperties
<1>5. Len(ring) \in Nat /\ Len(recovered) \in Nat
  BY <1>3
<1> HIDE DEF q
<1>6. \A j \in 1 .. Len(q) : q[j] \in waiting
  OBVIOUS
<1>7. (pending_model # None => pending_model \in waiting)
      /\ (pending_restore # None => pending_restore.cmd \in waiting)
      /\ (pending_ir # None => IrCommand(pending_ir) \in waiting)
  OBVIOUS
<1> HIDE DEF waiting
<1>8. ASSUME NEW j \in 1 .. Len(ring) PROVE ring[j] \in Steady(latency')
  <2>1. j \in 1 .. Len(q) /\ q[j] = ring[j] /\ ring[j] \in Command
    BY <1>3, <1>4, <1>5
  <2> QED
    BY <1>2, <1>6, <2>1 DEF Steady
<1>9. ASSUME NEW j \in 1 .. Len(recovered) PROVE recovered[j] \in Steady(latency')
  <2>1. /\ Len(ring) + j \in 1 .. Len(ring) + Len(recovered)
        /\ ~(Len(ring) + j <= Len(ring)) /\ (Len(ring) + j) - Len(ring) = j
    BY <1>5
  <2>2. Len(ring) + j \in 1 .. Len(q) /\ q[Len(ring) + j] = recovered[j] /\ recovered[j] \in Command
    BY <1>3, <1>4, <2>1
  <2> QED
    BY <1>2, <1>6, <2>2 DEF Steady
<1>10. ring \in Seq(Steady(latency'))
  BY <1>3, <1>8
<1>11. recovered \in Seq(Steady(latency'))
  BY <1>3, <1>9
<1>12. pending_model # None =>
         pending_model \in Steady(latency') /\ ~OtherLatency(pending_model, latency')
  BY <1>2, <1>3, <1>7 DEF Steady
<1>13. pending_restore # None => ~OtherLatency(pending_restore.cmd, latency')
  BY <1>2, <1>7
<1>14. pending_ir # None => CabsimLatency(pending_ir) = latency'.cabsim
  <2> SUFFICES ASSUME pending_ir # None PROVE CabsimLatency(pending_ir) = latency'.cabsim
    OBVIOUS
  <2>1. pending_ir \in IrOrNone
    BY <1>3, Constants
  <2>2. IrCommand(pending_ir).ir = pending_ir /\ pending_ir # Keep
    BY <1>3, <2>1, CommandTypes, Constants
  <2>3. ~OtherLatency(IrCommand(pending_ir), latency')
    BY <1>2, <1>7
  <2> QED
    BY <2>2, <2>3 DEF OtherLatency
<1> QED
  BY <1>10, <1>11, <1>12, <1>13, <1>14

LEMMA ActivateHolds == CInv /\ Activate => CInv'
<1> SUFFICES ASSUME CInv, Activate PROVE CInv'
  OBVIOUS
<1>1. /\ UNCHANGED <<hk, ops, pending_restore, pending_ir, parked>>
      /\ UNCHANGED <<poison_restart_requested, snapshots, failures, panics, restarts>>
      /\ phase = "inactive" /\ phase' = "active" /\ latency' = LatencyOf(dsp')
      /\ met' = met \cup Carried /\ sized' = TRUE /\ restart' = FALSE
      /\ staged_restore' = None /\ staged_swap' = NothingStaged
      /\ replay' = recovered /\ recovered' = <<>> /\ poison_flag' = FALSE
  BY DEF Activate, bounds, NothingStagedAfter
<1>2. TypeOK /\ Shapes /\ Phases /\ Unsized /\ SameLatency
  BY DEF CInv
<1>3. \/ ring' = ring /\ pending_model' \in {pending_model, None}
      \/ pending_model # None /\ ring' = Append(ring, pending_model) /\ pending_model' = None
  BY DEF Activate
<1>4. PICK resized \in BOOLEAN : dsp' = Taken(resized)
  BY DEF Activate
<1>5. dsp' \in Chain /\ dsp' # None
  BY <1>2, <1>4, TakenTypes
<1>6. shown' \in Identity /\ saved' \in ModelOrNone /\ shown_rate' \in Rates \cup {0}
  BY PublishStagedTypes DEF Activate
<1>7. met' \subseteq Hazards /\ met \subseteq met'
  <2>1. met \subseteq Hazards /\ "carried" \in Hazards
    BY <1>2 DEF TypeOK, Hazards
  <2>2. Carried \subseteq {"carried"}
    BY DEF Carried, Noting
  <2> QED
    BY <1>1, <2>1, <2>2
<1>8. pending_model # None => pending_model \in Command /\ pending_model \in Sane
  BY <1>2 DEF TypeOK, Shapes, Sane
<1>9. \A S : ring \in Seq(S) /\ (pending_model # None => pending_model \in S) => ring' \in Seq(S)
  BY <1>3, AppendProperties
<1>10. \A S : recovered' \in Seq(S) /\ (recovered \in Seq(S) => replay' \in Seq(S))
  BY <1>1, EmptySeq
<1>11. pending_model' \in {pending_model, None}
  BY <1>3
<1>12. TypeOK'
  <2>1. latency' \in [stream : {0, 1}, cabsim : {0, 1}]
    BY <1>1, LatencyTypes
  <2>2. ring' \in Seq(Command) /\ recovered' \in Seq(Command) /\ replay' \in Seq(Command)
    BY <1>2, <1>8, <1>9, <1>10 DEF TypeOK
  <2>3. pending_model' \in Command \cup {None}
    BY <1>2, <1>11 DEF TypeOK
  <2> QED
    BY <1>1, <1>2, <1>5, <1>6, <1>7, <2>1, <2>2, <2>3, SwapTypes DEF TypeOK
<1>13. Shapes'
  <2>1. ring' \in Seq(Sane) /\ recovered' \in Seq(Sane) /\ replay' \in Seq(Sane)
    BY <1>2, <1>8, <1>9, <1>10 DEF Shapes, ChannelOf
  <2> QED
    BY <1>1, <1>2, <1>11, <2>1 DEF Shapes, ChannelOf
<1>14. Phases'
  BY <1>1, <1>2, <1>5 DEF Phases
<1>15. Unsized'
  BY <1>1 DEF Unsized
<1>16. SameLatency'
  <2>1. CASE "carried" \notin met'
    <3>1. "carried" \notin Carried
      BY <1>1, <2>1
    <3>2. /\ ring \in Seq(Steady(latency')) /\ recovered \in Seq(Steady(latency'))
          /\ pending_model # None =>
               pending_model \in Steady(latency') /\ ~OtherLatency(pending_model, latency')
          /\ pending_restore # None => ~OtherLatency(pending_restore.cmd, latency')
          /\ pending_ir # None => CabsimLatency(pending_ir) = latency'.cabsim
      BY <3>1, NothingCarried
    <3>3. /\ ring' \in Seq(Steady(latency')) /\ recovered' \in Seq(Steady(latency'))
          /\ replay' \in Seq(Steady(latency'))
      BY <1>9, <1>10, <3>2
    <3> QED
      BY <1>1, <1>11, <3>2, <3>3 DEF SameLatency, ChannelOf
  <2>2. CASE "carried" \in met'
    BY <1>1, <2>2 DEF SameLatency
  <2> QED
    BY <2>1, <2>2
<1> QED
  BY <1>12, <1>13, <1>14, <1>15, <1>16 DEF CInv

(* A rollback moves what the ring holds to the slot and the staging list.  *)
LEMMA RollbackTypes ==
  ASSUME CInv, Rollback
  PROVE  /\ ring' = <<>>
         /\ \A S : ring \in Seq(S) /\ recovered \in Seq(S) => recovered' \in Seq(S)
         /\ \/ pending_model' = pending_model
            \/ \E j \in 1 .. Len(ring) : IsModel(ring[j]) /\ pending_model' = ring[j]
<1> DEFINE found == {j \in 1 .. Len(ring) : IsModel(ring[j])}
<1>1. ring \in Seq(Command) /\ Len(ring) \in Nat
  BY DEF CInv, TypeOK
<1>2. ring' = <<>> /\ recovered' = WithoutModels(ring) \o recovered
  BY DEF Rollback
<1>3. pending_model' = pending_model \/ (found # {} /\ pending_model' = ring[Newest(found)])
  BY DEF Rollback
<1>4. found # {} => Newest(found) \in found
  BY <1>1, NewestIs
<1>5. \A S : ring \in Seq(S) /\ recovered \in Seq(S) => recovered' \in Seq(S)
  <2> SUFFICES ASSUME NEW S, ring \in Seq(S), recovered \in Seq(S)
               PROVE  recovered' \in Seq(S)
    OBVIOUS
  <2>1. WithoutModels(ring) \in Seq(S)
    BY WithoutModelsIs
  <2> QED
    BY <1>2, <2>1, ConcatProperties
<1> QED
  BY <1>2, <1>3, <1>4, <1>5

LEMMA ReorderedTypes == Reordered \subseteq {"reordered"}
BY DEF Reordered, Noting

(* What a rollback leaves, whatever became of the chain.                   *)
LEMMA RollbackHolds ==
  ASSUME CInv, Rollback, UNCHANGED <<pending_restore, pending_ir, parked, replay, phase>>,
         phase = "inactive", staged_restore' \in {staged_restore, None}
  PROVE  /\ pending_model' \in Command \cup {None}
         /\ ring' \in Seq(Command) /\ recovered' \in Seq(Command) /\ replay' \in Seq(Command)
         /\ Shapes' /\ Phases'
<1>1. TypeOK /\ Shapes /\ Phases
  BY DEF CInv
<1>2. /\ ring' = <<>>
      /\ \A S : ring \in Seq(S) /\ recovered \in Seq(S) => recovered' \in Seq(S)
      /\ \/ pending_model' = pending_model
         \/ \E j \in 1 .. Len(ring) : IsModel(ring[j]) /\ pending_model' = ring[j]
  BY RollbackTypes
<1>3. \A S : ring' \in Seq(S)
  BY <1>2, EmptySeq
<1>4. /\ pending_model' \in Command \cup {None}
      /\ pending_model' # None => pending_model'.kind = "LoadModel" /\ Shape(pending_model')
  <2>1. CASE pending_model' = pending_model
    BY <1>1, <2>1 DEF TypeOK, Shapes
  <2>2. ASSUME NEW j \in 1 .. Len(ring), IsModel(ring[j]), pending_model' = ring[j]
        PROVE  /\ pending_model' \in Command /\ pending_model'.kind = "LoadModel"
               /\ Shape(pending_model')
    <3>1. ring[j] \in Sane
      BY <1>1 DEF Shapes, ChannelOf
    <3> QED
      BY <2>2, <3>1 DEF Sane, IsModel
  <2> QED
    BY <1>2, <2>1, <2>2
<1>5. Shapes'
  BY <1>1, <1>2, <1>3, <1>4 DEF Shapes, ChannelOf
<1>6. Phases'
  BY <1>1 DEF Phases
<1>7. ring' \in Seq(Command) /\ recovered' \in Seq(Command) /\ replay' \in Seq(Command)
  BY <1>1, <1>2, <1>3 DEF TypeOK
<1> QED
  BY <1>4, <1>5, <1>6, <1>7

LEMMA ActivateFailsHolds == CInv /\ ActivateFails => CInv'
<1> SUFFICES ASSUME CInv, ActivateFails PROVE CInv'
  OBVIOUS
<1>1. /\ UNCHANGED <<hk, ops, sized, pending_restore, pending_ir, parked, replay, phase>>
      /\ UNCHANGED <<shown, shown_rate, saved, dsp, latency>>
      /\ UNCHANGED <<poison_restart_requested, snapshots, panics, restarts>>
      /\ UNCHANGED <<staged_swap, staged_restore, restart>>
      /\ phase = "inactive" /\ poison_flag' = FALSE
  BY DEF ActivateFails, staging, identity, chain
<1>2. TypeOK /\ Shapes /\ Phases /\ Unsized /\ SameLatency
  BY DEF CInv
<1>3. failures' \in Nat
  <2>1. failures \in Nat
    BY <1>2 DEF TypeOK
  <2>2. failures' = failures + 1
    BY DEF ActivateFails
  <2> QED
    BY <2>1, <2>2
<1>4. met' \subseteq Hazards /\ met \subseteq met'
  <2>1. met \subseteq Hazards /\ "reordered" \in Hazards
    BY <1>2 DEF TypeOK, Hazards
  <2> QED
    BY <2>1, ReorderedTypes DEF ActivateFails
<1>5. /\ pending_model' \in Command \cup {None}
      /\ ring' \in Seq(Command) /\ recovered' \in Seq(Command) /\ replay' \in Seq(Command)
      /\ Shapes' /\ Phases'
  BY <1>1, RollbackHolds DEF ActivateFails
<1>6. TypeOK'
  <2>1. /\ hk' \in {"idle", "model"} \cup DOMAIN After /\ ops' \in Nat
        /\ sized' \in BOOLEAN /\ pending_restore' \in Restore \cup {None}
        /\ pending_ir' \in Irs \cup {None} /\ staged_swap' \in StagedSwap
        /\ staged_restore' \in Restore \cup {None} /\ restart' \in BOOLEAN
        /\ poison_flag' \in BOOLEAN /\ poison_restart_requested' \in BOOLEAN
        /\ snapshots' \in Nat /\ panics' \in Nat /\ restarts' \in Nat
    BY <1>1, <1>2 DEF TypeOK
  <2>2. /\ shown' \in Identity /\ saved' \in ModelOrNone /\ shown_rate' \in Rates \cup {0}
        /\ latency' \in [stream : {0, 1}, cabsim : {0, 1}] /\ dsp' \in Chain \cup {None}
        /\ parked' \in BOOLEAN /\ phase' \in {"inactive", "active", "poisoned"}
    BY <1>1, <1>2 DEF TypeOK
  <2> QED
    BY <1>3, <1>4, <1>5, <2>1, <2>2 DEF TypeOK
<1>7. /\ ring' = <<>>
      /\ \A S : ring \in Seq(S) /\ recovered \in Seq(S) => recovered' \in Seq(S)
      /\ \/ pending_model' = pending_model
         \/ \E j \in 1 .. Len(ring) : IsModel(ring[j]) /\ pending_model' = ring[j]
  BY RollbackTypes DEF ActivateFails
<1>8. \A S : ring' \in Seq(S)
  BY <1>7, EmptySeq
<1>9. Unsized'
  BY <1>1, <1>2, <1>7, <1>8 DEF Unsized, ChannelOf
<1>10. SameLatency'
  <2>1. ring \in Seq(Steady(latency)) =>
          \A j \in 1 .. Len(ring) : ~OtherLatency(ring[j], latency)
    <3> SUFFICES ASSUME ring \in Seq(Steady(latency)), NEW j \in 1 .. Len(ring)
                 PROVE  ~OtherLatency(ring[j], latency)
      OBVIOUS
    <3>1. ring[j] \in Steady(latency)
      BY ElementOfSeq
    <3> QED
      BY <3>1 DEF Steady
  <2>2. ring \in Seq(Steady(latency)) /\ pending_model' # None /\ pending_model' # pending_model
          => ~OtherLatency(pending_model', latency)
    BY <1>7, <2>1
  <2> QED
    BY <1>1, <1>2, <1>4, <1>7, <1>8, <2>2 DEF SameLatency, ChannelOf
<1> QED
  BY <1>5, <1>6, <1>9, <1>10 DEF CInv

LEMMA ActivateFailsLateHolds == CInv /\ ActivateFailsLate => CInv'
<1> SUFFICES ASSUME CInv, ActivateFailsLate PROVE CInv'
  OBVIOUS
<1>1. /\ UNCHANGED <<hk, ops, pending_restore, pending_ir, restart, parked, replay, phase>>
      /\ UNCHANGED <<poison_restart_requested, snapshots, panics, restarts>>
      /\ phase = "inactive" /\ failures' = failures + 1 /\ poison_flag' = FALSE
      /\ dsp' = None /\ sized' = TRUE /\ Rollback
      /\ staged_restore' = None /\ staged_swap' = NothingStaged
  BY DEF ActivateFailsLate, NothingStagedAfter
<1>2. TypeOK /\ Shapes /\ Phases /\ Unsized /\ SameLatency
  BY DEF CInv
<1>3. failures' \in Nat
  <2>1. failures \in Nat
    BY <1>2 DEF TypeOK
  <2> QED
    BY <1>1, <2>1
<1>4. met' \subseteq Hazards /\ met \subseteq met'
  <2>1. met \subseteq Hazards /\ {"reordered", "late_failure"} \subseteq Hazards
    BY <1>2 DEF TypeOK, Hazards
  <2>2. met' \subseteq met \cup {"reordered", "late_failure"} /\ met \subseteq met'
    BY ReorderedTypes DEF ActivateFailsLate, Noting
  <2> QED
    BY <2>1, <2>2
<1>5. /\ pending_model' \in Command \cup {None}
      /\ ring' \in Seq(Command) /\ recovered' \in Seq(Command) /\ replay' \in Seq(Command)
      /\ Shapes' /\ Phases'
  BY <1>1, RollbackHolds
<1>6. shown' \in Identity /\ saved' \in ModelOrNone /\ shown_rate' \in Rates \cup {0}
  BY PublishStagedTypes DEF ActivateFailsLate
<1>7. latency' \in [stream : {0, 1}, cabsim : {0, 1}]
  BY LatencyTypes DEF ActivateFailsLate
<1>8. TypeOK'
  BY <1>1, <1>2, <1>3, <1>4, <1>5, <1>6, <1>7, SwapTypes DEF TypeOK
<1>9. Unsized' /\ SameLatency'
  BY <1>1 DEF Unsized, SameLatency
<1> QED
  BY <1>5, <1>8, <1>9 DEF CInv

(* Every step keeps CInv.                                                  *)
LEMMA ChainsKept == CInv /\ [Next]_vars => CInv'
<1> SUFFICES ASSUME CInv, [Next]_vars PROVE CInv'
  OBVIOUS
<1>1. CASE Commit
  BY <1>1, CommitHolds
<1>2. CASE HousekeepingNext
  BY <1>2, RedeliverRestoreHolds, PublishRestoreHolds, IdleStepsHold, FlushPendingModelHolds,
     RetryIrHolds DEF HousekeepingNext
<1>3. CASE RequestNext
  BY <1>3, LoadModelHolds, ClearModelHolds, ClearModelFailsHolds, LoadIrStepHolds, ClearIrHolds
     DEF RequestNext
<1>4. CASE PushSnapshot
  BY <1>4, PushSnapshotHolds
<1>5. CASE AudioNext
  BY <1>5, DrainHolds, ReplayRecoveredHolds, PanicHolds DEF AudioNext
<1>6. CASE LifecycleNext
  BY <1>6, ActivateHolds, ActivateFailsHolds, ActivateFailsLateHolds, DeactivateHolds
     DEF LifecycleNext
<1>7. CASE UNCHANGED vars
  <2>1. /\ UNCHANGED <<hk, ops, sized, pending_model, pending_restore, pending_ir, met>>
        /\ UNCHANGED <<ring, parked, recovered, replay>>
        /\ UNCHANGED <<phase, poison_flag, poison_restart_requested, dsp, latency>>
        /\ UNCHANGED <<snapshots, failures, panics, restarts, shown, shown_rate, saved>>
        /\ UNCHANGED <<staged_swap, staged_restore, restart>>
    BY <1>7 DEF vars, poison, chain, bounds, channel, staging, slots, identity
  <2>2. TypeOK /\ Shapes /\ Phases /\ Unsized /\ SameLatency
    BY DEF CInv
  <2>3. TypeOK'
    BY <2>1, <2>2 DEF TypeOK
  <2>4. Shapes' /\ Phases' /\ Unsized' /\ SameLatency'
    BY <2>1, <2>2, ShapesFrame, PhasesFrame, UnsizedFrame, SameLatencyFrame
  <2> QED
    BY <2>3, <2>4 DEF CInv
<1> QED
  BY <1>1, <1>2, <1>3, <1>4, <1>5, <1>6, <1>7 DEF Next

-----------------------------------------------------------------------------
(* The latency of a running chain.                                         *)

LEMMA LatencyKept ==
  ASSUME CInv, [Next]_vars, phase = "active", phase' = "active", "carried" \notin met
  PROVE  latency' = latency
<1>1. /\ dsp # None /\ latency = LatencyOf(dsp)
      /\ ring \in Seq(Steady(LatencyOf(dsp))) /\ replay \in Seq(Steady(LatencyOf(dsp)))
  BY DEF CInv, Phases, SameLatency, ChannelOf
<1>2. CASE Drain
  <2>1. PICK n \in 1 .. Len(ring) : dsp' = InstallAll(dsp, SubSeq(ring, 1, n))
    BY <1>2 DEF Drain
  <2>2. SubSeq(ring, 1, n) \in Seq(Steady(LatencyOf(dsp)))
    BY <1>1, PrefixTypes
  <2>3. latency' = LatencyOf(dsp')
    BY <1>2 DEF Drain
  <2> QED
    BY <1>1, <2>1, <2>2, <2>3, InstallAllSteady
<1>3. CASE ReplayRecovered
  <2>1. dsp' = InstallAll(dsp, replay) /\ latency' = LatencyOf(dsp')
    BY <1>3 DEF ReplayRecovered
  <2> QED
    BY <1>1, <2>1, InstallAllSteady
<1>4. CASE Commit \/ PushSnapshot \/ Panic
  BY <1>4 DEF Commit, PushSnapshot, Panic, chain
<1>5. CASE HousekeepingNext
  BY <1>5 DEF HousekeepingNext, RedeliverRestore, PublishRestore, NoRestoreToFlush,
              FlushPendingModel, NothingRequested, RetryIr, chain
<1>6. CASE RequestNext
  BY <1>6 DEF RequestNext, LoadModel, ClearModel, ClearModelFails, LoadIr, ClearIr, chain
<1>7. CASE LifecycleNext
  BY <1>7 DEF LifecycleNext, Activate, ActivateFails, ActivateFailsLate, Deactivate
<1>8. CASE UNCHANGED vars
  BY <1>8 DEF vars, chain
<1> QED
  BY <1>2, <1>3, <1>4, <1>5, <1>6, <1>7, <1>8 DEF Next, AudioNext

(* The types, and with them that the channel holds what its kinds say,     *)
(* that an active processor has a chain, and that nothing waits before the *)
(* first activation has published a buffer size.                           *)
THEOREM ChainInvariant == Spec => []CInv
<1>1. Init => CInv
  BY CInit
<1>2. CInv /\ [Next]_vars => CInv'
  BY ChainsKept
<1> QED
  BY <1>1, <1>2, PTL DEF Spec

(* TypeOK for every set of models and IRs, every ring capacity and all     *)
(* bounds.                                                                 *)
THEOREM AssetTypes == Spec => []TypeOK
<1>1. CInv => TypeOK
  BY DEF CInv
<1> QED
  BY <1>1, ChainInvariant, PTL

(* Strict Restart Policy, for every value of the constants: whatever is    *)
(* queued, staged, replayed, rolled back or restored, a running chain      *)
(* keeps its latency, but for what an earlier activation left on its way.  *)
THEOREM LatencyNeverMoves == Spec => LatencyHeld
<1>1. CInv /\ [Next]_vars
        => [phase = "active" /\ phase' = "active" /\ "carried" \notin met
              => latency' = latency]_vars
  BY LatencyKept
<1> QED
  BY <1>1, ChainInvariant, PTL DEF Spec, LatencyHeld

-----------------------------------------------------------------------------
(* What is shown and what will run.                                        *)

(* v of component x, once all that the channel holds has landed on it.     *)
LandsIn(first, second, third, x, v) ==
  Effect(third, x, Effect(second, x, Effect(first, x, v)))
Lands(x, v) == LandsIn(recovered, replay, ring, x, v)

(* The channel leaves component x alone.                                   *)
Leaving(x) == {c \in Command : ~Touches(c, x)}
Quiet(x) == ChannelOf(Leaving(x))

(* Commands whose model, if they are a model's, was asked for before b.    *)
Older(b) == {c \in Command : IsModel(c) => c.id < b}

(* Generations of models: the slot holds a newer one than the ring.        *)
Newer ==
  /\ ring \in Seq(Older(ops + 1))
  /\ pending_model # None =>
       pending_model.id < ops + 1 /\ ring \in Seq(Older(pending_model.id))

(* A processor has a chain, and an IR is retried only where there is one.  *)
HasChain == phase # "inactive" \/ pending_ir # None => dsp # None

(* One change of a component waits at a time, outside the channel.         *)
RestoresModel == pending_restore # None /\ pending_restore.cmd.model # Keep
RestoresIr == pending_restore # None /\ pending_restore.cmd.ir # Keep
ModelInSlot == RestoresModel \/ (sized /\ pending_model # None)
IrInSlot == RestoresIr \/ pending_ir # None

StagesModel ==
  \/ staged_swap.model # Keep
  \/ staged_restore # None /\ staged_restore.cmd.model # Keep
StagesIr ==
  \/ staged_swap.ir # Keep
  \/ staged_restore # None /\ staged_restore.cmd.ir # Keep

ModelAlone == StagesModel => ~ModelInSlot /\ Quiet("model")
IrAlone == StagesIr => ~IrInSlot /\ Quiet("ir")
RestoreAlone ==
  /\ staged_restore # None => pending_restore = None /\ staged_swap = NothingStaged
  /\ RestoresModel => pending_model = None
  /\ RestoresIr => pending_ir = None

(* What the GUI will show when a restore on its way is published.          *)
Delivered == pending_restore # None /\ pending_restore.delivered
ModelToShow ==
  IF Delivered /\ RestoresModel THEN pending_restore.cmd.model ELSE shown.model
IrToShow ==
  IF Delivered /\ RestoresIr THEN pending_restore.cmd.ir ELSE shown.ir

(* What will run when nothing is asked for any more.                       *)
KeptModel == IF dsp = None THEN NoAsset ELSE dsp.model
KeptIr ==
  IF dsp = None \/ (phase = "inactive" /\ dsp.ir = NoAsset) THEN shown.ir ELSE dsp.ir
ModelToRun ==
  IF staged_swap.model # Keep THEN staged_swap.model
  ELSE IF pending_model # None THEN pending_model.model
  ELSE Lands("model", KeptModel)
IrToRun ==
  IF staged_swap.ir # Keep THEN staged_swap.ir ELSE Lands("ir", KeptIr)

ModelAgrees == ModelToRun = ModelToShow
IrAgrees == pending_ir = None => IrToRun = IrToShow

(* The GUI shows an IR exactly when the chain has a cab-sim, or a change   *)
(* of it waits, or activate() is to build the shown one.                   *)
IrShown ==
  dsp # None /\ staged_swap.ir = Keep /\ pending_ir = None =>
    \/ CabsimLatency(shown.ir) = latency.cabsim
    \/ phase = "inactive" /\ dsp.ir = NoAsset

Sound ==
  /\ HasChain /\ Newer
  /\ ModelAlone /\ IrAlone /\ RestoreAlone
  /\ ModelAgrees /\ IrAgrees /\ IrShown

SInv == CInv /\ (met = {} => Sound)

(* Landing.                                                                *)
LEMMA EffectQuiet ==
  ASSUME NEW x, NEW s \in Seq(Leaving(x)), NEW v
  PROVE  Effect(s, x, v) = v
<1>1. ASSUME NEW j \in 1 .. Len(s) PROVE ~Touches(s[j], x)
  <2>1. s[j] \in Leaving(x)
    BY ElementOfSeq
  <2> QED
    BY <2>1 DEF Leaving
<1> QED
  BY <1>1, EffectNone

(* A channel that leaves a component alone lands nothing on it.            *)
LEMMA LandsQuiet ==
  ASSUME NEW x, NEW a \in Seq(Leaving(x)), NEW b \in Seq(Leaving(x)),
         NEW c \in Seq(Leaving(x)), NEW v
  PROVE  LandsIn(a, b, c, x, v) = v
<1>1. Effect(a, x, v) = v
  BY EffectQuiet
<1>2. Effect(b, x, v) = v
  BY EffectQuiet
<1>3. Effect(c, x, v) = v
  BY EffectQuiet
<1> QED
  BY <1>1, <1>2, <1>3, Zenon DEF LandsIn

(* A sequence leaves every value as it is, or takes every value to one.    *)
LEMMA EffectEither ==
  ASSUME NEW s, NEW x
  PROVE  (\A v : Effect(s, x, v) = v) \/ (\A v, w : Effect(s, x, v) = Effect(s, x, w))
BY DEF Effect

(* So does the whole channel.                                              *)
LEMMA LandsEither ==
  ASSUME NEW a, NEW b, NEW c, NEW x
  PROVE  \/ \A v : LandsIn(a, b, c, x, v) = v
         \/ \A v, w : LandsIn(a, b, c, x, v) = LandsIn(a, b, c, x, w)
<1>1. (\A v : Effect(a, x, v) = v) \/ (\A v, w : Effect(a, x, v) = Effect(a, x, w))
  BY EffectEither
<1>2. (\A v : Effect(b, x, v) = v) \/ (\A v, w : Effect(b, x, v) = Effect(b, x, w))
  BY EffectEither
<1>3. (\A v : Effect(c, x, v) = v) \/ (\A v, w : Effect(c, x, v) = Effect(c, x, w))
  BY EffectEither
<1>4. CASE \A v, w : Effect(c, x, v) = Effect(c, x, w)
  <2>1. \A v, w : LandsIn(a, b, c, x, v) = LandsIn(a, b, c, x, w)
    BY <1>4, Zenon DEF LandsIn
  <2> QED
    BY <2>1, Zenon
<1>5. CASE (\A v : Effect(c, x, v) = v) /\ (\A v, w : Effect(b, x, v) = Effect(b, x, w))
  <2>1. \A v, w : LandsIn(a, b, c, x, v) = LandsIn(a, b, c, x, w)
    BY <1>5 DEF LandsIn
  <2> QED
    BY <2>1, Zenon
<1>6. CASE /\ \A v : Effect(c, x, v) = v
           /\ \A v : Effect(b, x, v) = v
  <2>1. \A v : LandsIn(a, b, c, x, v) = Effect(a, x, v)
    BY <1>6 DEF LandsIn
  <2> QED
    BY <1>1, <2>1
<1> QED
  BY <1>2, <1>3, <1>4, <1>5, <1>6

(* A command that is pushed lands last.                                    *)
LEMMA LandsPush ==
  ASSUME ring \in Seq(Command), NEW c \in Command, ring' = Append(ring, c),
         UNCHANGED <<recovered, replay>>, NEW x, NEW v
  PROVE  LandsIn(recovered', replay', ring', x, v)
           = IF Touches(c, x) THEN Of(c, x) ELSE LandsIn(recovered, replay, ring, x, v)
<1> DEFINE w == Effect(replay, x, Effect(recovered, x, v))
<1>1. Effect(Append(ring, c), x, w) = IF Touches(c, x) THEN Of(c, x) ELSE Effect(ring, x, w)
  BY EffectAppend
<1>2. LandsIn(recovered', replay', ring', x, v) = Effect(Append(ring, c), x, w)
  BY DEF LandsIn
<1>3. LandsIn(recovered, replay, ring, x, v) = Effect(ring, x, w)
  BY DEF LandsIn
<1> HIDE DEF w
<1> QED
  BY <1>1, <1>2, <1>3

SameLanding(x) ==
  \A v : LandsIn(recovered', replay', ring', x, v) = LandsIn(recovered, replay, ring, x, v)

(* One that leaves the component alone changes nothing there.              *)
LEMMA PushLeaves ==
  ASSUME ring \in Seq(Command), NEW c \in Command, NEW x, ~Touches(c, x),
         ring' = ring \/ ring' = Append(ring, c), UNCHANGED <<recovered, replay>>
  PROVE  SameLanding(x) /\ (Quiet(x) => Quiet(x)')
<1>1. SameLanding(x)
  <2>1. CASE ring' = ring
    BY <2>1 DEF SameLanding
  <2>2. CASE ring' = Append(ring, c)
    BY <2>2, LandsPush DEF SameLanding
  <2> QED
    BY <2>1, <2>2
<1>2. Quiet(x) => Quiet(x)'
  <2> SUFFICES ASSUME Quiet(x) PROVE ChannelOf(Leaving(x))'
    BY DEF Quiet
  <2>1. c \in Leaving(x)
    BY DEF Leaving
  <2>2. ChannelOf(Leaving(x))
    BY DEF Quiet
  <2>3. ring' \in Seq(Leaving(x)) /\ recovered' \in Seq(Leaving(x)) /\ replay' \in Seq(Leaving(x))
    BY <2>1, <2>2, PushedTo
  <2> QED
    BY <2>3 DEF ChannelOf
<1> QED
  BY <1>1, <1>2

(* Frames.                                                                 *)
LEMMA ModelFrame ==
  ASSUME ModelAgrees, staged_swap'.model = staged_swap.model, pending_model' = pending_model,
         KeptModel' = KeptModel, SameLanding("model"), ModelToShow' = ModelToShow
  PROVE  ModelAgrees'
BY DEF ModelAgrees, ModelToRun, Lands, SameLanding

LEMMA IrFrame ==
  ASSUME IrAgrees, staged_swap'.ir = staged_swap.ir, pending_ir' = pending_ir,
         KeptIr' = KeptIr, SameLanding("ir"), IrToShow' = IrToShow
  PROVE  IrAgrees'
BY DEF IrAgrees, IrToRun, Lands, SameLanding

LEMMA ChannelFrame ==
  ASSUME UNCHANGED <<ring, recovered, replay>>
  PROVE  /\ SameLanding("model") /\ SameLanding("ir")
         /\ Quiet("model")' = Quiet("model") /\ Quiet("ir")' = Quiet("ir")
BY DEF SameLanding, Quiet, ChannelOf

LEMMA OlderGrows ==
  ASSUME NEW a, NEW b, \A n \in Nat : n < a => n < b, NEW s \in Seq(Older(a))
  PROVE  s \in Seq(Older(b))
<1>1. Older(a) \subseteq Older(b)
  <2> SUFFICES ASSUME NEW c \in Older(a) PROVE c \in Older(b)
    OBVIOUS
  <2>1. c.id \in Nat
    BY DEF Older, Command
  <2> QED
    BY <2>1 DEF Older
<1> QED
  BY <1>1, SeqMonotonic

LEMMA NewerFrame ==
  ASSUME TypeOK, Newer, UNCHANGED <<ring, pending_model>>, ops' \in {ops, ops + 1}
  PROVE  Newer'
<1>1. PICK i \in Nat : i = ops
  BY DEF TypeOK
<1>2. PICK k \in {i, i + 1} : k = ops'
  BY <1>1
<1>3. \A n \in Nat : n < i + 1 => n < k + 1
  <2>1. CASE k = i
    BY <2>1
  <2>2. CASE k = i + 1
    <3> HIDE <1>1, <1>2
    <3>1. \A n \in Nat : n < i + 1 => n < (i + 1) + 1
      OBVIOUS
    <3> QED
      BY <2>2, <3>1, Zenon
  <2> QED
    BY <1>2, <2>1, <2>2
<1>4. ring \in Seq(Older(k + 1))
  <2>1. ring \in Seq(Older(i + 1))
    BY <1>1 DEF Newer
  <2> QED
    BY <1>3, <2>1, OlderGrows
<1>5. pending_model # None => pending_model.id < k + 1 /\ ring \in Seq(Older(pending_model.id))
  <2>1. pending_model # None => pending_model.id \in Nat
    BY DEF TypeOK, Command
  <2>2. pending_model # None => pending_model.id < i + 1 /\ ring \in Seq(Older(pending_model.id))
    BY <1>1 DEF Newer
  <2> QED
    BY <1>3, <2>1, <2>2
<1> QED
  BY <1>2, <1>4, <1>5 DEF Newer

(* Pushing a command that is no model's keeps the generations in order.    *)
LEMMA NewerPush ==
  ASSUME TypeOK, Newer, NEW c \in Command, ~IsModel(c),
         ring' = ring \/ ring' = Append(ring, c), pending_model' = pending_model,
         ops' \in {ops, ops + 1}
  PROVE  Newer'
<1>1. PICK i \in Nat : i = ops
  BY DEF TypeOK
<1>2. PICK k \in {i, i + 1} : k = ops'
  BY <1>1
<1>3. \A n \in Nat : n < i + 1 => n < k + 1
  <2>1. CASE k = i
    BY <2>1
  <2>2. CASE k = i + 1
    <3> HIDE <1>1, <1>2
    <3>1. \A n \in Nat : n < i + 1 => n < (i + 1) + 1
      OBVIOUS
    <3> QED
      BY <2>2, <3>1, Zenon
  <2> QED
    BY <1>2, <2>1, <2>2
<1>4. \A b : c \in Older(b)
  BY DEF Older
<1>5. \A b : ring \in Seq(Older(b)) => ring' \in Seq(Older(b))
  BY <1>4, AppendProperties
<1>6. ring' \in Seq(Older(k + 1))
  <2>1. ring' \in Seq(Older(i + 1))
    BY <1>1, <1>5 DEF Newer
  <2> QED
    BY <1>3, <2>1, OlderGrows
<1>7. pending_model # None => pending_model.id < k + 1 /\ ring' \in Seq(Older(pending_model.id))
  <2>1. pending_model # None => pending_model.id \in Nat
    BY DEF TypeOK, Command
  <2>2. pending_model # None => pending_model.id < i + 1 /\ ring \in Seq(Older(pending_model.id))
    BY <1>1 DEF Newer
  <2> QED
    BY <1>3, <1>5, <2>1, <2>2
<1> QED
  BY <1>2, <1>6, <1>7 DEF Newer

(* An operation that meets no hazard: nothing earlier waits.               *)
LEMMA InChannelIs ==
  ASSUME TypeOK, NEW x, ~InChannel(x)
  PROVE  Quiet(x)
<1> DEFINE p == ring \o recovered
           q == p \o replay
<1>1. ring \in Seq(Command) /\ recovered \in Seq(Command) /\ replay \in Seq(Command)
  BY DEF TypeOK
<1>2. /\ p \in Seq(Command) /\ Len(p) = Len(ring) + Len(recovered)
      /\ \A i \in 1 .. Len(ring) + Len(recovered) :
           p[i] = IF i <= Len(ring) THEN ring[i] ELSE recovered[i - Len(ring)]
  BY <1>1, ConcatProperties
<1>3. Len(ring) \in Nat /\ Len(recovered) \in Nat /\ Len(replay) \in Nat /\ Len(p) \in Nat
  BY <1>1, <1>2
<1> HIDE DEF p
<1>4. /\ q \in Seq(Command) /\ Len(q) = Len(p) + Len(replay)
      /\ \A i \in 1 .. Len(p) + Len(replay) :
           q[i] = IF i <= Len(p) THEN p[i] ELSE replay[i - Len(p)]
  <2>1. p \in Seq(Command) /\ replay \in Seq(Command)
    BY <1>1, <1>2
  <2> HIDE <1>1, <1>2
  <2> QED
    BY <2>1, ConcatProperties
<1>5. \A j \in 1 .. Len(q) : ~Touches(q[j], x)
  BY DEF InChannel, Touching, p
<1> HIDE DEF q
<1>6. ASSUME NEW j \in 1 .. Len(p) PROVE ~Touches(p[j], x)
  <2>1. j \in 1 .. Len(q) /\ q[j] = p[j]
    BY <1>3, <1>4
  <2> QED
    BY <1>5, <2>1
<1>7. ASSUME NEW j \in 1 .. Len(replay) PROVE replay[j] \in Leaving(x)
  <2>1. /\ Len(p) + j \in 1 .. Len(p) + Len(replay) /\ ~(Len(p) + j <= Len(p))
        /\ (Len(p) + j) - Len(p) = j
    BY <1>3
  <2>2. Len(p) + j \in 1 .. Len(q) /\ q[Len(p) + j] = replay[j] /\ replay[j] \in Command
    BY <1>1, <1>4, <2>1
  <2> QED
    BY <1>5, <2>2 DEF Leaving
<1>8. ASSUME NEW j \in 1 .. Len(ring) PROVE ring[j] \in Leaving(x)
  <2>1. j \in 1 .. Len(p) /\ p[j] = ring[j] /\ ring[j] \in Command
    BY <1>1, <1>2, <1>3
  <2> QED
    BY <1>6, <2>1 DEF Leaving
<1>9. ASSUME NEW j \in 1 .. Len(recovered) PROVE recovered[j] \in Leaving(x)
  <2>1. /\ Len(ring) + j \in 1 .. Len(ring) + Len(recovered) /\ ~(Len(ring) + j <= Len(ring))
        /\ (Len(ring) + j) - Len(ring) = j
    BY <1>3
  <2>2. Len(ring) + j \in 1 .. Len(p) /\ p[Len(ring) + j] = recovered[j] /\ recovered[j] \in Command
    BY <1>1, <1>2, <2>1
  <2> QED
    BY <1>6, <2>2 DEF Leaving
<1>10. ring \in Seq(Leaving(x))
  BY <1>1, <1>8
<1>11. recovered \in Seq(Leaving(x))
  BY <1>1, <1>9
<1>12. replay \in Seq(Leaving(x))
  BY <1>1, <1>7
<1> QED
  BY <1>10, <1>11, <1>12 DEF Quiet, ChannelOf

(* InSlot() component by component.                                        *)
LEMMA SlotIs ==
  /\ InSlot("model") <=> ModelInSlot
  /\ InSlot("ir") <=> IrInSlot
BY DEF InSlot, Touches, ModelInSlot, IrInSlot, RestoresModel, RestoresIr

(* What CInv says of the sequences.                                        *)
LEMMA Sequences ==
  ASSUME CInv
  PROVE  /\ ring \in Seq(Command) /\ recovered \in Seq(Command) /\ replay \in Seq(Command)
         /\ ring \in Seq(Sane) /\ ops \in Nat
         /\ pending_model # None =>
              /\ pending_model \in Command /\ IsModel(pending_model)
              /\ pending_model.ir = Keep /\ pending_model.model # Keep
BY DEF CInv, TypeOK, Shapes, ChannelOf, Shape, IsModel

(* A restore before the first activation.                                  *)
LEMMA LocalCommitSound ==
  ASSUME CInv, Sound, NEW cmd \in Sane, NEW full \in BOOLEAN, cmd.kind = "RestoreTxn",
         cmd.id = ops + 1, LocalCommit(cmd, full), UNCHANGED <<sized, phase, dsp, latency>>
  PROVE  Sound'
<1>1. /\ ~sized /\ ops' = ops + 1
      /\ UNCHANGED <<pending_restore, pending_ir, staged_restore, ring, recovered, replay>>
      /\ pending_model' = IF cmd.model = Keep THEN pending_model
                          ELSE [cmd EXCEPT !.kind = "LoadModel", !.ir = Keep]
      /\ staged_swap' = [staged_swap EXCEPT !.ir = Replaced(@, cmd.ir)]
      /\ shown' = [model |-> Replaced(shown.model, cmd.model), ir |-> Replaced(shown.ir, cmd.ir)]
  BY DEF LocalCommit, Operation, Published, channel
<1>2. /\ staged_restore = None /\ pending_restore = None /\ pending_ir = None
      /\ staged_swap.model = Keep /\ dsp = None
      /\ ring \in Seq(Still) /\ recovered \in Seq(Still) /\ replay \in Seq(Still)
  BY <1>1 DEF CInv, Unsized, ChannelOf
<1>3. staged_swap'.model = Keep /\ staged_swap'.ir = Replaced(staged_swap.ir, cmd.ir)
  BY <1>1, <1>2 DEF CInv, TypeOK, StagedSwap
<1>4. Sound
  OBVIOUS
<1>5. HasChain'
  BY <1>1, <1>2, <1>4 DEF Sound, HasChain
<1>6. Quiet("model") /\ Quiet("ir")
  <2>1. Still \subseteq Leaving("model") /\ Still \subseteq Leaving("ir")
    BY DEF Still, Leaving, Touches
  <2> QED
    BY <1>2, <2>1, SeqMonotonic DEF Quiet, ChannelOf
<1>7. Quiet("model")' /\ Quiet("ir")' /\ SameLanding("model") /\ SameLanding("ir")
  BY <1>1, <1>6, ChannelFrame
<1>8. Newer'
  <2>1. \A b : ring \in Seq(Older(b))
    <3>1. ring \in Seq(Sane) /\ ring \in Seq(Command)
      BY Sequences
    <3> SUFFICES ASSUME NEW b, NEW j \in 1 .. Len(ring) PROVE ring[j] \in Older(b)
      BY <3>1
    <3>2. ring[j] \in Still /\ ring[j] \in Sane
      BY <1>2, <3>1, ElementOfSeq
    <3> QED
      BY <3>2 DEF Still, Sane, Shape, Older, IsModel
  <2>2. ops \in Nat
    BY Sequences
  <2>3. pending_model' # None => pending_model'.id \in Nat /\ pending_model'.id <= ops + 1
    <3>1. pending_model # None => pending_model.id < ops + 1 /\ pending_model.id \in Nat
      BY <1>4, Sequences DEF Sound, Newer, Command
    <3>2. pending_model' = pending_model \/ pending_model'.id = ops + 1
      <4>1. [cmd EXCEPT !.kind = "LoadModel", !.ir = Keep].id = cmd.id
        BY DEF Sane, Command
      <4> QED
        BY <1>1, <4>1
    <3> QED
      BY <2>2, <3>1, <3>2
  <2>4. pending_model' # None => pending_model'.id < ops' + 1
    BY <1>1, <2>2, <2>3
  <2> QED
    BY <1>1, <2>1, <2>4 DEF Newer
<1>9. ModelAlone' /\ IrAlone' /\ RestoreAlone'
  BY <1>1, <1>2, <1>3, <1>7 DEF ModelAlone, IrAlone, RestoreAlone, ModelInSlot, IrInSlot,
     RestoresModel, RestoresIr, StagesModel, StagesIr
<1>10. ModelAgrees'
  <2>1. ModelToShow' = Replaced(shown.model, cmd.model) /\ ModelToShow = shown.model
    BY <1>1, <1>2 DEF ModelToShow, RestoresModel
  <2>2. CASE cmd.model = Keep
    <3>1. KeptModel' = KeptModel /\ pending_model' = pending_model
      BY <1>1, <1>2, <2>2 DEF KeptModel
    <3>2. ModelToShow' = ModelToShow
      BY <2>1, <2>2 DEF Replaced
    <3> QED
      BY <1>2, <1>3, <1>4, <1>7, <3>1, <3>2, ModelFrame DEF Sound
  <2>3. CASE cmd.model # Keep
    <3>1. [cmd EXCEPT !.kind = "LoadModel", !.ir = Keep].model = cmd.model
      BY DEF Sane, Command
    <3>2. [cmd EXCEPT !.kind = "LoadModel", !.ir = Keep] \in Command
      BY Constants DEF Sane, Command
    <3>3. pending_model' # None /\ pending_model'.model = cmd.model
      BY <1>1, <2>3, <3>1, <3>2, Constants
    <3> QED
      BY <1>3, <2>1, <2>3, <3>3 DEF ModelAgrees, ModelToRun, Replaced
  <2> QED
    BY <2>2, <2>3
<1>11. IrAgrees'
  <2>1. IrToShow' = Replaced(shown.ir, cmd.ir) /\ IrToShow = shown.ir /\ shown'.ir = Replaced(shown.ir, cmd.ir)
    BY <1>1, <1>2 DEF IrToShow, RestoresIr
  <2>2. CASE cmd.ir = Keep
    <3>1. KeptIr' = KeptIr
      BY <1>1, <1>2, <2>1, <2>2 DEF KeptIr, Replaced
    <3>2. IrToShow' = IrToShow /\ staged_swap'.ir = staged_swap.ir
      BY <1>3, <2>1, <2>2 DEF Replaced
    <3> QED
      BY <1>1, <1>4, <1>7, <3>1, <3>2, IrFrame DEF Sound
  <2>3. CASE cmd.ir # Keep
    BY <1>3, <2>1, <2>3 DEF IrAgrees, IrToRun, Replaced
  <2> QED
    BY <2>2, <2>3
<1>12. IrShown'
  BY <1>2 DEF IrShown
<1> QED
  BY <1>5, <1>8, <1>9, <1>10, <1>11, <1>12 DEF Sound

(* A command that sets a component lands on it when it is sent, and leaves *)
(* the other one alone.                                                    *)
LEMMA SendsModel ==
  ASSUME CInv, NEW c \in Command, ring' = Append(ring, c), UNCHANGED <<recovered, replay>>
  PROVE  /\ c.model # Keep =>
              \A v : LandsIn(recovered', replay', ring', "model", v) = c.model
         /\ c.model = Keep => SameLanding("model") /\ (Quiet("model") => Quiet("model")')
<1>1. ring \in Seq(Command)
  BY Sequences
<1>2. Touches(c, "model") <=> c.model # Keep
  BY DEF Touches
<1>3. Of(c, "model") = c.model
  BY DEF Of
<1>4. ASSUME c.model # Keep, NEW v
      PROVE  LandsIn(recovered', replay', ring', "model", v) = c.model
  BY <1>1, <1>2, <1>3, <1>4, LandsPush
<1> QED
  BY <1>1, <1>2, <1>4, PushLeaves

LEMMA SendsIr ==
  ASSUME CInv, NEW c \in Command, ring' = Append(ring, c), UNCHANGED <<recovered, replay>>
  PROVE  /\ c.ir # Keep =>
              \A v : LandsIn(recovered', replay', ring', "ir", v) = c.ir
         /\ c.ir = Keep => SameLanding("ir") /\ (Quiet("ir") => Quiet("ir")')
<1>1. ring \in Seq(Command)
  BY Sequences
<1>2. Touches(c, "ir") <=> c.ir # Keep
  BY DEF Touches
<1>3. Of(c, "ir") = c.ir
  BY DEF Of
<1>4. ASSUME c.ir # Keep, NEW v
      PROVE  LandsIn(recovered', replay', ring', "ir", v) = c.ir
  BY <1>1, <1>2, <1>3, <1>4, LandsPush
<1> QED
  BY <1>1, <1>2, <1>4, PushLeaves

(* A restore that is sent, now or after its first try, and nothing else.   *)
LEMMA SendRestoreSound ==
  ASSUME CInv, Sound, NEW cmd \in Command, cmd.kind = "RestoreTxn",
         pending_restore' # None, pending_restore'.cmd = cmd,
         pending_restore'.delivered <=> Room,
         ring' = IF Room THEN Append(ring, cmd) ELSE ring,
         ~Delivered,
         UNCHANGED <<sized, phase, dsp, latency, recovered, replay>>,
         UNCHANGED <<pending_model, pending_ir, staged_swap, shown>>,
         staged_restore' = None, ops' \in {ops, ops + 1},
         cmd.model # Keep => pending_model = None /\ staged_swap.model = Keep,
         cmd.ir # Keep => pending_ir = None /\ staged_swap.ir = Keep
  PROVE  Sound'
<1>1. /\ HasChain /\ Newer /\ ModelAlone /\ IrAlone /\ RestoreAlone
      /\ ModelAgrees /\ IrAgrees /\ IrShown
  BY DEF Sound
<1>2. ring \in Seq(Command) /\ TypeOK
  BY Sequences DEF CInv
<1>3. /\ RestoresModel' <=> cmd.model # Keep
      /\ RestoresIr' <=> cmd.ir # Keep
      /\ Delivered' <=> Room
  BY DEF RestoresModel, RestoresIr, Delivered
<1>4. ModelToShow = shown.model /\ IrToShow = shown.ir
  BY DEF ModelToShow, IrToShow
<1>5. /\ ModelToShow' = IF Room /\ cmd.model # Keep THEN cmd.model ELSE shown.model
      /\ IrToShow' = IF Room /\ cmd.ir # Keep THEN cmd.ir ELSE shown.ir
  BY <1>3 DEF ModelToShow, IrToShow
<1>6. /\ cmd.model = Keep \/ ~Room => SameLanding("model") /\ (Quiet("model") => Quiet("model")')
      /\ cmd.ir = Keep \/ ~Room => SameLanding("ir") /\ (Quiet("ir") => Quiet("ir")')
  <2>1. CASE Room
    BY <2>1, SendsModel, SendsIr
  <2>2. CASE ~Room
    BY <2>2, ChannelFrame
  <2> QED
    BY <2>1, <2>2
<1>7. HasChain'
  BY <1>1 DEF HasChain
<1>8. Newer'
  <2>1. ~IsModel(cmd)
    BY DEF IsModel
  <2>2. ring' = ring \/ ring' = Append(ring, cmd)
    OBVIOUS
  <2> QED
    BY <1>1, <1>2, <2>1, <2>2, NewerPush
<1>9. ModelAlone'
  BY <1>1, <1>3, <1>6 DEF ModelAlone, StagesModel, ModelInSlot
<1>10. IrAlone'
  BY <1>1, <1>3, <1>6 DEF IrAlone, StagesIr, IrInSlot
<1>11. RestoreAlone'
  BY <1>3 DEF RestoreAlone
<1>12. ModelAgrees'
  <2>1. KeptModel' = KeptModel
    BY DEF KeptModel
  <2>2. CASE cmd.model = Keep \/ ~Room
    <3>1. ModelToShow' = ModelToShow
      BY <1>4, <1>5, <2>2
    <3> QED
      BY <1>1, <1>6, <2>1, <2>2, <3>1, ModelFrame
  <2>3. CASE cmd.model # Keep /\ Room
    <3>1. \A v : LandsIn(recovered', replay', ring', "model", v) = cmd.model
      BY <2>3, SendsModel
    <3>2. ModelToRun' = cmd.model
      BY <2>3, <3>1 DEF ModelToRun, Lands
    <3> QED
      BY <1>5, <2>3, <3>2 DEF ModelAgrees
  <2> QED
    BY <2>2, <2>3
<1>13. IrAgrees'
  <2>1. KeptIr' = KeptIr
    BY DEF KeptIr
  <2>2. CASE cmd.ir = Keep \/ ~Room
    <3>1. IrToShow' = IrToShow
      BY <1>4, <1>5, <2>2
    <3> QED
      BY <1>1, <1>6, <2>1, <2>2, <3>1, IrFrame
  <2>3. CASE cmd.ir # Keep /\ Room
    <3>1. \A v : LandsIn(recovered', replay', ring', "ir", v) = cmd.ir
      BY <2>3, SendsIr
    <3>2. IrToRun' = cmd.ir
      BY <2>3, <3>1 DEF IrToRun, Lands
    <3> QED
      BY <1>5, <2>3, <3>2 DEF IrAgrees
  <2> QED
    BY <2>2, <2>3
<1>14. IrShown'
  BY <1>1 DEF IrShown
<1> QED
  BY <1>7, <1>8, <1>9, <1>10, <1>11, <1>12, <1>13, <1>14 DEF Sound

(* A restore that notes no hazard finds nothing staged and none on its way.*)
LEMMA CommitNotes ==
  ASSUME CommitHazards = {}
  PROVE  staged_swap = NothingStaged /\ pending_restore = None
BY DEF CommitHazards, Noting

LEMMA ContinuousCommitSound ==
  ASSUME CInv, Sound, NEW cmd \in Sane, NEW full \in BOOLEAN, cmd.kind = "RestoreTxn",
         ContinuousCommit(cmd, full), UNCHANGED <<sized, phase, dsp, latency>>, met' = {}
  PROVE  Sound'
<1>1. /\ sized /\ staged_restore' = None /\ staged_swap' = NothingStaged
      /\ ring' = (IF Room THEN Append(ring, cmd) ELSE ring)
      /\ pending_restore' = [cmd |-> cmd, full |-> full, delivered |-> Room]
      /\ UNCHANGED <<pending_model, pending_ir, recovered, replay, shown>>
  BY DEF ContinuousCommit, identity
<1>2. cmd \in Command
  BY SaneIs
<1>3. /\ ops' = ops + 1
      /\ staged_swap = NothingStaged /\ pending_restore = None
      /\ cmd.model # Keep => ~ModelInSlot
      /\ cmd.ir # Keep => ~IrInSlot
  <2>1. Operation(TouchedBy(cmd), FALSE, CommitHazards)
    BY DEF ContinuousCommit
  <2>2. ops' = ops + 1 /\ CommitHazards = {}
    BY <2>1 DEF Operation
  <2>3. \A x \in TouchedBy(cmd) : ~InSlot(x)
    BY <2>1 DEF Operation, Noting
  <2>4. /\ cmd.model # Keep => "model" \in TouchedBy(cmd)
        /\ cmd.ir # Keep => "ir" \in TouchedBy(cmd)
    BY DEF TouchedBy, Touches
  <2> QED
    BY <2>2, <2>3, <2>4, CommitNotes, SlotIs
<1>4. /\ pending_restore' # None /\ pending_restore'.cmd = cmd
      /\ pending_restore'.delivered <=> Room
  <2>1. Room \in BOOLEAN
    BY DEF Room
  <2>2. pending_restore' \in Restore
    BY <1>1, <1>2, <2>1 DEF Restore
  <2> QED
    BY <1>1, <2>1, <2>2, Constants
<1>5. ~Delivered
  BY <1>3 DEF Delivered
<1>6. /\ cmd.model # Keep => pending_model = None /\ staged_swap.model = Keep
      /\ cmd.ir # Keep => pending_ir = None /\ staged_swap.ir = Keep
  BY <1>1, <1>3 DEF ModelInSlot, IrInSlot, NothingStaged
<1>7. staged_swap' = staged_swap /\ ops' \in {ops, ops + 1}
  BY <1>1, <1>3
<1> QED
  BY <1>1, <1>2, <1>4, <1>5, <1>6, <1>7, SendRestoreSound

LEMMA StagedCommitSound ==
  ASSUME CInv, Sound, NEW cmd \in Sane, NEW full \in BOOLEAN, NEW os_differs,
         StagedCommit(cmd, full, os_differs), UNCHANGED <<sized, phase, dsp, latency>>, met' = {}
  PROVE  Sound'
<1>1. /\ sized /\ staged_swap' = NothingStaged
      /\ staged_restore' = [cmd |-> cmd, full |-> full, delivered |-> FALSE]
      /\ UNCHANGED <<pending_model, pending_restore, pending_ir, ring, recovered, replay, shown>>
  BY DEF StagedCommit, identity, slots, channel
<1>2. /\ ops' = ops + 1
      /\ staged_swap = NothingStaged /\ pending_restore = None
      /\ cmd.model # Keep => ~ModelInSlot /\ Quiet("model")
      /\ cmd.ir # Keep => ~IrInSlot /\ Quiet("ir")
  <2>1. Operation(TouchedBy(cmd), TRUE, CommitHazards)
    BY DEF StagedCommit
  <2>2. ops' = ops + 1 /\ CommitHazards = {}
    BY <2>1 DEF Operation
  <2>3. \A x \in TouchedBy(cmd) : ~InSlot(x) /\ ~InChannel(x)
    BY <2>1 DEF Operation, Noting
  <2>4. /\ cmd.model # Keep => "model" \in TouchedBy(cmd)
        /\ cmd.ir # Keep => "ir" \in TouchedBy(cmd)
    BY DEF TouchedBy, Touches
  <2>5. TypeOK
    BY DEF CInv
  <2> QED
    BY <2>2, <2>3, <2>4, <2>5, CommitNotes, SlotIs, InChannelIs
<1>3. /\ HasChain /\ Newer /\ ModelAgrees /\ IrAgrees /\ IrShown
  BY DEF Sound
<1>4. staged_restore'.cmd = cmd /\ staged_swap' = staged_swap
  BY <1>1, <1>2
<1>5. /\ SameLanding("model") /\ SameLanding("ir")
      /\ Quiet("model")' = Quiet("model") /\ Quiet("ir")' = Quiet("ir")
  BY <1>1, ChannelFrame
<1>6. HasChain' /\ IrShown'
  BY <1>1, <1>3, <1>4 DEF HasChain, IrShown
<1>7. Newer'
  BY <1>1, <1>2, <1>3, NewerFrame DEF CInv
<1>8. ModelInSlot' = ModelInSlot /\ IrInSlot' = IrInSlot
  BY <1>1 DEF ModelInSlot, IrInSlot, RestoresModel, RestoresIr
<1>9. ModelAlone' /\ IrAlone'
  <2>1. (StagesModel' => cmd.model # Keep) /\ (StagesIr' => cmd.ir # Keep)
    BY <1>1, <1>4 DEF StagesModel, StagesIr, NothingStaged
  <2> QED
    BY <1>2, <1>5, <1>8, <2>1 DEF ModelAlone, IrAlone
<1>10. RestoreAlone'
  BY <1>1, <1>2 DEF RestoreAlone, RestoresModel, RestoresIr, NothingStaged
<1>11. ModelAgrees'
  <2>1. KeptModel' = KeptModel /\ ModelToShow' = ModelToShow
    BY <1>1 DEF KeptModel, ModelToShow, Delivered, RestoresModel
  <2> QED
    BY <1>1, <1>3, <1>4, <1>5, <2>1, ModelFrame
<1>12. IrAgrees'
  <2>1. KeptIr' = KeptIr /\ IrToShow' = IrToShow
    BY <1>1 DEF KeptIr, IrToShow, Delivered, RestoresIr
  <2> QED
    BY <1>1, <1>3, <1>4, <1>5, <2>1, IrFrame
<1> QED
  BY <1>6, <1>7, <1>9, <1>10, <1>11, <1>12 DEF Sound

(* A restore, whichever way it is committed.                               *)
LEMMA CommitSound ==
  ASSUME CInv, Sound, Commit, met' = {}
  PROVE  Sound'
<1>1. PICK full \in BOOLEAN, m \in ModelOrNone, i \in IrOrNone :
        LET cmd == RestoreCommand(full, m, i)
        IN  \/ LocalCommit(cmd, full)
            \/ ContinuousCommit(cmd, full)
            \/ \E os_differs \in BOOLEAN : StagedCommit(cmd, full, os_differs)
  BY DEF Commit
<1>2. UNCHANGED <<sized, phase, dsp, latency>>
  BY DEF Commit, chain
<1> DEFINE cmd == RestoreCommand(full, m, i)
<1>3. cmd \in Sane /\ cmd.kind = "RestoreTxn" /\ cmd.id = ops + 1
  BY RestoreTypes, Sequences
<1>4. \/ LocalCommit(cmd, full)
      \/ ContinuousCommit(cmd, full)
      \/ \E os_differs \in BOOLEAN : StagedCommit(cmd, full, os_differs)
  BY <1>1
<1> HIDE DEF cmd
<1>5. CASE LocalCommit(cmd, full)
  BY <1>2, <1>3, <1>5, LocalCommitSound
<1>6. CASE ContinuousCommit(cmd, full)
  BY <1>2, <1>3, <1>6, ContinuousCommitSound
<1>7. ASSUME NEW os_differs \in BOOLEAN, StagedCommit(cmd, full, os_differs) PROVE Sound'
  BY <1>2, <1>3, <1>7, StagedCommitSound
<1> QED
  BY <1>4, <1>5, <1>6, <1>7

(* Nothing of it changes.                                                  *)
LEMMA SoundFrame ==
  ASSUME Sound, UNCHANGED <<ops, sized, pending_model, pending_restore, pending_ir>>,
         UNCHANGED <<staged_swap, staged_restore, shown, ring, recovered, replay>>,
         UNCHANGED <<phase, dsp, latency>>
  PROVE  Sound'
<1>1. HasChain' /\ Newer'
  BY DEF Sound, HasChain, Newer
<1>2. ModelAlone' /\ IrAlone' /\ RestoreAlone'
  BY ChannelFrame DEF Sound, ModelAlone, IrAlone, RestoreAlone, StagesModel, StagesIr,
     ModelInSlot, IrInSlot, RestoresModel, RestoresIr
<1>3. ModelAgrees'
  <2>1. KeptModel' = KeptModel /\ ModelToShow' = ModelToShow
    BY DEF KeptModel, ModelToShow, Delivered, RestoresModel
  <2> QED
    BY <2>1, ChannelFrame, ModelFrame DEF Sound
<1>4. IrAgrees'
  <2>1. KeptIr' = KeptIr /\ IrToShow' = IrToShow
    BY DEF KeptIr, IrToShow, Delivered, RestoresIr
  <2> QED
    BY <2>1, ChannelFrame, IrFrame DEF Sound
<1>5. IrShown'
  BY DEF Sound, IrShown
<1> QED
  BY <1>1, <1>2, <1>3, <1>4, <1>5 DEF Sound

LEMMA RedeliverRestoreSound ==
  ASSUME CInv, Sound, RedeliverRestore
  PROVE  Sound'
<1>1. /\ UNCHANGED <<ops, sized, pending_model, pending_ir, recovered, replay>>
      /\ UNCHANGED <<phase, dsp, latency, shown, staged_swap, staged_restore>>
      /\ pending_restore # None /\ ~pending_restore.delivered
      /\ ring' = (IF Room THEN Append(ring, pending_restore.cmd) ELSE ring)
      /\ pending_restore' = [pending_restore EXCEPT !.delivered = Room]
  BY DEF RedeliverRestore, RestoreToPush, chain, identity, staging
<1>2. pending_restore \in Restore /\ FullRestore(pending_restore)
  BY <1>1 DEF CInv, TypeOK, Shapes
<1> DEFINE cmd == pending_restore.cmd
<1>3. cmd \in Command /\ cmd.kind = "RestoreTxn"
  BY <1>2 DEF Restore, FullRestore
<1>4. /\ pending_restore' # None /\ pending_restore'.cmd = cmd
      /\ pending_restore'.delivered <=> Room
  <2>1. Room \in BOOLEAN
    BY DEF Room
  <2>2. pending_restore' \in Restore /\ pending_restore'.cmd = cmd
        /\ pending_restore'.delivered = Room
    BY <1>1, <1>2, <2>1 DEF Restore
  <2> QED
    BY <2>1, <2>2, Constants
<1>5. ~Delivered
  BY <1>1 DEF Delivered
<1>6. /\ HasChain /\ ModelAlone /\ IrAlone /\ RestoreAlone
  BY DEF Sound
<1>7. staged_restore' = None
  BY <1>1, <1>6 DEF RestoreAlone
<1>8. /\ cmd.model # Keep => pending_model = None /\ staged_swap.model = Keep
      /\ cmd.ir # Keep => pending_ir = None /\ staged_swap.ir = Keep
  BY <1>1, <1>6 DEF RestoreAlone, ModelAlone, IrAlone, StagesModel, StagesIr, ModelInSlot,
     IrInSlot, RestoresModel, RestoresIr
<1>9. ring' = (IF Room THEN Append(ring, cmd) ELSE ring) /\ ops' \in {ops, ops + 1}
  BY <1>1
<1> HIDE DEF cmd
<1> QED
  BY <1>1, <1>3, <1>4, <1>5, <1>7, <1>8, <1>9, SendRestoreSound

(* The ack has come: what runs is what is published.                       *)
LEMMA PublishRestoreSound ==
  ASSUME CInv, Sound, PublishRestore, "carried" \notin met
  PROVE  Sound'
<1> DEFINE cmd == pending_restore.cmd
<1>1. /\ UNCHANGED <<ops, sized, pending_model, pending_ir, ring, recovered, replay>>
      /\ UNCHANGED <<phase, dsp, latency, staged_swap, staged_restore>>
      /\ pending_restore # None /\ pending_restore.delivered
      /\ pending_restore' = None
      /\ shown' = [model |-> Replaced(shown.model, cmd.model), ir |-> Replaced(shown.ir, cmd.ir)]
  BY DEF PublishRestore, RestoreAcked, Published, chain, channel, staging
<1>2. /\ HasChain /\ Newer /\ ModelAlone /\ IrAlone /\ RestoreAlone
      /\ ModelAgrees /\ IrAgrees /\ IrShown
  BY DEF Sound
<1>3. /\ SameLanding("model") /\ SameLanding("ir")
      /\ Quiet("model")' = Quiet("model") /\ Quiet("ir")' = Quiet("ir")
  BY <1>1, ChannelFrame
<1>4. /\ ModelToShow' = ModelToShow /\ ModelToShow' = shown'.model
      /\ IrToShow' = IrToShow /\ IrToShow' = shown'.ir
  BY <1>1 DEF ModelToShow, IrToShow, Delivered, RestoresModel, RestoresIr, Replaced
<1>5. (RestoresIr <=> cmd.ir # Keep)
  BY <1>1 DEF RestoresIr
<1>6. HasChain' /\ RestoreAlone'
  BY <1>1, <1>2 DEF HasChain, RestoreAlone, RestoresModel, RestoresIr
<1>7. Newer'
  BY <1>1, <1>2 DEF Newer
<1>8. ModelAlone' /\ IrAlone'
  BY <1>1, <1>2, <1>3 DEF ModelAlone, IrAlone, StagesModel, StagesIr,
     ModelInSlot, IrInSlot, RestoresModel, RestoresIr
<1>9. ModelAgrees'
  <2>1. KeptModel' = KeptModel
    BY <1>1 DEF KeptModel
  <2> QED
    BY <1>1, <1>2, <1>3, <1>4, <2>1, ModelFrame
<1>10. CASE cmd.ir = Keep
  <2>1. shown'.ir = shown.ir
    BY <1>1, <1>10 DEF Replaced
  <2>2. KeptIr' = KeptIr
    BY <1>1, <2>1 DEF KeptIr
  <2>3. IrAgrees'
    BY <1>1, <1>2, <1>3, <1>4, <2>2, IrFrame
  <2>4. IrShown'
    BY <1>1, <1>2, <2>1 DEF IrShown
  <2> QED
    BY <1>6, <1>7, <1>8, <1>9, <2>3, <2>4 DEF Sound
<1>11. CASE cmd.ir # Keep
  <2>1. pending_ir = None /\ staged_swap.ir = Keep
    BY <1>2, <1>5, <1>11 DEF RestoreAlone, IrAlone, StagesIr, IrInSlot
  <2>2. shown'.ir = cmd.ir
    BY <1>1, <1>11 DEF Replaced
  <2>3. Lands("ir", KeptIr) = cmd.ir
    <3>1. IrToRun = IrToShow
      BY <1>2, <2>1 DEF IrAgrees
    <3> QED
      BY <1>4, <2>1, <2>2, <3>1 DEF IrToRun
  <2>4. LandsIn(recovered, replay, ring, "ir", KeptIr') = cmd.ir
    <3>1. KeptIr' = KeptIr \/ KeptIr' = cmd.ir
      BY <1>1, <2>2 DEF KeptIr
    <3>2. LandsIn(recovered, replay, ring, "ir", KeptIr) = cmd.ir
      BY <2>3 DEF Lands
    <3>3. \/ \A v : LandsIn(recovered, replay, ring, "ir", v) = v
          \/ \A v, w : LandsIn(recovered, replay, ring, "ir", v)
                        = LandsIn(recovered, replay, ring, "ir", w)
      BY LandsEither
    <3> QED
      BY <3>1, <3>2, <3>3
  <2>5. IrAgrees'
    <3>1. IrToRun' = cmd.ir
      BY <1>1, <2>1, <2>4 DEF IrToRun, Lands
    <3> QED
      BY <1>4, <2>2, <3>1 DEF IrAgrees
  <2>6. dsp # None => CabsimLatency(cmd.ir) = latency.cabsim
    BY <1>1, <1>11 DEF CInv, SameLatency, OtherLatency
  <2>7. IrShown'
    BY <1>1, <2>2, <2>6 DEF IrShown
  <2> QED
    BY <1>6, <1>7, <1>8, <1>9, <2>5, <2>7 DEF Sound
<1> QED
  BY <1>10, <1>11

LEMMA IdleStepsSound ==
  ASSUME Sound, NoRestoreToFlush \/ NothingRequested
  PROVE  Sound'
<1>1. UNCHANGED <<ops, sized, slots, staging, identity, channel, chain, phase, poison, bounds, met>>
  BY DEF NoRestoreToFlush, NothingRequested
<1>2. /\ UNCHANGED <<ops, sized, pending_model, pending_restore, pending_ir>>
      /\ UNCHANGED <<staged_swap, staged_restore, shown, ring, recovered, replay>>
      /\ UNCHANGED <<phase, dsp, latency>>
  BY <1>1 DEF chain, channel, staging, slots, identity
<1> QED
  BY <1>2, SoundFrame

LEMMA FlushPendingModelSound ==
  ASSUME CInv, Sound, FlushPendingModel
  PROVE  Sound'
<1>1. /\ UNCHANGED <<ops, sized, pending_restore, pending_ir, recovered, replay>>
      /\ UNCHANGED <<phase, dsp, latency, shown, staged_swap, staged_restore>>
      /\ ring' = (IF Flushes THEN Append(ring, pending_model) ELSE ring)
      /\ pending_model' = IF Flushes THEN None ELSE pending_model
  BY DEF FlushPendingModel, chain, identity
<1>2. CASE ~Flushes
  BY <1>1, <1>2, SoundFrame
<1>3. CASE Flushes
  <2> DEFINE c == pending_model
  <2>1. /\ sized /\ c # None /\ c \in Command /\ IsModel(c) /\ c.ir = Keep /\ c.model # Keep
        /\ ring' = Append(ring, c) /\ pending_model' = None
    BY <1>1, <1>3, Sequences DEF Flushes
  <2>2. /\ HasChain /\ Newer /\ ModelAlone /\ IrAlone /\ RestoreAlone
        /\ ModelAgrees /\ IrAgrees /\ IrShown
    BY DEF Sound
  <2>3. /\ \A v : LandsIn(recovered', replay', ring', "model", v) = c.model
        /\ SameLanding("ir") /\ (Quiet("ir") => Quiet("ir")')
    BY <1>1, <2>1, SendsModel, SendsIr
  <2>4. HasChain'
    BY <1>1, <2>2 DEF HasChain
  <2>5. Newer'
    <3>1. ring \in Seq(Older(ops + 1)) /\ c.id < ops + 1
      BY <2>1, <2>2 DEF Newer
    <3>2. c \in Older(ops + 1)
      BY <2>1, <3>1 DEF Older
    <3>3. ring' \in Seq(Older(ops + 1))
      BY <2>1, <3>1, <3>2, AppendProperties
    <3> QED
      BY <1>1, <2>1, <3>3 DEF Newer
  <2>6. ~StagesModel
    BY <2>1, <2>2 DEF ModelAlone, ModelInSlot
  <2>7. ModelAlone'
    BY <1>1, <2>6 DEF ModelAlone, StagesModel
  <2>8. IrAlone'
    BY <1>1, <2>2, <2>3 DEF IrAlone, StagesIr, IrInSlot, RestoresIr
  <2>9. RestoreAlone'
    BY <1>1, <2>1, <2>2 DEF RestoreAlone, RestoresModel, RestoresIr
  <2>10. ModelAgrees'
    <3>1. staged_swap.model = Keep
      BY <2>6 DEF StagesModel
    <3>2. ModelToRun = c.model
      BY <2>1, <3>1 DEF ModelToRun
    <3>3. ModelToRun' = c.model
      BY <1>1, <2>1, <2>3, <3>1 DEF ModelToRun, Lands
    <3>4. ModelToShow' = ModelToShow
      BY <1>1 DEF ModelToShow, Delivered, RestoresModel
    <3> QED
      BY <2>2, <3>2, <3>3, <3>4 DEF ModelAgrees
  <2>11. IrAgrees'
    <3>1. KeptIr' = KeptIr /\ IrToShow' = IrToShow
      BY <1>1 DEF KeptIr, IrToShow, Delivered, RestoresIr
    <3> QED
      BY <1>1, <2>2, <2>3, <3>1, IrFrame
  <2>12. IrShown'
    BY <1>1, <2>2 DEF IrShown
  <2> QED
    BY <2>4, <2>5, <2>7, <2>8, <2>9, <2>10, <2>11, <2>12 DEF Sound
<1> QED
  BY <1>2, <1>3

(* A model asked for when nothing earlier of a model waits.                *)
LEMMA DeliverModelSound ==
  ASSUME CInv, Sound, NEW cmd \in Sane, cmd.kind = "LoadModel", cmd.id = ops + 1,
         DeliverModel(cmd), UNCHANGED <<sized, phase, dsp, latency>>, ops' = ops + 1,
         shown'.model = cmd.model, shown'.ir = shown.ir,
         ~ModelInSlot, ~SameStream(cmd.rate) => Quiet("model")
  PROVE  Sound'
<1>1. /\ pending_model' = IF ~sized \/ (SameStream(cmd.rate) /\ ~Room) THEN cmd ELSE pending_model
      /\ staged_restore' = (IF sized THEN None ELSE staged_restore)
      /\ ring' = (IF sized /\ SameStream(cmd.rate) /\ Room THEN Append(ring, cmd) ELSE ring)
      /\ staged_swap' =
           IF ~sized THEN staged_swap
           ELSE [staged_swap EXCEPT
                   !.model = IF SameStream(cmd.rate) THEN Keep ELSE cmd.model,
                   !.rate = IF SameStream(cmd.rate) THEN DefaultRate ELSE cmd.rate]
      /\ UNCHANGED <<pending_restore, pending_ir, recovered, replay>>
  BY DEF DeliverModel
<1>2. /\ HasChain /\ Newer /\ ModelAlone /\ IrAlone /\ RestoreAlone
      /\ ModelAgrees /\ IrAgrees /\ IrShown
  BY DEF Sound
<1>3. /\ cmd \in Command /\ cmd # None /\ IsModel(cmd) /\ cmd.model # Keep /\ cmd.ir = Keep
  BY Constants DEF Sane, Shape, IsModel
<1>4. /\ ~RestoresModel /\ ~RestoresModel' /\ (sized => pending_model = None)
  BY <1>1 DEF ModelInSlot, RestoresModel
<1>5. /\ staged_swap'.ir = staged_swap.ir
      /\ staged_swap'.model = IF sized /\ ~SameStream(cmd.rate) THEN cmd.model ELSE Keep
  <2>1. staged_swap \in StagedSwap /\ (~sized => staged_swap.model = Keep)
    BY DEF CInv, TypeOK, Unsized
  <2> QED
    BY <1>1, <2>1 DEF StagedSwap
<1>6. SameLanding("ir") /\ (Quiet("ir") => Quiet("ir")')
  <2>1. CASE ring' = ring
    BY <1>1, <2>1, ChannelFrame
  <2>2. CASE ring' = Append(ring, cmd)
    BY <1>1, <1>3, <2>2, SendsIr
  <2> QED
    BY <1>1, <2>1, <2>2
<1>7. HasChain'
  BY <1>1, <1>2 DEF HasChain
<1>8. Newer'
  <2>1. PICK i \in Nat : i = ops
    BY DEF CInv, TypeOK
  <2>2. ring \in Seq(Older(i + 1))
    BY <1>2, <2>1 DEF Newer
  <2>3. \A n \in Nat : n < i + 1 => n < (i + 1) + 1
    OBVIOUS
  <2>4. ring \in Seq(Older((i + 1) + 1))
    BY <2>2, <2>3, OlderGrows
  <2>5. i + 1 < (i + 1) + 1
    OBVIOUS
  <2>6. cmd.id = i + 1 /\ ops' = i + 1
    BY <2>1
  <2> HIDE <2>1
  <2>7. cmd \in Older((i + 1) + 1)
    BY <1>3, <2>5, <2>6, Zenon DEF Older
  <2>8. ring' \in Seq(Older((i + 1) + 1))
    <3>1. Append(ring, cmd) \in Seq(Older((i + 1) + 1))
      BY <2>4, <2>7, AppendProperties
    <3> QED
      BY <1>1, <2>4, <3>1, Zenon
  <2>9. CASE pending_model' = cmd /\ ring' = ring
    BY <2>2, <2>5, <2>6, <2>8, <2>9, Zenon DEF Newer
  <2>10. CASE pending_model' = None
    BY <2>6, <2>8, <2>10, Zenon DEF Newer
  <2>11. (pending_model' = cmd /\ ring' = ring) \/ pending_model' = None
    BY <1>1, <1>4
  <2> QED
    BY <2>9, <2>10, <2>11
<1>9. ModelAlone'
  <2>1. staged_restore' = None
    BY <1>1 DEF CInv, Unsized
  <2>2. StagesModel' => sized /\ ~SameStream(cmd.rate)
    BY <1>3, <1>5, <2>1 DEF StagesModel
  <2>3. sized /\ ~SameStream(cmd.rate) => pending_model' = None /\ ring' = ring
    BY <1>1, <1>4
  <2>4. ring' = ring => Quiet("model")' = Quiet("model")
    BY <1>1, ChannelFrame
  <2> QED
    BY <1>4, <2>2, <2>3, <2>4 DEF ModelAlone, ModelInSlot
<1>10. IrAlone'
  <2>1. StagesIr' => StagesIr
    BY <1>1, <1>5 DEF StagesIr
  <2>2. IrInSlot' = IrInSlot
    BY <1>1 DEF IrInSlot, RestoresIr
  <2> QED
    BY <1>2, <1>6, <2>1, <2>2 DEF IrAlone
<1>11. RestoreAlone'
  <2>1. staged_restore' = None
    BY <1>1 DEF CInv, Unsized
  <2>2. RestoresIr' => pending_ir' = None
    BY <1>1, <1>2 DEF RestoreAlone, RestoresIr
  <2> QED
    BY <1>4, <2>1, <2>2 DEF RestoreAlone
<1>12. ModelAgrees'
  <2>1. ModelToShow' = cmd.model
    BY <1>4 DEF ModelToShow
  <2>2. CASE sized /\ ~SameStream(cmd.rate)
    BY <1>3, <1>5, <2>1, <2>2 DEF ModelAgrees, ModelToRun
  <2>3. CASE sized /\ SameStream(cmd.rate) /\ Room
    <3>1. ring' = Append(ring, cmd) /\ pending_model' = None
      BY <1>1, <1>4, <2>3
    <3>2. \A v : LandsIn(recovered', replay', ring', "model", v) = cmd.model
      BY <1>1, <1>3, <3>1, SendsModel
    <3> QED
      BY <1>5, <2>1, <2>3, <3>1, <3>2 DEF ModelAgrees, ModelToRun, Lands
  <2>4. CASE ~sized \/ (SameStream(cmd.rate) /\ ~Room)
    BY <1>1, <1>3, <1>5, <2>1, <2>4 DEF ModelAgrees, ModelToRun
  <2> QED
    BY <2>2, <2>3, <2>4
<1>13. IrAgrees'
  <2>1. KeptIr' = KeptIr /\ IrToShow' = IrToShow
    BY <1>1 DEF KeptIr, IrToShow, Delivered, RestoresIr
  <2> QED
    BY <1>1, <1>2, <1>5, <1>6, <2>1, IrFrame
<1>14. IrShown'
  BY <1>1, <1>2, <1>5 DEF IrShown
<1> QED
  BY <1>7, <1>8, <1>9, <1>10, <1>11, <1>12, <1>13, <1>14 DEF Sound

LEMMA LoadModelSound ==
  ASSUME CInv, Sound, LoadModel, met' = {}
  PROVE  Sound'
<1>1. PICK m \in Models :
       /\ Operation({"model"}, ~SameStream(RateOf[m]), {})
       /\ DeliverModel(ModelCommand(m, RateOf[m]))
       /\ shown' = [shown EXCEPT !.model = m]
  BY DEF LoadModel
<1>2. UNCHANGED <<sized, phase, dsp, latency>>
  BY DEF LoadModel, chain
<1> DEFINE cmd == ModelCommand(m, RateOf[m])
<1>3. /\ cmd \in Sane /\ cmd.kind = "LoadModel" /\ cmd.id = ops + 1
      /\ cmd.model = m /\ cmd.rate = RateOf[m]
  <2>1. m \in ModelOrNone /\ RateOf[m] \in Rates /\ ops \in Nat
    BY Constants, Sequences
  <2> QED
    BY <2>1, CommandTypes
<1>4. DeliverModel(cmd)
  BY <1>1
<1> HIDE DEF cmd
<1>5. shown'.model = cmd.model /\ shown'.ir = shown.ir
  <2>1. shown \in Identity
    BY DEF CInv, TypeOK
  <2> QED
    BY <1>1, <1>3, <2>1 DEF Identity
<1>6. /\ ops' = ops + 1 /\ ~ModelInSlot
      /\ ~SameStream(cmd.rate) => Quiet("model")
  <2>1. ops' = ops + 1
    BY <1>1 DEF Operation
  <2>2. ~InSlot("model") /\ (~SameStream(RateOf[m]) => ~InChannel("model"))
    BY <1>1 DEF Operation, Noting
  <2>3. TypeOK
    BY DEF CInv
  <2> QED
    BY <1>3, <2>1, <2>2, <2>3, SlotIs, InChannelIs
<1> QED
  BY <1>2, <1>3, <1>4, <1>5, <1>6, DeliverModelSound

LEMMA ClearModelSound ==
  ASSUME CInv, Sound, ClearModel, met' = {}
  PROVE  Sound'
<1> DEFINE rate == IF sized THEN HostRate ELSE DefaultRate
           cmd == ModelCommand(NoAsset, rate)
<1>1. /\ UNCHANGED <<sized, phase, dsp, latency>>
      /\ shown' = [shown EXCEPT !.model = NoAsset]
      /\ DeliverModel(cmd)
  BY DEF ClearModel, ModelCleared, chain
<1>2. /\ cmd \in Sane /\ cmd.kind = "LoadModel" /\ cmd.id = ops + 1
      /\ cmd.model = NoAsset /\ cmd.rate = rate
  <2>1. NoAsset \in ModelOrNone /\ rate \in Rates /\ ops \in Nat
    BY Constants, Sequences
  <2> QED
    BY <2>1, CommandTypes
<1>3. sized => rate = HostRate
  OBVIOUS
<1>4. shown'.model = cmd.model /\ shown'.ir = shown.ir
  <2>1. shown \in Identity
    BY DEF CInv, TypeOK
  <2> QED
    BY <1>1, <1>2, <2>1 DEF Identity
<1> HIDE DEF cmd, rate
<1>5. ops' = ops + 1 /\ ~ModelInSlot /\ (~SameStream(HostRate) => ~InChannel("model"))
  <2>1. ops' = ops + 1
    BY DEF ClearModel, Operation
  <2>2. ~InSlot("model") /\ (~SameStream(HostRate) => ~InChannel("model"))
    BY DEF ClearModel, Operation, Noting
  <2> QED
    BY <2>1, <2>2, SlotIs
<1>6. ~SameStream(cmd.rate) => Quiet("model")
  <2>1. TypeOK
    BY DEF CInv
  <2>2. CASE sized
    BY <1>2, <1>3, <1>5, <2>1, <2>2, InChannelIs
  <2>3. CASE ~sized
    <3>1. ring \in Seq(Still) /\ recovered \in Seq(Still) /\ replay \in Seq(Still)
      BY <2>3 DEF CInv, Unsized, ChannelOf
    <3>2. Still \subseteq Leaving("model")
      BY DEF Still, Leaving, Touches
    <3> QED
      BY <3>1, <3>2, SeqMonotonic DEF Quiet, ChannelOf
  <2> QED
    BY <2>2, <2>3
<1> QED
  BY <1>1, <1>2, <1>4, <1>5, <1>6, DeliverModelSound

LEMMA ClearModelFailsNotes ==
  ASSUME ClearModelFails
  PROVE  met' # {}
BY DEF ClearModelFails, Operation

(* An IR asked for while a processor runs.                                 *)
LEMMA LoadIrActiveSound ==
  ASSUME CInv, Sound, NEW i \in Irs, LoadIrActive(i),
         UNCHANGED <<sized, pending_model, pending_restore, recovered, replay>>,
         UNCHANGED <<phase, dsp, latency>>, ops' \in {ops, ops + 1},
         ~RestoresIr, ~SameCabsim(i) => Quiet("ir")
  PROVE  Sound'
<1> DEFINE cmd == IrCommand(i)
<1>1. /\ phase # "inactive" /\ staged_restore' = None
      /\ staged_swap' = [staged_swap EXCEPT !.ir = IF SameCabsim(i) THEN Keep ELSE i]
      /\ ring' = (IF SameCabsim(i) /\ Room THEN Append(ring, cmd) ELSE ring)
      /\ pending_ir' = IF SameCabsim(i) /\ ~Room THEN i ELSE None
      /\ shown'.model = shown.model
      /\ SameCabsim(i) /\ ~Room => shown' = shown
      /\ ~(SameCabsim(i) /\ ~Room) => shown'.ir = i
  <2>1. shown \in Identity
    BY DEF CInv, TypeOK
  <2> QED
    BY <2>1 DEF LoadIrActive, ShowIr, identity, Identity
<1>2. /\ HasChain /\ Newer /\ ModelAlone /\ IrAlone /\ RestoreAlone
      /\ ModelAgrees /\ IrAgrees /\ IrShown
  BY DEF Sound
<1>3. i # None /\ i # Keep
  BY Constants
<1>4. /\ cmd \in Command /\ cmd.model = Keep /\ cmd.ir = i /\ ~IsModel(cmd)
  <2>1. ops \in Nat /\ i \in IrOrNone
    BY Constants, Sequences
  <2> QED
    BY <2>1, CommandTypes, SaneIs DEF IsModel
<1> HIDE DEF cmd
<1>5. /\ staged_swap'.model = staged_swap.model
      /\ staged_swap'.ir = IF SameCabsim(i) THEN Keep ELSE i
  BY <1>1 DEF CInv, TypeOK, StagedSwap
<1>6. SameLanding("model") /\ (Quiet("model") => Quiet("model")')
  <2>1. CASE ring' = ring
    BY <2>1, ChannelFrame
  <2>2. CASE ring' = Append(ring, cmd)
    BY <1>4, <2>2, SendsModel
  <2> QED
    BY <1>1, <2>1, <2>2
<1>7. ~RestoresIr'
  BY DEF RestoresIr
<1>8. HasChain'
  BY <1>1, <1>2 DEF HasChain
<1>9. Newer'
  <2>1. ring' = ring \/ ring' = Append(ring, cmd)
    BY <1>1
  <2>2. TypeOK
    BY DEF CInv
  <2> QED
    BY <1>2, <1>4, <2>1, <2>2, NewerPush
<1>10. ModelAlone'
  <2>1. StagesModel' => StagesModel
    BY <1>1, <1>5 DEF StagesModel
  <2>2. ModelInSlot' = ModelInSlot
    BY DEF ModelInSlot, RestoresModel
  <2> QED
    BY <1>2, <1>6, <2>1, <2>2 DEF ModelAlone
<1>11. IrAlone'
  <2>1. StagesIr' => ~SameCabsim(i)
    BY <1>1, <1>5 DEF StagesIr
  <2>2. ~SameCabsim(i) => pending_ir' = None /\ ring' = ring
    BY <1>1
  <2>3. ring' = ring => Quiet("ir")' = Quiet("ir")
    BY ChannelFrame
  <2> QED
    BY <1>7, <2>1, <2>2, <2>3 DEF IrAlone, IrInSlot
<1>12. RestoreAlone'
  BY <1>1, <1>2, <1>7 DEF RestoreAlone, RestoresModel
<1>13. ModelAgrees'
  <2>1. KeptModel' = KeptModel /\ ModelToShow' = ModelToShow
    BY <1>1 DEF KeptModel, ModelToShow, Delivered, RestoresModel
  <2> QED
    BY <1>2, <1>5, <1>6, <2>1, ModelFrame
<1>14. IrAgrees' /\ IrShown'
  <2>1. CASE SameCabsim(i) /\ ~Room
    BY <1>1, <1>3, <2>1 DEF IrAgrees, IrShown
  <2>2. CASE SameCabsim(i) /\ Room
    <3>1. /\ ring' = Append(ring, cmd) /\ shown'.ir = i /\ staged_swap'.ir = Keep
      BY <1>1, <1>5, <2>2
    <3>2. \A v : LandsIn(recovered', replay', ring', "ir", v) = i
      BY <1>3, <1>4, <3>1, SendsIr
    <3>3. IrToRun' = i /\ IrToShow' = i
      BY <1>7, <3>1, <3>2 DEF IrToRun, Lands, IrToShow
    <3>4. CabsimLatency(shown'.ir) = latency'.cabsim
      BY <2>2, <3>1 DEF SameCabsim
    <3> QED
      BY <3>3, <3>4 DEF IrAgrees, IrShown
  <2>3. CASE ~SameCabsim(i)
    <3>1. shown'.ir = i /\ staged_swap'.ir = i
      BY <1>1, <1>5, <2>3
    <3>2. IrToRun' = i /\ IrToShow' = i
      BY <1>3, <1>7, <3>1 DEF IrToRun, IrToShow
    <3> QED
      BY <1>3, <3>1, <3>2 DEF IrAgrees, IrShown
  <2> QED
    BY <2>1, <2>2, <2>3
<1> QED
  BY <1>8, <1>9, <1>10, <1>11, <1>12, <1>13, <1>14 DEF Sound

(* An IR left to activate(), which builds the shown one.                   *)
LEMMA LoadIrInactiveSound ==
  ASSUME CInv, Sound, NEW i \in Irs, LoadIrInactive(i),
         UNCHANGED <<sized, pending_model, pending_restore, recovered, replay>>,
         UNCHANGED <<phase, dsp, latency>>, ops' \in {ops, ops + 1},
         ~RestoresIr, Quiet("ir"), staged_swap.ir = Keep, dsp = None \/ dsp.ir = NoAsset
  PROVE  Sound'
<1>1. /\ phase = "inactive" /\ pending_ir' = None
      /\ UNCHANGED <<staged_swap, staged_restore, ring>>
      /\ shown'.model = shown.model /\ shown'.ir = i
  <2>1. shown \in Identity
    BY DEF CInv, TypeOK
  <2> QED
    BY <2>1 DEF LoadIrInactive, ShowIr, staging, Identity
<1>2. /\ HasChain /\ Newer /\ ModelAlone /\ IrAlone /\ RestoreAlone
      /\ ModelAgrees /\ IrAgrees /\ IrShown
  BY DEF Sound
<1>3. /\ SameLanding("model") /\ SameLanding("ir")
      /\ Quiet("model")' = Quiet("model") /\ Quiet("ir")' = Quiet("ir")
  BY <1>1, ChannelFrame
<1>4. HasChain'
  BY <1>1 DEF HasChain
<1>5. Newer'
  BY <1>1, <1>2, NewerFrame DEF CInv
<1>6. ModelAlone' /\ IrAlone' /\ RestoreAlone'
  BY <1>1, <1>2, <1>3 DEF ModelAlone, IrAlone, RestoreAlone, StagesModel, StagesIr,
     ModelInSlot, IrInSlot, RestoresModel, RestoresIr
<1>7. ModelAgrees'
  <2>1. KeptModel' = KeptModel /\ ModelToShow' = ModelToShow
    BY <1>1 DEF KeptModel, ModelToShow, Delivered, RestoresModel
  <2> QED
    BY <1>1, <1>2, <1>3, <2>1, ModelFrame
<1>8. IrAgrees'
  <2>1. KeptIr' = i
    BY <1>1 DEF KeptIr
  <2>2. LandsIn(recovered, replay, ring, "ir", i) = i
    BY LandsQuiet DEF Quiet, ChannelOf
  <2>3. IrToRun' = i
    BY <1>1, <2>1, <2>2 DEF IrToRun, Lands
  <2>4. IrToShow' = i
    BY <1>1 DEF IrToShow, RestoresIr
  <2> QED
    BY <2>3, <2>4 DEF IrAgrees
<1>9. IrShown'
  BY <1>1 DEF IrShown
<1> QED
  BY <1>4, <1>5, <1>6, <1>7, <1>8, <1>9 DEF Sound

LEMMA LoadIrSound ==
  ASSUME CInv, Sound, LoadIr, met' = {}
  PROVE  Sound'
<1>1. PICK i \in Irs :
       /\ Operation({"ir"}, phase = "inactive" \/ ~SameCabsim(i), IrInactive)
       /\ LoadIrActive(i) \/ LoadIrInactive(i)
  BY DEF LoadIr
<1>2. /\ UNCHANGED <<sized, pending_model, pending_restore, recovered, replay>>
      /\ UNCHANGED <<phase, dsp, latency>>
  BY DEF LoadIr, chain
<1>3. /\ ops' = ops + 1 /\ IrInactive = {} /\ ~InSlot("ir")
      /\ phase = "inactive" \/ ~SameCabsim(i) => ~InChannel("ir")
  <2>1. ops' = ops + 1 /\ IrInactive = {}
    BY <1>1 DEF Operation
  <2>2. ~InSlot("ir") /\ (phase = "inactive" \/ ~SameCabsim(i) => ~InChannel("ir"))
    BY <1>1 DEF Operation, Noting
  <2> QED
    BY <2>1, <2>2
<1>4. ops' \in {ops, ops + 1} /\ ~RestoresIr
  BY <1>3, SlotIs DEF IrInSlot
<1>5. phase = "inactive" \/ ~SameCabsim(i) => Quiet("ir")
  <2>1. TypeOK
    BY DEF CInv
  <2> QED
    BY <1>3, <2>1, InChannelIs
<1>6. CASE LoadIrActive(i)
  BY <1>2, <1>4, <1>5, <1>6, LoadIrActiveSound
<1>7. CASE LoadIrInactive(i)
  <2>1. phase = "inactive"
    BY <1>7 DEF LoadIrInactive
  <2>2. staged_swap.ir = Keep /\ (dsp = None \/ dsp.ir = NoAsset)
    BY <1>3, <2>1 DEF IrInactive, Noting
  <2> QED
    BY <1>2, <1>4, <1>5, <1>7, <2>1, <2>2, LoadIrInactiveSound
<1> QED
  BY <1>1, <1>6, <1>7

(* A retained IR was accepted for the latency of the running chain.        *)
LEMMA RetryIrSound ==
  ASSUME CInv, Sound, RetryIr, met' = {}
  PROVE  Sound'
<1>1. /\ UNCHANGED <<ops, sized, pending_model, pending_restore, recovered, replay>>
      /\ UNCHANGED <<phase, dsp, latency>>
      /\ pending_ir # None /\ met = {} /\ IrInactive = {}
      /\ LoadIrActive(pending_ir) \/ LoadIrInactive(pending_ir)
  BY DEF RetryIr, chain
<1>2. pending_ir \in Irs /\ pending_ir # NoAsset
  BY <1>1, Constants DEF CInv, TypeOK
<1>3. dsp # None
  BY <1>1 DEF Sound, HasChain
<1>4. SameCabsim(pending_ir) /\ latency = LatencyOf(dsp)
  BY <1>1, <1>3 DEF CInv, SameLatency, SameCabsim
<1>5. ~RestoresIr
  BY <1>1 DEF Sound, RestoreAlone
<1>6. CASE LoadIrActive(pending_ir)
  BY <1>1, <1>2, <1>4, <1>5, <1>6, LoadIrActiveSound
<1>7. CASE LoadIrInactive(pending_ir)
  <2>1. phase = "inactive"
    BY <1>7 DEF LoadIrInactive
  <2>2. dsp.ir # NoAsset
    BY <1>2, <1>4, LatencyTypes DEF SameCabsim, CabsimLatency
  <2>3. IrInactive # {}
    BY <1>3, <2>1, <2>2 DEF IrInactive, Noting
  <2> QED
    BY <1>1, <2>3
<1> QED
  BY <1>1, <1>6, <1>7

LEMMA ClearIrSound ==
  ASSUME CInv, Sound, ClearIr, met' = {}
  PROVE  Sound'
<1>1. /\ UNCHANGED <<sized, pending_model, pending_restore, pending_ir>>
      /\ UNCHANGED <<staged_restore, ring, recovered, replay>>
      /\ UNCHANGED <<phase, dsp, latency>>
      /\ staged_swap' = [staged_swap EXCEPT !.ir = NoAsset]
      /\ shown' = [shown EXCEPT !.ir = NoAsset]
  BY DEF ClearIr, chain, slots, channel
<1>2. ops' = ops + 1 /\ staged_restore = None /\ ~IrInSlot /\ Quiet("ir")
  <2>1. ops' = ops + 1
    BY DEF ClearIr, Operation
  <2>2. ~InSlot("ir") /\ ~InChannel("ir")
    BY DEF ClearIr, Operation, Noting
  <2>3. Noting("clear_over_restore", staged_restore # None) = {}
    BY DEF ClearIr, Operation
  <2>4. staged_restore = None
    BY <2>3 DEF Noting
  <2>5. TypeOK
    BY DEF CInv
  <2> QED
    BY <2>1, <2>2, <2>4, <2>5, SlotIs, InChannelIs
<1>3. /\ staged_swap'.ir = NoAsset /\ staged_swap'.model = staged_swap.model
      /\ shown'.ir = NoAsset /\ shown'.model = shown.model /\ NoAsset # Keep
  BY <1>1, Constants DEF CInv, TypeOK, StagedSwap, Identity
<1>4. /\ HasChain /\ Newer /\ ModelAlone /\ IrAlone /\ RestoreAlone
      /\ ModelAgrees /\ IrAgrees /\ IrShown
  BY DEF Sound
<1>5. /\ SameLanding("model") /\ SameLanding("ir")
      /\ Quiet("model")' = Quiet("model") /\ Quiet("ir")' = Quiet("ir")
  BY <1>1, ChannelFrame
<1>6. HasChain' /\ IrShown'
  BY <1>1, <1>3, <1>4 DEF HasChain, IrShown
<1>7. Newer'
  BY <1>1, <1>2, <1>4, NewerFrame DEF CInv
<1>8. ModelAlone' /\ IrAlone' /\ RestoreAlone'
  BY <1>1, <1>2, <1>3, <1>4, <1>5 DEF ModelAlone, IrAlone, RestoreAlone, StagesModel, StagesIr,
     ModelInSlot, IrInSlot, RestoresModel, RestoresIr
<1>9. ModelAgrees'
  <2>1. KeptModel' = KeptModel /\ ModelToShow' = ModelToShow
    BY <1>1, <1>3 DEF KeptModel, ModelToShow, Delivered, RestoresModel
  <2> QED
    BY <1>1, <1>3, <1>4, <1>5, <2>1, ModelFrame
<1>10. IrAgrees'
  <2>1. ~RestoresIr'
    BY <1>1, <1>2 DEF IrInSlot, RestoresIr
  <2>2. IrToRun' = NoAsset /\ IrToShow' = NoAsset
    BY <1>3, <2>1 DEF IrToRun, IrToShow
  <2> QED
    BY <2>2 DEF IrAgrees
<1> QED
  BY <1>6, <1>7, <1>8, <1>9, <1>10 DEF Sound

LEMMA PushSnapshotSound ==
  ASSUME CInv, Sound, PushSnapshot
  PROVE  Sound'
<1>1. /\ UNCHANGED <<ops, sized, pending_model, pending_restore, pending_ir, recovered, replay>>
      /\ UNCHANGED <<phase, dsp, latency, shown, staged_swap, staged_restore>>
      /\ ring' = Append(ring, Snapshot)
  BY DEF PushSnapshot, slots, staging, identity, chain
<1>2. /\ Snapshot \in Command /\ ~IsModel(Snapshot)
      /\ Snapshot.model = Keep /\ Snapshot.ir = Keep
  BY Sequences, CommandTypes, SaneIs DEF IsModel
<1>3. /\ HasChain /\ Newer /\ ModelAlone /\ IrAlone /\ RestoreAlone
      /\ ModelAgrees /\ IrAgrees /\ IrShown
  BY DEF Sound
<1>4. /\ SameLanding("model") /\ SameLanding("ir")
      /\ (Quiet("model") => Quiet("model")') /\ (Quiet("ir") => Quiet("ir")')
  BY <1>1, <1>2, SendsModel, SendsIr
<1>5. HasChain' /\ IrShown'
  BY <1>1, <1>3 DEF HasChain, IrShown
<1>6. Newer'
  <2>1. TypeOK /\ ops' \in {ops, ops + 1}
    BY <1>1 DEF CInv
  <2> QED
    BY <1>1, <1>2, <1>3, <2>1, NewerPush
<1>7. ModelAlone' /\ IrAlone' /\ RestoreAlone'
  BY <1>1, <1>3, <1>4 DEF ModelAlone, IrAlone, RestoreAlone, StagesModel, StagesIr,
     ModelInSlot, IrInSlot, RestoresModel, RestoresIr
<1>8. ModelAgrees'
  <2>1. KeptModel' = KeptModel /\ ModelToShow' = ModelToShow
    BY <1>1 DEF KeptModel, ModelToShow, Delivered, RestoresModel
  <2> QED
    BY <1>1, <1>3, <1>4, <2>1, ModelFrame
<1>9. IrAgrees'
  <2>1. KeptIr' = KeptIr /\ IrToShow' = IrToShow
    BY <1>1 DEF KeptIr, IrToShow, Delivered, RestoresIr
  <2> QED
    BY <1>1, <1>3, <1>4, <2>1, IrFrame
<1> QED
  BY <1>5, <1>6, <1>7, <1>8, <1>9 DEF Sound

-----------------------------------------------------------------------------
(* The audio thread installs what is on its way.                           *)

(* Nothing lands from an empty sequence.                                   *)
LEMMA EffectEmpty == \A x, v : Effect(<<>>, x, v) = v
<1> SUFFICES ASSUME NEW x, NEW v PROVE Effect(<<>>, x, v) = v
  OBVIOUS
<1>1. <<>> \in Seq(Leaving(x))
  OBVIOUS
<1> QED
  BY <1>1, EffectQuiet

(* The processor installs part of the channel: what is left lands on it.   *)
LEMMA InstalledSound ==
  ASSUME CInv, Sound, phase = "active", dsp' # None, latency' = latency,
         UNCHANGED <<ops, sized, pending_model, pending_restore, pending_ir>>,
         UNCHANGED <<staged_swap, staged_restore, shown, phase>>,
         LandsIn(recovered', replay', ring', "model", dsp'.model) = Lands("model", dsp.model),
         LandsIn(recovered', replay', ring', "ir", dsp'.ir) = Lands("ir", dsp.ir),
         \A S : ring \in Seq(S) => ring' \in Seq(S),
         \A S : replay \in Seq(S) => replay' \in Seq(S), recovered' = recovered
  PROVE  Sound'
<1>1. /\ HasChain /\ Newer /\ ModelAlone /\ IrAlone /\ RestoreAlone
      /\ ModelAgrees /\ IrAgrees /\ IrShown
  BY DEF Sound
<1>2. dsp # None
  BY DEF CInv, Phases
<1>3. (Quiet("model") => Quiet("model")') /\ (Quiet("ir") => Quiet("ir")')
  BY DEF Quiet, ChannelOf
<1>4. HasChain'
  BY DEF HasChain
<1>5. Newer'
  BY <1>1 DEF Newer
<1>6. ModelAlone' /\ IrAlone' /\ RestoreAlone'
  BY <1>1, <1>3 DEF ModelAlone, IrAlone, RestoreAlone, StagesModel, StagesIr,
     ModelInSlot, IrInSlot, RestoresModel, RestoresIr
<1>7. ModelAgrees'
  <2>1. KeptModel = dsp.model /\ KeptModel' = dsp'.model
    BY <1>2 DEF KeptModel
  <2>2. ModelToShow' = ModelToShow
    BY DEF ModelToShow, Delivered, RestoresModel
  <2>3. Lands("model", KeptModel)' = Lands("model", KeptModel)
    BY <2>1 DEF Lands
  <2> QED
    BY <1>1, <2>2, <2>3 DEF ModelAgrees, ModelToRun
<1>8. IrAgrees'
  <2>1. KeptIr = dsp.ir /\ KeptIr' = dsp'.ir
    BY <1>2 DEF KeptIr
  <2>2. IrToShow' = IrToShow
    BY DEF IrToShow, Delivered, RestoresIr
  <2>3. Lands("ir", KeptIr)' = Lands("ir", KeptIr)
    BY <2>1 DEF Lands
  <2> QED
    BY <1>1, <2>2, <2>3 DEF IrAgrees, IrToRun
<1>9. IrShown'
  BY <1>1, <1>2 DEF IrShown
<1> QED
  BY <1>4, <1>5, <1>6, <1>7, <1>8, <1>9 DEF Sound

LEMMA DrainSound ==
  ASSUME CInv, Sound, Drain, "carried" \notin met
  PROVE  Sound'
<1>1. PICK n \in 1 .. Len(ring) :
       /\ dsp' = InstallAll(dsp, SubSeq(ring, 1, n))
       /\ ring' = SubSeq(ring, n + 1, Len(ring))
  BY DEF Drain
<1>2. /\ UNCHANGED <<ops, sized, pending_model, pending_restore, pending_ir>>
      /\ UNCHANGED <<recovered, replay, shown, staged_swap, staged_restore, phase>>
      /\ phase = "active" /\ replay = <<>>
  BY DEF Drain, staging, slots, identity
<1>3. latency' = latency
  <2>1. [Next]_vars
    BY DEF Drain, Next, AudioNext
  <2> QED
    BY <1>2, <2>1, LatencyKept
<1>4. recovered = <<>> /\ ring \in Seq(Command)
  BY <1>2, Sequences DEF CInv, Phases
<1>5. dsp' # None
  <2>1. CInv'
    BY DrainHolds
  <2> QED
    BY <1>2, <2>1 DEF CInv, Phases
<1>6. \A S : ring \in Seq(S) => ring' \in Seq(S)
  BY <1>1, PrefixTypes
<1> DEFINE front == SubSeq(ring, 1, n)
<1>7. front \in Seq(Command) /\ ring' \in Seq(Command) /\ ring = front \o ring'
  BY <1>1, <1>4, PrefixTypes
<1>8. dsp'.model = Effect(front, "model", dsp.model) /\ dsp'.ir = Effect(front, "ir", dsp.ir)
  BY <1>1, InstallAllIs
<1> HIDE DEF front
<1>9. ASSUME NEW x, NEW v
      PROVE  LandsIn(recovered', replay', ring', x, Effect(front, x, v))
               = LandsIn(recovered, replay, ring, x, v)
  <2>1. Effect(ring, x, v) = Effect(ring', x, Effect(front, x, v))
    BY <1>7, EffectConcat
  <2>2. LandsIn(recovered, replay, ring, x, v) = Effect(ring, x, v)
    BY <1>2, <1>4, EffectEmpty DEF LandsIn
  <2>3. LandsIn(recovered', replay', ring', x, Effect(front, x, v))
          = Effect(ring', x, Effect(front, x, v))
    BY <1>2, <1>4, EffectEmpty DEF LandsIn
  <2> QED
    BY <2>1, <2>2, <2>3
<1>10. /\ LandsIn(recovered', replay', ring', "model", dsp'.model) = Lands("model", dsp.model)
       /\ LandsIn(recovered', replay', ring', "ir", dsp'.ir) = Lands("ir", dsp.ir)
  BY <1>8, <1>9 DEF Lands
<1>11. \A S : replay \in Seq(S) => replay' \in Seq(S)
  BY <1>2
<1> QED
  BY <1>2, <1>3, <1>5, <1>6, <1>10, <1>11, InstalledSound

LEMMA ReplayRecoveredSound ==
  ASSUME CInv, Sound, ReplayRecovered, "carried" \notin met
  PROVE  Sound'
<1>1. dsp' = InstallAll(dsp, replay) /\ replay' = <<>>
  BY DEF ReplayRecovered
<1>2. /\ UNCHANGED <<ops, sized, pending_model, pending_restore, pending_ir>>
      /\ UNCHANGED <<recovered, ring, shown, staged_swap, staged_restore, phase>>
      /\ phase = "active"
  BY DEF ReplayRecovered, staging, slots, identity
<1>3. latency' = latency
  <2>1. [Next]_vars
    BY DEF ReplayRecovered, Next, AudioNext
  <2> QED
    BY <1>2, <2>1, LatencyKept
<1>4. recovered = <<>>
  BY <1>2 DEF CInv, Phases
<1>5. dsp' # None
  <2>1. CInv'
    BY ReplayRecoveredHolds
  <2> QED
    BY <1>2, <2>1 DEF CInv, Phases
<1>6. dsp'.model = Effect(replay, "model", dsp.model) /\ dsp'.ir = Effect(replay, "ir", dsp.ir)
  BY <1>1, InstallAllIs
<1>7. ASSUME NEW x, NEW v
      PROVE  LandsIn(recovered', replay', ring', x, Effect(replay, x, v))
               = LandsIn(recovered, replay, ring, x, v)
  BY <1>1, <1>2, <1>4, EffectEmpty DEF LandsIn
<1>8. /\ LandsIn(recovered', replay', ring', "model", dsp'.model) = Lands("model", dsp.model)
      /\ LandsIn(recovered', replay', ring', "ir", dsp'.ir) = Lands("ir", dsp.ir)
  BY <1>6, <1>7 DEF Lands
<1>9. /\ \A S : replay \in Seq(S) => replay' \in Seq(S)
      /\ \A S : ring \in Seq(S) => ring' \in Seq(S)
  BY <1>1, <1>2, EmptySeq
<1> QED
  BY <1>2, <1>3, <1>5, <1>8, <1>9, InstalledSound

LEMMA PanicSound ==
  ASSUME CInv, Sound, Panic
  PROVE  Sound'
<1>1. /\ UNCHANGED <<ops, sized, pending_model, pending_restore, pending_ir>>
      /\ UNCHANGED <<ring, recovered, replay, shown, staged_swap, staged_restore>>
      /\ UNCHANGED <<dsp, latency>> /\ phase = "active" /\ phase' = "poisoned"
  BY DEF Panic, chain, staging, slots, identity, channel
<1>2. /\ HasChain /\ Newer /\ ModelAlone /\ IrAlone /\ RestoreAlone
      /\ ModelAgrees /\ IrAgrees /\ IrShown
  BY DEF Sound
<1>3. HasChain' /\ Newer' /\ IrShown'
  BY <1>1, <1>2 DEF HasChain, Newer, IrShown
<1>4. ModelAlone' /\ IrAlone' /\ RestoreAlone'
  BY <1>1, <1>2, ChannelFrame DEF ModelAlone, IrAlone, RestoreAlone, StagesModel, StagesIr,
     ModelInSlot, IrInSlot, RestoresModel, RestoresIr
<1>5. ModelAgrees'
  <2>1. KeptModel' = KeptModel /\ ModelToShow' = ModelToShow
    BY <1>1 DEF KeptModel, ModelToShow, Delivered, RestoresModel
  <2> QED
    BY <1>1, <1>2, <2>1, ChannelFrame, ModelFrame
<1>6. IrAgrees'
  <2>1. KeptIr' = KeptIr /\ IrToShow' = IrToShow
    BY <1>1 DEF KeptIr, IrToShow, Delivered, RestoresIr
  <2> QED
    BY <1>1, <1>2, <2>1, ChannelFrame, IrFrame
<1> QED
  BY <1>3, <1>4, <1>5, <1>6 DEF Sound

(* A chain without an IR is kept only where none is shown.                 *)
LEMMA DeactivateSound ==
  ASSUME CInv, Sound, Deactivate, met' = {}
  PROVE  Sound'
<1>1. /\ UNCHANGED <<ops, sized, pending_model, pending_restore, pending_ir>>
      /\ UNCHANGED <<recovered, shown, staged_swap, staged_restore, latency>>
      /\ phase # "inactive" /\ phase' = "inactive"
  BY DEF Deactivate, staging, slots, identity
<1>2. ~parked /\ replay = <<>> /\ phase # "poisoned"
  BY DEF Deactivate, Noting
<1>3. /\ UNCHANGED <<ring, replay, dsp>>
  BY <1>2 DEF Deactivate
<1>4. dsp # None /\ latency = LatencyOf(dsp)
  BY <1>1, <1>2 DEF CInv, TypeOK, Phases, SameLatency
<1>5. /\ HasChain /\ Newer /\ ModelAlone /\ IrAlone /\ RestoreAlone
      /\ ModelAgrees /\ IrAgrees /\ IrShown
  BY DEF Sound
<1>6. HasChain' /\ Newer' /\ IrShown'
  BY <1>1, <1>3, <1>4, <1>5 DEF HasChain, Newer, IrShown
<1>7. ModelAlone' /\ IrAlone' /\ RestoreAlone'
  BY <1>1, <1>3, <1>5, ChannelFrame DEF ModelAlone, IrAlone, RestoreAlone, StagesModel,
     StagesIr, ModelInSlot, IrInSlot, RestoresModel, RestoresIr
<1>8. ModelAgrees'
  <2>1. KeptModel' = KeptModel /\ ModelToShow' = ModelToShow
    BY <1>1, <1>3 DEF KeptModel, ModelToShow, Delivered, RestoresModel
  <2> QED
    BY <1>1, <1>3, <1>5, <2>1, ChannelFrame, ModelFrame
<1>9. ASSUME staged_swap.ir = Keep, pending_ir = None PROVE KeptIr' = KeptIr
  <2>1. CabsimLatency(shown.ir) = latency.cabsim
    BY <1>1, <1>4, <1>5, <1>9 DEF IrShown
  <2>2. dsp.ir = NoAsset => shown.ir = NoAsset
    BY <1>4, <2>1, LatencyTypes DEF CabsimLatency
  <2> QED
    BY <1>1, <1>3, <2>2 DEF KeptIr
<1>10. IrAgrees'
  <2>1. IrToShow' = IrToShow
    BY <1>1 DEF IrToShow, Delivered, RestoresIr
  <2>2. CASE staged_swap.ir = Keep /\ pending_ir = None
    BY <1>1, <1>3, <1>5, <1>9, <2>1, <2>2, ChannelFrame, IrFrame
  <2>3. CASE staged_swap.ir # Keep \/ pending_ir # None
    BY <1>1, <1>5, <2>1, <2>3 DEF IrAgrees, IrToRun
  <2> QED
    BY <2>2, <2>3
<1> QED
  BY <1>6, <1>7, <1>8, <1>10 DEF Sound

-----------------------------------------------------------------------------
(* activate() takes what is staged; a rollback keeps what was on its way.  *)

(* A staged component runs and is shown; one that is not staged is kept.   *)
LEMMA ActivateSound ==
  ASSUME CInv, Sound, Activate, met' = {}
  PROVE  Sound'
<1> DEFINE newModel == IF staged_restore # None THEN staged_restore.cmd.model ELSE staged_swap.model
           newIr == IF staged_restore # None THEN staged_restore.cmd.ir ELSE staged_swap.ir
           sends == pending_model # None /\ Room
<1>1. /\ UNCHANGED <<ops, pending_restore, pending_ir>>
      /\ phase = "inactive" /\ phase' = "active" /\ latency' = LatencyOf(dsp')
      /\ staged_restore' = None /\ staged_swap' = NothingStaged
      /\ replay' = recovered /\ recovered' = <<>> /\ PublishStaged
      /\ ring' = (IF sends THEN Append(ring, pending_model) ELSE ring)
      /\ pending_model' = IF sends THEN None ELSE pending_model
  BY DEF Activate, NothingStagedAfter
<1>2. PICK resized \in BOOLEAN : dsp' = Taken(resized)
  BY DEF Activate
<1>3. /\ HasChain /\ Newer /\ ModelAlone /\ IrAlone /\ RestoreAlone
      /\ ModelAgrees /\ IrAgrees /\ IrShown
  BY DEF Sound
<1>4. TypeOK /\ replay = <<>>
  BY <1>1 DEF CInv, Phases
<1>5. dsp' # None
  BY <1>2, <1>4, TakenTypes
<1>6. Base(resized).model = KeptModel /\ Base(resized).ir = KeptIr
  BY <1>1 DEF Base, KeptModel, KeptIr
<1>7. newModel # Keep =>
        ~RestoresModel /\ pending_model = None /\ Quiet("model")
  <2>1. newModel # Keep => StagesModel
    BY DEF StagesModel
  <2>2. newModel # Keep => sized
    BY DEF CInv, Unsized
  <2> QED
    BY <1>3, <2>1, <2>2 DEF ModelAlone, ModelInSlot
<1>8. newIr # Keep => ~RestoresIr /\ pending_ir = None /\ Quiet("ir")
  <2>1. newIr # Keep => StagesIr
    BY DEF StagesIr
  <2> QED
    BY <1>3, <2>1 DEF IrAlone, IrInSlot
<1>9. newModel = Keep => staged_swap.model = Keep
  BY <1>3 DEF RestoreAlone, NothingStaged
<1>10. newIr = Keep => staged_swap.ir = Keep
  BY <1>3 DEF RestoreAlone, NothingStaged
<1>11. /\ dsp'.model = Replaced(KeptModel, newModel)
       /\ dsp'.ir = Replaced(KeptIr, newIr)
       /\ newIr # Keep => shown'.ir = newIr
       /\ newIr = Keep => shown'.ir = shown.ir
       /\ ModelToShow' = Replaced(ModelToShow, newModel)
  <2>1. CASE staged_restore # None
    <3>1. shown' = [model |-> Replaced(shown.model, newModel), ir |-> Replaced(shown.ir, newIr)]
      BY <1>1, <2>1 DEF PublishStaged, Published
    <3>2. pending_restore = None /\ pending_restore' = None
      BY <1>1, <1>3, <2>1 DEF RestoreAlone
    <3>3. ModelToShow' = shown'.model /\ ModelToShow = shown.model
      BY <3>2 DEF ModelToShow, RestoresModel
    <3>4. dsp' = Install(Base(resized), staged_restore.cmd)
      BY <1>2, <2>1 DEF Taken
    <3> QED
      BY <1>6, <2>1, <3>1, <3>3, <3>4 DEF Install, Replaced
  <2>2. CASE staged_restore = None
    <3>1. shown' = shown
      BY <1>1, <2>2 DEF PublishStaged, identity
    <3>2. dsp' = Install(Base(resized), Adapted(staged_swap, resized))
      BY <1>2, <2>2 DEF Taken
    <3>3. ModelToShow' = ModelToShow
      BY <1>1, <3>1 DEF ModelToShow, Delivered, RestoresModel
    <3>4. newModel # Keep => newModel = ModelToShow
      BY <1>3, <2>2 DEF ModelAgrees, ModelToRun
    <3>5. newIr # Keep => newIr = shown.ir
      BY <1>3, <1>8, <2>2 DEF IrAgrees, IrToRun, IrToShow
    <3>6. /\ Adapted(staged_swap, resized).model = newModel
          /\ Adapted(staged_swap, resized).ir = newIr
      <4>1. staged_swap \in StagedSwap /\ Keep \notin Irs
        BY <1>4, Constants DEF TypeOK, IrOrNone
      <4> QED
        BY <2>2, <3>5, <4>1 DEF Adapted, StagedSwap
    <3> QED
      BY <1>6, <3>1, <3>2, <3>3, <3>4, <3>5, <3>6 DEF Install, Replaced
  <2> QED
    BY <2>1, <2>2
<1> HIDE DEF newModel, newIr
<1>12. ring \in Seq(Command)
       /\ (pending_model # None => /\ pending_model \in Command /\ IsModel(pending_model)
                                   /\ pending_model.ir = Keep /\ pending_model.model # Keep)
  BY Sequences
<1>13. ASSUME NEW x, NEW v
       PROVE  LandsIn(recovered', replay', ring', x, v)
                = IF sends /\ Touches(pending_model, x) THEN Of(pending_model, x)
                  ELSE LandsIn(recovered, replay, ring, x, v)
  <2> DEFINE w == Effect(recovered, x, v)
  <2>1. LandsIn(recovered, replay, ring, x, v) = Effect(ring, x, w)
    BY <1>4, EffectEmpty DEF LandsIn
  <2>2. LandsIn(recovered', replay', ring', x, v) = Effect(ring', x, w)
    BY <1>1, EffectEmpty DEF LandsIn
  <2> HIDE DEF w
  <2>3. CASE sends
    <3>1. ring' = Append(ring, pending_model) /\ pending_model \in Command
      BY <1>1, <1>12, <2>3
    <3>2. Effect(Append(ring, pending_model), x, w)
            = IF Touches(pending_model, x) THEN Of(pending_model, x) ELSE Effect(ring, x, w)
      BY <1>12, <3>1, EffectAppend
    <3> QED
      BY <2>1, <2>2, <2>3, <3>1, <3>2
  <2>4. CASE ~sends
    BY <1>1, <2>1, <2>2, <2>4
  <2> QED
    BY <2>3, <2>4
<1>14. /\ sends => \A v : LandsIn(recovered', replay', ring', "model", v) = pending_model.model
       /\ ~sends => SameLanding("model")
       /\ SameLanding("ir")
  BY <1>12, <1>13 DEF Touches, Of, SameLanding
<1>15. HasChain'
  BY <1>5 DEF HasChain
<1>16. Newer'
  <2>1. CASE ~sends
    BY <1>1, <1>3, <2>1 DEF Newer
  <2>2. CASE sends
    <3>1. ring \in Seq(Older(ops + 1)) /\ pending_model.id < ops + 1
      BY <1>3, <2>2 DEF Newer
    <3>2. pending_model \in Older(ops + 1)
      BY <1>12, <2>2, <3>1 DEF Older
    <3>3. Append(ring, pending_model) \in Seq(Older(ops + 1))
      BY <3>1, <3>2, AppendProperties
    <3> QED
      BY <1>1, <2>2, <3>3 DEF Newer
  <2> QED
    BY <2>1, <2>2
<1>17. ModelAlone' /\ IrAlone'
  BY <1>1 DEF ModelAlone, IrAlone, StagesModel, StagesIr, NothingStaged
<1>18. RestoreAlone'
  BY <1>1, <1>3 DEF RestoreAlone, RestoresModel, RestoresIr
<1>19. ModelAgrees'
  <2>1. staged_swap'.model = Keep /\ KeptModel' = dsp'.model
    BY <1>1, <1>5 DEF NothingStaged, KeptModel
  <2>2. CASE newModel # Keep
    <3>1. pending_model = None /\ Quiet("model") /\ dsp'.model = newModel
      BY <1>7, <1>11, <2>2 DEF Replaced
    <3>2. ~sends /\ pending_model' = None
      BY <1>1, <3>1
    <3>3. LandsIn(recovered, replay, ring, "model", newModel) = newModel
      BY <3>1, LandsQuiet DEF Quiet, ChannelOf
    <3>4. LandsIn(recovered', replay', ring', "model", dsp'.model) = newModel
      BY <1>14, <3>1, <3>2, <3>3 DEF SameLanding
    <3>5. ModelToRun' = newModel
      BY <2>1, <3>2, <3>4 DEF ModelToRun, Lands
    <3>6. ModelToShow' = newModel
      BY <1>11, <2>2 DEF Replaced
    <3> QED
      BY <3>5, <3>6 DEF ModelAgrees
  <2>3. CASE newModel = Keep
    <3>1. dsp'.model = KeptModel /\ ModelToShow' = ModelToShow
      BY <1>11, <2>3 DEF Replaced
    <3>2. staged_swap.model = Keep
      BY <1>9, <2>3
    <3>3. CASE sends
      <4>1. ModelToRun = pending_model.model
        BY <3>2, <3>3 DEF ModelToRun
      <4>2. ModelToRun' = pending_model.model
        BY <1>1, <1>14, <2>1, <3>3 DEF ModelToRun, Lands
      <4> QED
        BY <1>3, <3>1, <4>1, <4>2 DEF ModelAgrees
    <3>4. CASE ~sends
      BY <1>1, <1>3, <1>14, <2>1, <3>1, <3>2, <3>4, ModelFrame
    <3> QED
      BY <3>3, <3>4
  <2> QED
    BY <2>2, <2>3
<1>20. staged_swap'.ir = Keep /\ KeptIr' = dsp'.ir
  BY <1>1, <1>5 DEF NothingStaged, KeptIr
<1>21. latency'.cabsim = CabsimLatency(dsp'.ir)
  BY <1>1, LatencyTypes
<1>22. CASE newIr # Keep
  <2>1. ~RestoresIr /\ Quiet("ir") /\ dsp'.ir = newIr /\ shown'.ir = newIr
    BY <1>8, <1>11, <1>22 DEF Replaced
  <2>2. LandsIn(recovered, replay, ring, "ir", newIr) = newIr
    BY <2>1, LandsQuiet DEF Quiet, ChannelOf
  <2>3. LandsIn(recovered', replay', ring', "ir", dsp'.ir) = newIr
    BY <1>14, <2>1, <2>2 DEF SameLanding
  <2>4. IrToRun' = newIr
    BY <1>20, <2>3 DEF IrToRun, Lands
  <2>5. IrToShow' = newIr
    BY <1>1, <2>1 DEF IrToShow, RestoresIr
  <2>6. IrAgrees' /\ IrShown'
    BY <1>21, <2>1, <2>4, <2>5 DEF IrAgrees, IrShown
  <2> QED
    BY <1>15, <1>16, <1>17, <1>18, <1>19, <2>6 DEF Sound
<1>23. CASE newIr = Keep
  <2>1. dsp'.ir = KeptIr /\ shown'.ir = shown.ir /\ staged_swap.ir = Keep
    BY <1>10, <1>11, <1>23 DEF Replaced
  <2>2. IrAgrees'
    <3>1. IrToShow' = IrToShow
      BY <1>1, <2>1 DEF IrToShow, Delivered, RestoresIr
    <3> QED
      BY <1>1, <1>3, <1>14, <1>20, <2>1, <3>1, IrFrame
  <2>3. IrShown'
    <3>1. pending_ir = None => CabsimLatency(shown.ir) = CabsimLatency(KeptIr)
      <4>1. CASE dsp = None \/ dsp.ir = NoAsset
        BY <1>1, <4>1 DEF KeptIr
      <4>2. CASE dsp # None /\ dsp.ir # NoAsset
        <5>1. KeptIr = dsp.ir /\ latency.cabsim = CabsimLatency(dsp.ir)
          BY <4>2, LatencyTypes DEF KeptIr, CInv, SameLatency
        <5> QED
          BY <1>3, <2>1, <4>2, <5>1 DEF IrShown
      <4> QED
        BY <4>1, <4>2
    <3> QED
      BY <1>1, <1>21, <2>1, <3>1 DEF IrShown
  <2> QED
    BY <1>15, <1>16, <1>17, <1>18, <1>19, <2>2, <2>3 DEF Sound
<1> QED
  BY <1>22, <1>23

(* A failed activation that recovers nothing out of order keeps where all  *)
(* of it lands: the newest model in its slot, the rest to be replayed.     *)
LEMMA RollbackSound ==
  ASSUME CInv, Sound, Rollback, Reordered = {}, phase = "inactive",
         UNCHANGED <<ops, pending_restore, pending_ir, replay, phase>>,
         UNCHANGED <<shown, dsp, staged_swap, staged_restore>>,
         sized' = sized \/ (staged_swap = NothingStaged /\ staged_restore = None),
         dsp = None \/ latency' = latency
  PROVE  Sound'
<1> DEFINE found == {j \in 1 .. Len(ring) : IsModel(ring[j])}
           newest == ring[Newest(found)]
           rest == WithoutModels(ring)
<1>1. /\ HasChain /\ Newer /\ ModelAlone /\ IrAlone /\ RestoreAlone
      /\ ModelAgrees /\ IrAgrees /\ IrShown
  BY DEF Sound
<1>2. /\ ring \in Seq(Command) /\ ring \in Seq(Sane) /\ Len(ring) \in Nat
      /\ \A j \in 1 .. Len(ring) : ring[j] \in Command /\ ring[j] \in Sane
  BY Sequences
<1>3. /\ recovered = <<>> /\ replay = <<>> /\ replay' = <<>> /\ ring' = <<>>
      /\ recovered' = rest
      /\ pending_model' = IF found # {} /\ TakesSlot(newest) THEN newest ELSE pending_model
  <2>1. recovered = <<>> /\ replay = <<>> /\ replay' = <<>> /\ ring' = <<>>
    BY DEF Reordered, Noting, CInv, Phases, Rollback
  <2>2. recovered' = rest \o recovered
    BY DEF Rollback
  <2>3. rest \in Seq(Command)
    BY <1>2, WithoutModelsIs
  <2>4. rest \o <<>> = rest
    BY <2>3, ConcatEmptySeq
  <2>5. pending_model' = IF found # {} /\ TakesSlot(newest) THEN newest ELSE pending_model
    BY DEF Rollback
  <2> QED
    BY <2>1, <2>2, <2>4, <2>5
<1>4. /\ rest \in Seq(Command)
      /\ \A i \in 1 .. Len(ring) : NotModel(ring[i]) =>
           \E j \in 1 .. Len(rest) : rest[j] = ring[i]
      /\ \A x, v : (\A i \in 1 .. Len(ring) : IsModel(ring[i]) => ~Touches(ring[i], x))
                     => Effect(rest, x, v) = Effect(ring, x, v)
  BY <1>2, WithoutModelsIs
<1>5. found # {} => /\ Newest(found) \in 1 .. Len(ring) /\ IsModel(newest)
                    /\ \A k \in 1 .. Len(ring) : IsModel(ring[k]) => k <= Newest(found)
  <2>1. found \subseteq 1 .. Len(ring)
    OBVIOUS
  <2>2. found # {} => Newest(found) \in found /\ \A k \in found : k <= Newest(found)
    BY <1>2, <2>1, NewestIs
  <2> QED
    BY <2>2
<1>6. found = {} => \A k \in 1 .. Len(ring) : ~IsModel(ring[k])
  OBVIOUS
<1> HIDE DEF found, rest
<1>7. found # {} => newest \in Command /\ newest # None /\ newest.model # Keep
  <2>1. found # {} => newest \in Sane /\ IsModel(newest)
    BY <1>2, <1>5
  <2> QED
    BY <2>1, Constants DEF Sane, Shape, IsModel
<1>8. pending_model' # None =>
        /\ \A j \in 1 .. Len(rest) : ~Touches(rest[j], "model")
        /\ ~RestoresModel
  BY <1>3 DEF Reordered, Noting, Touching, Touches, RestoresModel
<1>9. ASSUME NEW x, NEW v
      PROVE  /\ LandsIn(recovered, replay, ring, x, v) = Effect(ring, x, v)
             /\ LandsIn(recovered', replay', ring', x, v) = Effect(rest, x, v)
  BY <1>3, EffectEmpty DEF LandsIn
<1>10. /\ SameLanding("ir")
       /\ found = {} => SameLanding("model")
  <2>1. \A i \in 1 .. Len(ring) : IsModel(ring[i]) => ~Touches(ring[i], "ir")
    BY <1>2 DEF Sane, Shape, IsModel, Touches
  <2>2. \A v : Effect(rest, "ir", v) = Effect(ring, "ir", v)
    BY <1>4, <2>1
  <2>3. found = {} => \A v : Effect(rest, "model", v) = Effect(ring, "model", v)
    BY <1>4, <1>6
  <2> QED
    BY <1>9, <2>2, <2>3 DEF SameLanding
<1>11. ASSUME NEW x, Quiet(x) PROVE Quiet(x)'
  <2>1. ring \in Seq(Leaving(x))
    BY <1>11 DEF Quiet, ChannelOf
  <2>2. rest \in Seq(Leaving(x))
    BY <2>1, WithoutModelsIs DEF rest
  <2>3. recovered' \in Seq(Leaving(x)) /\ ring' \in Seq(Leaving(x)) /\ replay' \in Seq(Leaving(x))
    BY <1>3, <2>2, EmptySeq
  <2> QED
    BY <2>3 DEF Quiet, ChannelOf
<1>12. found # {} => ~Quiet("model")
  <2> SUFFICES ASSUME found # {}, Quiet("model") PROVE FALSE
    OBVIOUS
  <2>1. ring \in Seq(Leaving("model"))
    BY DEF Quiet, ChannelOf
  <2>2. newest \in Leaving("model")
    BY <1>5, <2>1, ElementOfSeq
  <2> QED
    BY <1>7, <2>2 DEF Leaving, Touches
<1>13. found # {} => ~StagesModel
  BY <1>1, <1>12 DEF ModelAlone
<1>14. found # {} => newest.id < ops + 1
  <2> SUFFICES ASSUME found # {} PROVE newest.id < ops + 1
    OBVIOUS
  <2>1. newest \in Older(ops + 1)
    <3>1. ring \in Seq(Older(ops + 1))
      BY <1>1 DEF Newer
    <3> QED
      BY <1>5, <3>1, ElementOfSeq
  <2> QED
    BY <1>5, <2>1 DEF Older
<1>15. pending_model' = IF found # {} /\ pending_model = None THEN newest ELSE pending_model
  <2>1. CASE found # {} /\ pending_model # None
    <3>1. newest \in Older(pending_model.id)
      <4>1. ring \in Seq(Older(pending_model.id))
        BY <1>1, <2>1 DEF Newer
      <4> QED
        BY <1>5, <2>1, <4>1, ElementOfSeq
    <3>2. newest.id < pending_model.id
      BY <1>5, <2>1, <3>1 DEF Older
    <3>3. newest.id \in Nat /\ pending_model.id \in Nat
      BY <1>7, <2>1, Sequences DEF Command
    <3>4. ~(pending_model.id < newest.id)
      BY <3>2, <3>3
    <3>5. ~TakesSlot(newest)
      BY <2>1, <3>4 DEF TakesSlot
    <3> QED
      BY <1>3, <2>1, <3>5
  <2>2. CASE ~(found # {} /\ pending_model # None)
    BY <1>3, <2>2 DEF TakesSlot
  <2> QED
    BY <2>1, <2>2
<1>16. HasChain'
  BY <1>1 DEF HasChain
<1>17. Newer'
  <2>1. \A S : ring' \in Seq(S)
    BY <1>3, EmptySeq
  <2>2. pending_model' # None => pending_model'.id < ops + 1
    BY <1>1, <1>14, <1>15 DEF Newer
  <2> QED
    BY <2>1, <2>2 DEF Newer
<1>18. ModelAlone'
  <2>1. StagesModel' = StagesModel
    BY DEF StagesModel
  <2>2. StagesModel => sized' = sized /\ pending_model' = pending_model
    BY <1>13, <1>15 DEF StagesModel, NothingStaged
  <2>3. RestoresModel' = RestoresModel
    BY DEF RestoresModel
  <2> QED
    BY <1>1, <1>11, <2>1, <2>2, <2>3 DEF ModelAlone, ModelInSlot
<1>19. IrAlone'
  BY <1>1, <1>11 DEF IrAlone, StagesIr, IrInSlot, RestoresIr
<1>20. RestoreAlone'
  BY <1>1, <1>8 DEF RestoreAlone, RestoresModel, RestoresIr
<1>21. ModelAgrees'
  <2>1. KeptModel' = KeptModel /\ ModelToShow' = ModelToShow
    BY DEF KeptModel, ModelToShow, Delivered, RestoresModel
  <2>2. CASE found = {}
    BY <1>1, <1>10, <1>15, <2>1, <2>2, ModelFrame
  <2>3. CASE found # {} /\ pending_model # None
    <3>1. staged_swap.model = Keep /\ pending_model' = pending_model
      BY <1>13, <1>15, <2>3 DEF StagesModel
    <3> QED
      BY <1>1, <2>1, <2>3, <3>1 DEF ModelAgrees, ModelToRun
  <2>4. CASE found # {} /\ pending_model = None
    <3>1. staged_swap.model = Keep /\ pending_model' = newest /\ newest # None
      BY <1>7, <1>13, <1>15, <2>4 DEF StagesModel
    <3>2. \A k \in 1 .. Len(ring) : Touches(ring[k], "model") => k <= Newest(found)
      <4> SUFFICES ASSUME NEW k \in 1 .. Len(ring), Touches(ring[k], "model")
                   PROVE  IsModel(ring[k])
        BY <1>5, <2>4
      <4>1. NotModel(ring[k]) => \E j \in 1 .. Len(rest) : rest[j] = ring[k]
        BY <1>4
      <4> QED
        BY <1>8, <3>1, <4>1 DEF NotModel
    <3>3. Touches(newest, "model")
      BY <1>7, <2>4 DEF Touches
    <3>4. Effect(ring, "model", KeptModel) = Of(newest, "model")
      BY <1>2, <1>5, <2>4, <3>2, <3>3, EffectLast
    <3>5. ModelToRun = newest.model
      BY <1>9, <2>4, <3>1, <3>4 DEF ModelToRun, Lands, Of
    <3>6. ModelToRun' = newest.model
      BY <3>1 DEF ModelToRun
    <3> QED
      BY <1>1, <2>1, <3>5, <3>6 DEF ModelAgrees
  <2> QED
    BY <2>2, <2>3, <2>4
<1>22. IrAgrees'
  <2>1. KeptIr' = KeptIr /\ IrToShow' = IrToShow
    BY DEF KeptIr, IrToShow, Delivered, RestoresIr
  <2> QED
    BY <1>1, <1>10, <2>1, IrFrame
<1>23. IrShown'
  BY <1>1 DEF IrShown
<1> QED
  BY <1>16, <1>17, <1>18, <1>19, <1>20, <1>21, <1>22, <1>23 DEF Sound

LEMMA ActivateFailsSound ==
  ASSUME CInv, Sound, ActivateFails, met' = {}
  PROVE  Sound'
<1>1. /\ UNCHANGED <<ops, sized, pending_restore, pending_ir, replay, phase>>
      /\ UNCHANGED <<shown, dsp, latency, staged_swap, staged_restore>>
      /\ phase = "inactive" /\ Rollback /\ Reordered = {}
  BY DEF ActivateFails, staging, identity, chain
<1>2. sized' = sized \/ (staged_swap = NothingStaged /\ staged_restore = None)
  BY <1>1
<1>3. dsp = None \/ latency' = latency
  BY <1>1
<1> QED
  BY <1>1, <1>2, <1>3, RollbackSound

LEMMA ActivateFailsLateSound ==
  ASSUME CInv, Sound, ActivateFailsLate, met' = {}
  PROVE  Sound'
<1>1. /\ UNCHANGED <<ops, pending_restore, pending_ir, replay, phase>>
      /\ phase = "inactive" /\ Rollback /\ Reordered = {}
      /\ dsp' = None /\ PublishStaged
      /\ staged_restore' = None /\ staged_swap' = NothingStaged
  BY DEF ActivateFailsLate, NothingStagedAfter
<1>2. dsp = None /\ staged_restore = None /\ staged_swap = NothingStaged
  <2>1. Noting("late_failure", dsp # None \/ staged_restore # None
                                 \/ staged_swap # NothingStaged) = {}
    BY DEF ActivateFailsLate
  <2> QED
    BY <2>1 DEF Noting
<1>3. UNCHANGED <<shown, dsp, staged_swap, staged_restore>>
  BY <1>1, <1>2 DEF PublishStaged, identity
<1>4. sized' = sized \/ (staged_swap = NothingStaged /\ staged_restore = None)
  BY <1>2
<1> QED
  BY <1>1, <1>2, <1>3, <1>4, RollbackSound

-----------------------------------------------------------------------------
(* What is shown runs.                                                     *)

LEMMA SoundInit == Init => Sound
<1> SUFFICES ASSUME Init PROVE Sound
  OBVIOUS
<1>1. \A S : <<>> \in Seq(S)
  OBVIOUS
<1>2. HasChain /\ Newer /\ RestoreAlone /\ IrShown
  BY <1>1 DEF Init, HasChain, Newer, RestoreAlone, RestoresModel, RestoresIr, IrShown
<1>3. ModelAlone /\ IrAlone
  BY DEF Init, ModelAlone, IrAlone, StagesModel, StagesIr, NothingStaged
<1>4. \A x, v : Lands(x, v) = v
  BY EffectEmpty DEF Init, Lands, LandsIn
<1>5. ModelAgrees
  BY <1>4 DEF Init, ModelAgrees, ModelToRun, ModelToShow, RestoresModel, KeptModel, NothingStaged
<1>6. IrAgrees
  BY <1>4 DEF Init, IrAgrees, IrToRun, IrToShow, RestoresIr, KeptIr, NothingStaged
<1> QED
  BY <1>2, <1>3, <1>5, <1>6 DEF Sound

(* A situation once met is never forgotten.                                *)
LEMMA MetGrows == [Next]_vars => met \subseteq met'
<1> SUFFICES ASSUME [Next]_vars PROVE met \subseteq met'
  OBVIOUS
<1>0. ASSUME NEW touched, NEW beside, NEW other, Operation(touched, beside, other)
      PROVE  met \subseteq met'
  BY <1>0 DEF Operation
<1>1. CASE Commit
  <2>1. PICK full, m, i :
          LET cmd == RestoreCommand(full, m, i)
          IN  \/ LocalCommit(cmd, full)
              \/ ContinuousCommit(cmd, full)
              \/ \E os_differs \in BOOLEAN : StagedCommit(cmd, full, os_differs)
    BY <1>1 DEF Commit
  <2> DEFINE cmd == RestoreCommand(full, m, i)
  <2> HIDE DEF cmd
  <2>2. CASE LocalCommit(cmd, full)
    BY <1>0, <2>2 DEF LocalCommit
  <2>3. CASE ContinuousCommit(cmd, full)
    BY <1>0, <2>3 DEF ContinuousCommit
  <2>4. ASSUME NEW os_differs, StagedCommit(cmd, full, os_differs)
        PROVE  met \subseteq met'
    BY <1>0, <2>4 DEF StagedCommit
  <2> QED
    BY <2>1, <2>2, <2>3, <2>4 DEF cmd
<1>2. CASE HousekeepingNext
  BY <1>2 DEF HousekeepingNext, RedeliverRestore, PublishRestore, NoRestoreToFlush,
              FlushPendingModel, NothingRequested, RetryIr
<1>3. CASE RequestNext
  <2>1. CASE LoadModel
    BY <1>0, <2>1 DEF LoadModel
  <2>2. CASE ClearModel
    BY <1>0, <2>2 DEF ClearModel
  <2>3. CASE ClearModelFails
    BY <1>0, <2>3 DEF ClearModelFails
  <2>4. CASE LoadIr
    BY <1>0, <2>4 DEF LoadIr
  <2>5. CASE ClearIr
    BY <1>0, <2>5 DEF ClearIr
  <2> QED
    BY <1>3, <2>1, <2>2, <2>3, <2>4, <2>5 DEF RequestNext
<1>4. CASE PushSnapshot \/ AudioNext
  BY <1>4 DEF PushSnapshot, AudioNext, Drain, ReplayRecovered, Panic
<1>5. CASE LifecycleNext
  BY <1>5 DEF LifecycleNext, Activate, ActivateFails, ActivateFailsLate, Deactivate
<1>6. CASE UNCHANGED vars
  BY <1>6 DEF vars
<1> QED
  BY <1>1, <1>2, <1>3, <1>4, <1>5, <1>6 DEF Next

(* Every step that meets no hazard keeps Sound.                            *)
LEMMA SoundKept == SInv /\ [Next]_vars => SInv'
<1> SUFFICES ASSUME SInv, [Next]_vars, met' = {} PROVE Sound'
  BY ChainsKept DEF SInv
<1>1. met = {}
  BY MetGrows
<1>2. CInv /\ Sound /\ "carried" \notin met
  BY <1>1 DEF SInv
<1>3. CASE Commit
  BY <1>2, <1>3, CommitSound
<1>4. CASE HousekeepingNext
  BY <1>2, <1>4, RedeliverRestoreSound, PublishRestoreSound, IdleStepsSound,
     FlushPendingModelSound, RetryIrSound DEF HousekeepingNext
<1>5. CASE RequestNext
  BY <1>2, <1>5, LoadModelSound, ClearModelSound, ClearModelFailsNotes, LoadIrSound, ClearIrSound
     DEF RequestNext
<1>6. CASE PushSnapshot
  BY <1>2, <1>6, PushSnapshotSound
<1>7. CASE AudioNext
  BY <1>2, <1>7, DrainSound, ReplayRecoveredSound, PanicSound DEF AudioNext
<1>8. CASE LifecycleNext
  BY <1>2, <1>8, ActivateSound, ActivateFailsSound, ActivateFailsLateSound, DeactivateSound
     DEF LifecycleNext
<1>9. CASE UNCHANGED vars
  <2>1. /\ UNCHANGED <<ops, sized, pending_model, pending_restore, pending_ir>>
        /\ UNCHANGED <<staged_swap, staged_restore, shown, ring, recovered, replay>>
        /\ UNCHANGED <<phase, dsp, latency>>
    BY <1>9 DEF vars, chain, channel, staging, slots, identity
  <2> QED
    BY <1>2, <2>1, SoundFrame
<1> QED
  BY <1>3, <1>4, <1>5, <1>6, <1>7, <1>8, <1>9 DEF Next

(* With nothing on its way, what will run is what runs.                    *)
LEMMA SoundShows == SInv => ShownIsRunning
<1> SUFFICES ASSUME SInv, met = {}, Settled PROVE shown = Running
  BY DEF ShownIsRunning
<1>1. CInv /\ Sound
  BY DEF SInv
<1>2. dsp # None /\ recovered = <<>> /\ replay = <<>> /\ ring \in Seq(Sane)
  BY <1>1, Sequences DEF CInv, Phases, Settled
<1>3. ASSUME NEW x \in {"model", "ir"}, NEW v PROVE Lands(x, v) = v
  <2>1. \A j \in 1 .. Len(ring) : ~Touches(ring[j], x)
    <3> SUFFICES ASSUME NEW j \in 1 .. Len(ring) PROVE ~Touches(ring[j], x)
      OBVIOUS
    <3>1. ring[j] \in Sane /\ ring[j].kind = "Params"
      BY <1>2, ElementOfSeq DEF Settled, Structural
    <3> QED
      BY <3>1 DEF Sane, Shape, Touches
  <2>2. Effect(ring, x, v) = v
    BY <2>1, EffectNone
  <2> QED
    BY <1>2, <2>2, EffectEmpty DEF Lands, LandsIn
<1>4. shown.model = dsp.model
  <2>1. ModelToRun = dsp.model
    BY <1>2, <1>3 DEF ModelToRun, Settled, NothingStaged, KeptModel
  <2>2. ModelToShow = shown.model
    BY DEF ModelToShow, RestoresModel, Settled
  <2> QED
    BY <1>1, <2>1, <2>2 DEF Sound, ModelAgrees
<1>5. shown.ir = dsp.ir
  <2>1. IrToRun = dsp.ir
    BY <1>2, <1>3 DEF IrToRun, Settled, NothingStaged, KeptIr
  <2>2. IrToShow = shown.ir
    BY DEF IrToShow, RestoresIr, Settled
  <2> QED
    BY <1>1, <2>1, <2>2 DEF Sound, IrAgrees, Settled
<1>6. shown = [model |-> shown.model, ir |-> shown.ir]
  BY <1>1 DEF CInv, TypeOK, Identity
<1> QED
  BY <1>4, <1>5, <1>6 DEF Running

(* Once everything that was asked for has been delivered, the model and    *)
(* the IR the GUI names are those of the processor, for all assets, ring   *)
(* capacities, latencies and bounds, unless one of the Hazards was met.    *)
THEOREM ShownRuns == Spec => []ShownIsRunning
<1>1. Init => SInv
  BY CInit, SoundInit DEF SInv
<1> QED
  BY <1>1, SoundKept, SoundShows, PTL DEF Spec

=============================================================================
