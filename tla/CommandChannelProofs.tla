------------------------ MODULE CommandChannelProofs ------------------------
(***************************************************************************)
(* Proofs about CommandChannel for every value of its constants: the types *)
(* of its state, the sequence ledger (AckNeverAhead, AckGapless,           *)
(* AckReproducesProcessedSeq), AckMonotone and BudgetHolds; then, from an  *)
(* invariant on the place of every command, Conservation; from the order   *)
(* of the ring on top of it, LatestWins; and from the order of the         *)
(* impulse responses, NoStaleIr (with one failed activation at most).      *)
(***************************************************************************)
EXTENDS CommandChannel, SequenceTheorems, FiniteSetTheorems, TLAPS

(* A drain exists only inside a callback of an active processor, and the   *)
(* parked slot is empty while one runs (phase 0 emptied it).               *)
DrainShape ==
  IF drain.on THEN phase = "active" /\ parked = NoCmd
  ELSE drain.candidate = NoCmd /\ drain.resolved = 0 /\ drain.applied = 0

(* Only a processor that exists holds a parked command.                    *)
ParkedShape == phase \in {"inactive", "activating"} => parked = NoCmd

(* A poisoned processor lost the count of its last drain, and only that:   *)
(* what it consumed is acknowledged late, never early.                     *)
PoisonShape ==
  phase = "poisoned" =>
    /\ panics > 0
    /\ last_ack <= processed_seq
    /\ processed_seq + Occupied(parked) + Len(ring) <= Pushed

(* What the window may still install, next to what the drain installed.    *)
BudgetShape == drain.applied + drain.budget <= SwapsPerCallback

Ledger ==
  /\ DrainShape
  /\ ParkedShape
  /\ PoisonShape
  /\ BudgetShape
  /\ AckReproducesProcessedSeq
  /\ AckNeverAhead
  /\ AckGapless

IInv == TypeOK /\ Ledger

-----------------------------------------------------------------------------
(* Operators on slots and sequences.                                       *)

(* The contents of a slot or of a sequence are commands.                   *)
LEMMA SlotSetType ==
  ASSUME NEW s \in Slot
  PROVE  SlotSet(s) \subseteq Command
BY DEF SlotSet, Slot

LEMMA RangeType ==
  ASSUME NEW S, NEW s \in Seq(S)
  PROVE  RangeOf(s) \subseteq S
BY DEF RangeOf

(* A rollback stages a sequence of slots (ActivateRollbackGuard::drop).    *)
LEMMA RestageType ==
  ASSUME NEW drained \in Seq(Command), NEW already \in Seq(Slot)
  PROVE  Restage(drained, already) \in Seq(Slot)
<1> DEFINE first == [i \in 1..Len(drained) |->
                       IF drained[i].kind = "LoadModel" THEN NoCmd ELSE drained[i]]
<1>1. \A i \in 1..Len(drained) : drained[i] \in Command
  BY ElementOfSeq
<1>2. \A i \in 1..Len(drained) : first[i] \in Slot
  BY <1>1 DEF Slot
<1>3. Len(drained) \in Nat
  BY LenProperties
<1>4. first \in Seq(Slot)
  <2>1. first \in [1..Len(drained) -> Slot]
    BY <1>2
  <2> QED
    BY <1>3, <2>1, SeqDef
<1>5. first \o already \in Seq(Slot)
  BY <1>4, ConcatProperties
<1> QED
  BY <1>5 DEF Restage

(* A push appends one command and leaves the counter to BumpSeq.           *)
LEMMA PushShape ==
  ASSUME TypeOK, NEW c \in Command, RingPush(c)
  PROVE  /\ ring' \in Seq(Command)
         /\ Len(ring') = Len(ring) + 1
         /\ Len(ring') <= QueueCapacity
         /\ bumping' = TRUE
<1> DEFINE d == [c EXCEPT !.seq = next_seq + 1]
<1>1. d \in Command
  <2>1. next_seq + 1 \in Nat
    BY DEF TypeOK
  <2>2. d = [id |-> c.id, kind |-> c.kind, seq |-> next_seq + 1]
    BY DEF Command
  <2> QED
    BY <2>1, <2>2 DEF Command
<1>2. ring \in Seq(Command) /\ ring' = Append(ring, d)
  BY DEF TypeOK, RingPush
<1>3. ring' \in Seq(Command) /\ Len(ring') = Len(ring) + 1
  BY <1>1, <1>2, AppendProperties
<1>4. Len(ring) \in Nat
  BY <1>2, LenProperties
<1> QED
  BY <1>3, <1>4, ChannelAssumption DEF RingPush

(* A pop takes the head and counts one sequence slot.                      *)
LEMMA PopShape ==
  ASSUME TypeOK, PopHead
  PROVE  /\ ring' \in Seq(Command)
         /\ Head(ring) \in Command
         /\ Len(ring) \in Nat \ {0}
         /\ Len(ring') = Len(ring) - 1
         /\ processed_seq' = processed_seq + 1
         /\ drain.on
<1>1. ring \in Seq(Command) /\ ring # <<>>
  BY DEF TypeOK, PopHead, CanPop
<1>2. Head(ring) \in Command /\ Tail(ring) \in Seq(Command)
  BY <1>1, HeadTailProperties
<1>3. Len(Tail(ring)) = Len(ring) - 1 /\ Len(ring) \in Nat \ {0}
  BY <1>1, HeadTailProperties, EmptySeq, LenProperties
<1> QED
  BY <1>2, <1>3 DEF PopHead, CanPop

(* An install keeps the types of the DSP state.                            *)
LEMMA InstallType ==
  ASSUME TypeOK, NEW c \in Command, Install(c)
  PROVE  rt' \in [Resources -> Nat] /\ installed' \subseteq Command
<1>1. c.id \in Nat
  BY DEF Command
<1> QED
  BY <1>1 DEF TypeOK, Install, Installing

(* The fields of a drain move independently.                               *)
LEMMA DrainType ==
  ASSUME NEW d \in Drain, NEW c \in Slot, NEW b \in Nat
  PROVE  /\ [d EXCEPT !.pops = @ + 1, !.resolved = @ + 1] \in Drain
         /\ [d EXCEPT !.candidate = c, !.pops = @ + 1] \in Drain
         /\ [d EXCEPT !.candidate = c, !.pops = @ + 1, !.resolved = @ + 1] \in Drain
         /\ [d EXCEPT !.candidate = c, !.budget = b, !.pops = @ + 1,
                      !.resolved = @ + 1, !.applied = @ + 1] \in Drain
<1>1. /\ d.on \in BOOLEAN /\ d.candidate \in Slot /\ d.budget \in Nat
      /\ d.pops + 1 \in Nat /\ d.resolved \in Nat /\ d.resolved + 1 \in Nat
      /\ d.applied \in Nat /\ d.applied + 1 \in Nat
  BY DEF Drain
<1>2. [d EXCEPT !.pops = @ + 1, !.resolved = @ + 1] \in Drain
  BY <1>1 DEF Drain
<1>3. [d EXCEPT !.candidate = c, !.pops = @ + 1] \in Drain
  BY <1>1 DEF Drain
<1>4. [d EXCEPT !.candidate = c, !.pops = @ + 1, !.resolved = @ + 1] \in Drain
  BY <1>1 DEF Drain
<1>5. [d EXCEPT !.candidate = c, !.budget = b, !.pops = @ + 1,
                !.resolved = @ + 1, !.applied = @ + 1] \in Drain
  BY <1>1 DEF Drain
<1> QED
  BY <1>2, <1>3, <1>4, <1>5

(* A new command, and the snapshot or command taken over by a push.        *)
LEMMA NewCmdType ==
  ASSUME TypeOK, NEW kind \in AllKinds
  PROVE  NewCmd(kind) \in Command
BY DEF TypeOK, NewCmd, Command

LEMMA DeliverType ==
  ASSUME TypeOK, NEW p \in Command, NEW r \in Slot, DeliverParams(p, r), ~bumping
  PROVE  /\ superseded' \subseteq Command
         /\ coalescing' \in Slot
         /\ in_flight' \in Slot
         /\ ring' \in Seq(Command)
         /\ Len(ring') <= QueueCapacity
         /\ bumping' \in BOOLEAN
         /\ Len(ring') + (IF bumping' THEN 1 ELSE 0) >= Len(ring)
         /\ Len(ring') - (IF bumping' THEN 1 ELSE 0) = Len(ring)
<1>1. superseded' \subseteq Command
  BY SlotSetType DEF DeliverParams, TypeOK
<1>2. Len(ring) \in Nat
  BY LenProperties DEF TypeOK
<1>3. CASE RingPush(p) /\ coalescing' = NoCmd /\ in_flight' = r
  <2>1. /\ ring' \in Seq(Command) /\ Len(ring') = Len(ring) + 1
        /\ Len(ring') <= QueueCapacity /\ bumping' = TRUE
    BY <1>3, PushShape
  <2>2. coalescing' \in Slot /\ in_flight' \in Slot
    BY <1>3 DEF Slot
  <2> QED
    BY <1>1, <1>2, <2>1, <2>2
<1>4. CASE coalescing' = p /\ in_flight' = p /\ UNCHANGED <<ring, bumping>>
  BY <1>1, <1>2, <1>4 DEF Slot, TypeOK
<1> QED
  BY <1>3, <1>4 DEF DeliverParams

-----------------------------------------------------------------------------
(* Types.                                                                  *)

LEMMA TypeInit == Init => TypeOK
<1> SUFFICES ASSUME Init PROVE TypeOK
  OBVIOUS
<1>1. NoCmd \in Slot
  BY DEF Slot
<1>2. <<>> \in Seq(Command) /\ <<>> \in Seq(Slot) /\ Len(<<>>) <= QueueCapacity
  BY EmptySeq, ChannelAssumption
<1> QED
  BY <1>1, <1>2 DEF Init, TypeOK, Drain, IdleDrain

(* A step of the main thread.                                              *)
LEMMA TypeMain == TypeOK /\ MainNext => TypeOK'
<1> SUFFICES ASSUME TypeOK, MainNext PROVE TypeOK'
  OBVIOUS
<1> USE DEF mainVars, audioVars, histVars, faultVars
<1>1. CASE BumpSeq
  <2>1. next_seq' \in Nat
    BY <1>1 DEF BumpSeq, TypeOK
  <2>2. bumping' \in BOOLEAN
    BY <1>1, Zenon DEF BumpSeq
  <2> QED
    BY <1>1, <2>1, <2>2 DEF BumpSeq, TypeOK
<1>2. CASE FlushParams
  <2>1. NewCmd("Params") \in Command
    BY NewCmdType DEF AllKinds
  <2>2. /\ superseded' \subseteq Command /\ coalescing' \in Slot /\ in_flight' \in Slot
        /\ ring' \in Seq(Command) /\ Len(ring') <= QueueCapacity /\ bumping' \in BOOLEAN
    BY <1>2, <2>1, DeliverType DEF FlushParams, TypeOK, MainFree, MainIdle
  <2> QED
    BY <1>2, <2>2 DEF FlushParams, TypeOK
<1>3. CASE FlushInFlightParams
  <2>1. in_flight \in Command /\ NoCmd \in Slot
    BY <1>3 DEF FlushInFlightParams, TypeOK, Slot
  <2>2. /\ superseded' \subseteq Command /\ coalescing' \in Slot /\ in_flight' \in Slot
        /\ ring' \in Seq(Command) /\ Len(ring') <= QueueCapacity /\ bumping' \in BOOLEAN
    BY <1>3, <2>1, DeliverType DEF FlushInFlightParams, MainFree, MainIdle
  <2> QED
    BY <1>3, <2>2 DEF FlushInFlightParams, TypeOK
<1>4. ASSUME NEW kind \in Kinds, BeginPush(kind) PROVE TypeOK'
  <2>1. NewCmd(kind) \in Slot
    BY <1>4, NewCmdType, ChannelAssumption DEF Slot
  <2> QED
    BY <1>4, <2>1 DEF BeginPush, TypeOK
<1>5. CASE DeferModel
  <2>1. NewCmd("LoadModel") \in Slot
    BY NewCmdType DEF Slot, AllKinds
  <2>2. SlotSet(pending_model) \subseteq Command
    BY SlotSetType DEF TypeOK
  <2> QED
    BY <1>5, <2>1, <2>2 DEF DeferModel, TypeOK
<1>6. CASE FlushPendingModel
  BY <1>6 DEF FlushPendingModel, TypeOK, Slot
<1>7. CASE ForceFlushFirst
  <2>1. coalescing \in Command /\ RingPush(coalescing)
    BY <1>7 DEF ForceFlushFirst, TypeOK, Slot
  <2>2. ring' \in Seq(Command) /\ Len(ring') <= QueueCapacity /\ bumping' \in BOOLEAN
    BY <2>1, PushShape
  <2> QED
    BY <1>7, <2>2 DEF ForceFlushFirst, TypeOK, Slot
<1>8. CASE PushHeld
  <2>1. held \in Command /\ RingPush(held)
    BY <1>8 DEF PushHeld, TypeOK, Slot
  <2>2. ring' \in Seq(Command) /\ Len(ring') <= QueueCapacity /\ bumping' \in BOOLEAN
    BY <2>1, PushShape
  <2> QED
    BY <1>8, <2>2 DEF PushHeld, TypeOK, Slot
<1>9. CASE PushFull
  <2>1. held \in Command /\ SlotSet(pending_model) \subseteq Command
    BY <1>9, SlotSetType DEF PushFull, TypeOK, Slot
  <2> QED
    BY <1>9, <2>1 DEF PushFull, TypeOK, Slot
<1> QED
  BY <1>1, <1>2, <1>3, <1>4, <1>5, <1>6, <1>7, <1>8, <1>9 DEF MainNext

(* A step of the drain.                                                    *)
LEMMA TypeDrain == IInv /\ DrainNext => TypeOK'
<1> SUFFICES ASSUME IInv, DrainNext PROVE TypeOK'
  OBVIOUS
<1> USE DEF mainVars, histVars, faultVars
<1>0. /\ TypeOK /\ drain \in Drain /\ NoCmd \in Slot
      /\ drain.candidate \in Slot /\ drain.budget \in Nat /\ drain.resolved \in Nat
  BY DEF IInv, TypeOK, Drain, Slot
<1>1. CASE ReplayRecovered
  <2>1. Head(replay) \in Slot /\ Tail(replay) \in Seq(Slot)
    BY <1>0, <1>1, HeadTailProperties DEF ReplayRecovered, TypeOK
  <2>2. rt' \in [Resources -> Nat] /\ installed' \subseteq Command
    <3>1. CASE Head(replay) = NoCmd
      BY <1>0, <1>1, <3>1 DEF ReplayRecovered, TypeOK
    <3>2. CASE Head(replay) # NoCmd
      BY <1>0, <1>1, <2>1, <3>2, InstallType DEF ReplayRecovered, Slot
    <3> QED
      BY <3>1, <3>2
  <2> QED
    BY <1>0, <1>1, <2>1, <2>2 DEF ReplayRecovered, TypeOK
<1>2. CASE BeginDrain
  <2> DEFINE newer == ring # <<>> /\ parked # NoCmd /\ Supersedes(Head(ring), parked)
             apply == IF parked # NoCmd /\ ~newer THEN 1 ELSE 0
  <2>1. apply \in {0, 1} /\ (parked # NoCmd => parked \in Command)
    BY <1>0 DEF TypeOK, Slot
  <2>2. BudgetAfterPhase0(apply) \in Nat /\ Occupied(parked) \in Nat
    BY <2>1, ChannelAssumption DEF BudgetAfterPhase0, Occupied
  <2>3. drain' = [on |-> TRUE, candidate |-> NoCmd, budget |-> BudgetAfterPhase0(apply),
                  pops |-> 0, resolved |-> Occupied(parked), applied |-> apply]
    BY <1>2 DEF BeginDrain
  <2>4. drain' \in Drain
    BY <1>0, <2>1, <2>2, <2>3 DEF Drain
  <2>5. rt' \in [Resources -> Nat] /\ installed' \subseteq Command
    <3>1. CASE apply = 1
      BY <1>0, <1>2, <2>1, <3>1, InstallType DEF BeginDrain
    <3>2. CASE apply = 0
      BY <1>0, <1>2, <3>2 DEF BeginDrain, TypeOK
    <3> QED
      BY <2>1, <3>1, <3>2
  <2>6. superseded' \subseteq Command
    BY <1>0, <1>2, <2>1 DEF BeginDrain, TypeOK
  <2>7. processed_seq' \in Nat /\ parked' = NoCmd
    BY <1>0, <1>2 DEF BeginDrain, TypeOK, AdvanceResolved
  <2> QED
    BY <1>0, <1>2, <2>4, <2>5, <2>6, <2>7 DEF BeginDrain, TypeOK
<1>3. ASSUME PopHead
      PROVE  /\ ring' \in Seq(Command) /\ Len(ring') <= QueueCapacity
             /\ processed_seq' \in Nat /\ Head(ring) \in Command
             /\ Head(ring) \in Slot
  BY <1>0, <1>3, PopShape, ChannelAssumption DEF TypeOK, Slot
<1>4. CASE PopLight
  <2>1. rt' \in [Resources -> Nat] /\ installed' \subseteq Command
    BY <1>0, <1>3, <1>4, InstallType DEF PopLight
  <2>2. drain' \in Drain
    BY <1>0, <1>4, DrainType DEF PopLight
  <2> QED
    BY <1>0, <1>3, <1>4, <2>1, <2>2 DEF PopLight, TypeOK
<1>5. CASE PopFirst
  <2>1. drain' \in Drain
    BY <1>0, <1>3, <1>5, DrainType DEF PopFirst
  <2> QED
    BY <1>0, <1>3, <1>5, <2>1 DEF PopFirst, TypeOK
<1>6. CASE PopSuperseding
  <2>1. drain' \in Drain
    BY <1>0, <1>3, <1>6, DrainType DEF PopSuperseding
  <2>2. superseded' \subseteq Command
    BY <1>0, <1>6 DEF PopSuperseding, TypeOK, Slot
  <2> QED
    BY <1>0, <1>3, <1>6, <2>1, <2>2 DEF PopSuperseding, TypeOK
<1>7. CASE PopFlushing
  <2>1. drain.candidate \in Command
    BY <1>0, <1>7 DEF PopFlushing, Slot
  <2>2. rt' \in [Resources -> Nat] /\ installed' \subseteq Command
    BY <1>0, <1>7, <2>1, InstallType DEF PopFlushing
  <2>3. drain.budget - 1 \in Nat
    BY <1>0, <1>7 DEF PopFlushing
  <2>4. drain' \in Drain
    <3>1. drain' = [drain EXCEPT !.candidate = Head(ring), !.budget = drain.budget - 1,
                      !.pops = @ + 1, !.resolved = @ + 1, !.applied = @ + 1]
      BY <1>7 DEF PopFlushing
    <3>2. Head(ring) \in Slot
      BY <1>3, <1>7 DEF PopFlushing
    <3>3. \A b \in Nat :
            [drain EXCEPT !.candidate = Head(ring), !.budget = b, !.pops = @ + 1,
                          !.resolved = @ + 1, !.applied = @ + 1] \in Drain
      BY <1>0, <3>2, DrainType
    <3> QED
      BY <2>3, <3>1, <3>3
  <2> QED
    BY <1>0, <1>3, <1>7, <2>2, <2>4 DEF PopFlushing, TypeOK
<1>8. IdleDrain \in Drain
  BY <1>0 DEF Drain, IdleDrain
<1>9. CASE EndDrain
  <2>1. rt' \in [Resources -> Nat] /\ installed' \subseteq Command
    <3>1. CASE drain.candidate = NoCmd
      BY <1>0, <1>9, <3>1 DEF EndDrain, TypeOK
    <3>2. CASE drain.candidate # NoCmd
      BY <1>0, <1>9, <3>2, InstallType DEF EndDrain, Slot
    <3> QED
      BY <3>1, <3>2
  <2>2. last_ack' \in Nat
    BY <1>0, <1>9 DEF EndDrain, AckAfterDrain, Occupied, TypeOK
  <2> QED
    BY <1>0, <1>8, <1>9, <2>1, <2>2 DEF EndDrain, TypeOK
<1>10. CASE EndDrainParking
  <2>1. processed_seq - 1 \in Nat
    BY <1>0, <1>10 DEF EndDrainParking, IInv, Ledger, DrainShape, Alive, Occupied,
      AckReproducesProcessedSeq, TypeOK
  <2>2. last_ack' \in Nat /\ processed_seq' \in Nat
    BY <1>0, <1>10, <2>1 DEF EndDrainParking, AckAfterDrain, RollbackLastPop, TypeOK
  <2> QED
    BY <1>0, <1>8, <1>10, <2>2 DEF EndDrainParking, TypeOK
<1> QED
  BY <1>1, <1>2, <1>4, <1>5, <1>6, <1>7, <1>9, <1>10 DEF DrainNext

(* A panic or a step of the lifecycle.                                     *)
LEMMA TypeLifecycle == TypeOK /\ (Panic \/ LifecycleNext) => TypeOK'
<1> SUFFICES ASSUME TypeOK, Panic \/ LifecycleNext PROVE TypeOK'
  OBVIOUS
<1> USE DEF mainVars, audioVars, histVars, faultVars
<1>0. /\ NoCmd \in Slot /\ IdleDrain \in Drain /\ <<>> \in Seq(Slot)
      /\ <<>> \in Seq(Command) /\ Len(<<>>) = 0
      /\ RangeOf(replay) \subseteq Slot /\ RangeOf(ring) \subseteq Command
      /\ Len(ring) \in Nat
  BY EmptySeq, LenProperties, RangeType DEF TypeOK, Slot, Drain, IdleDrain
<1>1. CASE Panic
  <2>1. drain.candidate \in Slot
    BY DEF TypeOK, Drain
  <2>2. lost' \subseteq Command
    BY <1>0, <1>1, <2>1 DEF Panic, TypeOK, Slot
  <2>3. replay' \in Seq(Slot)
    BY <1>0, <1>1 DEF Panic, TypeOK
  <2> QED
    BY <1>0, <1>1, <2>2, <2>3 DEF Panic, TypeOK
<1>2. CASE Deactivate
  <2>1. lost' \subseteq Command
    BY <1>0, <1>2 DEF Deactivate, TypeOK, Slot
  <2>2. processed_seq' \in Nat /\ last_ack' \in Nat
    BY <1>2 DEF Deactivate, TypeOK, AdvanceResolved
  <2> QED
    BY <1>0, <1>2, <2>1, <2>2 DEF Deactivate, TypeOK
<1>3. CASE BeginActivate
  BY <1>0, <1>3 DEF BeginActivate, TypeOK
<1>4. CASE FinishActivate
  BY <1>0, <1>4 DEF FinishActivate, TypeOK, ConsumerSeed
<1>5. CASE ActivateFails
  <2> DEFINE models == {c \in RangeOf(ring) : c.kind = "LoadModel"}
                         \cup SlotSet(pending_model)
  <2>1. models \subseteq Command
    BY <1>0, SlotSetType DEF TypeOK
  <2>2. pending_model' \in Slot /\ superseded' \subseteq Command
    <3>1. KeepNewest(models)
      BY <1>5 DEF ActivateFails
    <3> HIDE DEF models
    <3> QED
      BY <1>0, <2>1, <3>1 DEF KeepNewest, TypeOK, Slot
  <2>3. staged' \in Seq(Slot)
    BY <1>5, RestageType DEF ActivateFails, TypeOK
  <2>4. last_ack' \in Nat /\ failures' \in Nat
    BY <1>0, <1>5 DEF ActivateFails, TypeOK
  <2>5. sized' \in BOOLEAN
    BY <1>5, Zenon DEF ActivateFails, TypeOK
  <2> QED
    BY <1>0, <1>5, <2>2, <2>3, <2>4, <2>5, ChannelAssumption DEF ActivateFails, TypeOK
<1> QED
  BY <1>1, <1>2, <1>3, <1>4, <1>5 DEF LifecycleNext

(* Every step keeps the types.                                             *)
LEMMA TypeStep == IInv /\ [Next]_vars => TypeOK'
<1> SUFFICES ASSUME IInv, [Next]_vars PROVE TypeOK'
  OBVIOUS
<1>1. TypeOK
  BY DEF IInv
<1>2. CASE UNCHANGED vars
  BY <1>1, <1>2 DEF vars, mainVars, audioVars, histVars, faultVars, TypeOK
<1> QED
  BY <1>1, <1>2, TypeMain, TypeDrain, TypeLifecycle DEF Next

-----------------------------------------------------------------------------
(* The ledger.                                                             *)

(* A slot counts for one sequence number or for none.                      *)
LEMMA OccupiedCounts ==
  /\ Occupied(NoCmd) = 0
  /\ \A s : Occupied(s) \in Nat /\ (s # NoCmd => Occupied(s) = 1)
BY DEF Occupied

(* The commands a pushed sequence number may still stand for, before and   *)
(* after a step.                                                           *)
LEMMA UnresolvedCounts ==
  /\ Unresolved = Len(ring) + Occupied(parked) + Occupied(drain.candidate)
  /\ Unresolved' = Len(ring') + Occupied(parked') + Occupied(drain'.candidate)
  /\ Len(ring) \in Nat => Unresolved \in Nat
  /\ Len(ring') \in Nat => Unresolved' \in Nat
<1>1. /\ Occupied(parked) \in Nat /\ Occupied(drain.candidate) \in Nat
      /\ Occupied(parked') \in Nat /\ Occupied(drain'.candidate) \in Nat
  BY OccupiedCounts
<1>2. /\ Unresolved = Len(ring) + Occupied(parked) + Occupied(drain.candidate)
      /\ Unresolved' = Len(ring') + Occupied(parked') + Occupied(drain'.candidate)
  BY DEF Unresolved
<1> QED
  BY <1>1, <1>2

(* A step of the main thread pushes a command or moves the counter over    *)
(* one already pushed; the consumer's side is not touched.                 *)
LEMMA MainPushes ==
  ASSUME TypeOK, MainNext
  PROVE  /\ \/ Pushed' = Pushed /\ Len(ring') = Len(ring)
            \/ Pushed' = Pushed + 1 /\ Len(ring') = Len(ring) + 1
         /\ UNCHANGED <<phase, drain, parked, panics, last_ack, processed_seq>>
<1> USE DEF mainVars, audioVars, histVars, faultVars
<1>0. /\ next_seq \in Nat /\ Len(ring) \in Nat
  BY LenProperties DEF TypeOK
<1>1. ASSUME next_seq' = next_seq, ~bumping,
             \/ Len(ring') = Len(ring) + 1 /\ bumping' = TRUE
             \/ ring' = ring /\ bumping' = bumping
      PROVE  \/ Pushed' = Pushed /\ Len(ring') = Len(ring)
             \/ Pushed' = Pushed + 1 /\ Len(ring') = Len(ring) + 1
  BY <1>0, <1>1 DEF Pushed
<1>2. ASSUME NEW c \in Command, RingPush(c)
      PROVE  Len(ring') = Len(ring) + 1 /\ bumping' = TRUE
  BY <1>2, PushShape, Zenon
<1>3. CASE BumpSeq
  BY <1>0, <1>3 DEF BumpSeq, Pushed
<1>4. ASSUME NEW p \in Command, NEW q \in Slot, DeliverParams(p, q)
      PROVE  \/ Len(ring') = Len(ring) + 1 /\ bumping' = TRUE
             \/ ring' = ring /\ bumping' = bumping
  BY <1>0, <1>2, <1>4 DEF DeliverParams
<1>5. CASE FlushParams
  <2>1. NewCmd("Params") \in Command /\ in_flight \in Slot
    BY NewCmdType DEF AllKinds, TypeOK
  <2> QED
    BY <1>1, <1>4, <1>5, <2>1 DEF FlushParams, MainFree, MainIdle
<1>6. CASE FlushInFlightParams
  <2>1. in_flight \in Command /\ NoCmd \in Slot
    BY <1>6 DEF FlushInFlightParams, TypeOK, Slot
  <2> QED
    BY <1>1, <1>4, <1>6, <2>1 DEF FlushInFlightParams, MainFree, MainIdle
<1>7. ASSUME NEW kind \in Kinds, BeginPush(kind) PROVE
        /\ \/ Pushed' = Pushed /\ Len(ring') = Len(ring)
           \/ Pushed' = Pushed + 1 /\ Len(ring') = Len(ring) + 1
        /\ UNCHANGED <<phase, drain, parked, panics, last_ack, processed_seq>>
  BY <1>0, <1>1, <1>7 DEF BeginPush, MainFree, MainIdle
<1>8. CASE DeferModel \/ FlushPendingModel
  BY <1>0, <1>1, <1>8 DEF DeferModel, FlushPendingModel, MainFree, MainIdle
<1>9. CASE ForceFlushFirst
  <2>1. coalescing \in Command /\ RingPush(coalescing)
    BY <1>9 DEF ForceFlushFirst, TypeOK, Slot
  <2> QED
    BY <1>1, <1>2, <1>9, <2>1 DEF ForceFlushFirst
<1>10. CASE PushHeld
  <2>1. held \in Command /\ RingPush(held)
    BY <1>10 DEF PushHeld, TypeOK, Slot
  <2> QED
    BY <1>1, <1>2, <1>10, <2>1 DEF PushHeld
<1>11. CASE PushFull
  BY <1>0, <1>1, <1>11 DEF PushFull
<1> QED
  BY <1>3, <1>5, <1>6, <1>7, <1>8, <1>9, <1>10, <1>11 DEF MainNext

(* The conjuncts of Ledger as facts about numbers: a step that keeps the   *)
(* consumer's side and the difference Pushed - Len(ring) keeps Ledger.     *)
LEMMA LedgerMain == IInv /\ MainNext => Ledger'
<1> SUFFICES ASSUME IInv, MainNext PROVE Ledger'
  OBVIOUS
<1>1. /\ \/ Pushed' = Pushed /\ Len(ring') = Len(ring)
         \/ Pushed' = Pushed + 1 /\ Len(ring') = Len(ring) + 1
      /\ UNCHANGED <<phase, drain, parked, panics, last_ack, processed_seq>>
  BY MainPushes DEF IInv
<1>2. /\ Len(ring) \in Nat /\ Pushed \in Nat /\ last_ack \in Nat
      /\ processed_seq \in Nat /\ drain.resolved \in Nat
  BY LenProperties DEF IInv, TypeOK, Drain, Pushed
<1>3. DrainShape' /\ ParkedShape' /\ BudgetShape'
  BY <1>1 DEF IInv, Ledger, DrainShape, ParkedShape, BudgetShape
<1>4. PoisonShape'
  <2>1. Occupied(parked) \in Nat
    BY OccupiedCounts
  <2>2. phase = "poisoned" =>
          /\ panics > 0 /\ last_ack <= processed_seq
          /\ processed_seq + Occupied(parked) + Len(ring) <= Pushed
    BY DEF IInv, Ledger, PoisonShape
  <2>3. phase = "poisoned" => processed_seq + Occupied(parked) + Len(ring') <= Pushed'
    BY <1>1, <1>2, <2>1, <2>2
  <2> QED
    BY <1>1, <2>2, <2>3 DEF PoisonShape
<1>5. AckReproducesProcessedSeq'
  BY <1>1 DEF IInv, Ledger, AckReproducesProcessedSeq, Alive
<1>6. AckNeverAhead' /\ AckGapless'
  <2>1. /\ last_ack' = last_ack /\ drain'.resolved = drain.resolved
        /\ panics' = panics
    BY <1>1
  <2>2. /\ last_ack + drain.resolved + Unresolved <= Pushed
        /\ panics = 0 => last_ack + drain.resolved + Unresolved = Pushed
    BY DEF IInv, Ledger, AckNeverAhead, AckGapless
  <2>3. Unresolved \in Nat /\ Occupied(parked) \in Nat /\ Occupied(drain.candidate) \in Nat
    BY <1>2, OccupiedCounts, UnresolvedCounts
  <2>4. CASE Pushed' = Pushed /\ Len(ring') = Len(ring)
    <3>1. Unresolved' = Unresolved
      BY <1>1, <2>4, UnresolvedCounts
    <3> QED
      BY <2>1, <2>2, <2>4, <3>1 DEF AckNeverAhead, AckGapless
  <2>5. CASE Pushed' = Pushed + 1 /\ Len(ring') = Len(ring) + 1
    <3>1. Unresolved' = Unresolved + 1
      BY <1>1, <1>2, <2>3, <2>5, UnresolvedCounts
    <3>2. last_ack + drain.resolved \in Nat
      BY <1>2
    <3>3. /\ last_ack + drain.resolved + Unresolved' <= Pushed'
          /\ panics = 0 => last_ack + drain.resolved + Unresolved' = Pushed'
      <4> DEFINE resolved == last_ack + drain.resolved
                 before == Unresolved
                 after == Unresolved'
                 pushed == Pushed
                 pushedAfter == Pushed'
      <4>1. /\ resolved \in Nat /\ before \in Nat /\ pushed \in Nat
            /\ after = before + 1 /\ pushedAfter = pushed + 1
            /\ resolved + before <= pushed
            /\ panics = 0 => resolved + before = pushed
        BY <1>2, <2>2, <2>3, <2>5, <3>1, <3>2
      <4> HIDE DEF resolved, before, after, pushed, pushedAfter
      <4>2. /\ resolved + after <= pushedAfter
            /\ panics = 0 => resolved + after = pushedAfter
        BY <4>1
      <4> QED
        BY <4>2 DEF resolved, after, pushedAfter
    <3> QED
      BY <2>1, <3>3 DEF AckNeverAhead, AckGapless
  <2> QED
    BY <1>1, <2>4, <2>5
<1> QED
  BY <1>3, <1>4, <1>5, <1>6 DEF Ledger

(* One pop: the ring gives up one command, the count takes it in.          *)
LEMMA LedgerPop ==
  ASSUME IInv, PopLight \/ PopFirst \/ PopSuperseding \/ PopFlushing
  PROVE  Ledger'
<1> USE DEF mainVars, audioVars, histVars, faultVars
<1>1. PopHead
  BY DEF PopLight, PopFirst, PopSuperseding, PopFlushing
<1>2. /\ Len(ring) \in Nat \ {0} /\ Len(ring') = Len(ring) - 1
      /\ processed_seq' = processed_seq + 1 /\ drain.on
      /\ Occupied(Head(ring)) = 1
  BY <1>1, PopShape, NoCmdAssumption, OccupiedCounts DEF IInv
<1>3. /\ drain \in Drain /\ Pushed \in Nat /\ last_ack \in Nat
      /\ processed_seq \in Nat /\ drain.resolved \in Nat
      /\ drain.budget \in Nat /\ drain.applied \in Nat
  BY DEF IInv, TypeOK, Drain, Pushed
<1>c. /\ Occupied(NoCmd) = 0 /\ Occupied(drain.candidate) \in Nat
      /\ drain.candidate # NoCmd => Occupied(drain.candidate) = 1
  BY OccupiedCounts
<1>4. phase = "active" /\ parked = NoCmd
  BY <1>2 DEF IInv, Ledger, DrainShape
<1>5. UNCHANGED <<phase, parked, panics, last_ack>> /\ Pushed' = Pushed
  BY DEF PopLight, PopFirst, PopSuperseding, PopFlushing, Pushed
<1>6. /\ drain'.on
      /\ \/ /\ drain'.resolved = drain.resolved + 1
            /\ Occupied(drain'.candidate) = Occupied(drain.candidate)
         \/ /\ drain'.resolved = drain.resolved
            /\ Occupied(drain'.candidate) = 1 /\ Occupied(drain.candidate) = 0
      /\ drain'.applied + drain'.budget = drain.applied + drain.budget
      /\ drain'.resolved \in Nat
  <2>1. CASE PopLight
    BY <1>2, <1>3, <1>c, <2>1 DEF PopLight, Drain
  <2>2. CASE PopFirst
    BY <1>2, <1>3, <1>c, <2>2 DEF PopFirst, Drain
  <2>3. CASE PopSuperseding
    BY <1>2, <1>3, <1>c, <2>3 DEF PopSuperseding, Drain
  <2>4. CASE PopFlushing
    BY <1>2, <1>3, <1>c, <2>4 DEF PopFlushing, Drain
  <2> QED
    BY <2>1, <2>2, <2>3, <2>4
<1>7. DrainShape' /\ ParkedShape' /\ PoisonShape'
  BY <1>4, <1>5, <1>6 DEF DrainShape, ParkedShape, PoisonShape
<1>8. BudgetShape'
  BY <1>3, <1>6 DEF IInv, Ledger, BudgetShape
<1>9. AckReproducesProcessedSeq'
  <2>1. processed_seq = last_ack + drain.resolved + Occupied(drain.candidate)
    BY <1>4 DEF IInv, Ledger, AckReproducesProcessedSeq, Alive
  <2>2. processed_seq' = last_ack + drain'.resolved + Occupied(drain'.candidate)
    <3>1. CASE drain'.resolved = drain.resolved + 1
      BY <1>2, <1>3, <1>c, <1>6, <2>1, <3>1
    <3>2. CASE drain'.resolved = drain.resolved
      BY <1>2, <1>3, <1>c, <1>6, <2>1, <3>2
    <3> QED
      BY <1>6, <3>1, <3>2
  <2> QED
    BY <1>5, <2>2 DEF AckReproducesProcessedSeq
<1>10. AckNeverAhead' /\ AckGapless'
  <2>1. /\ Unresolved = Len(ring) + Occupied(parked) + Occupied(drain.candidate)
        /\ Unresolved' = Len(ring') + Occupied(parked) + Occupied(drain'.candidate)
        /\ Occupied(parked) \in Nat /\ Occupied(drain.candidate) \in Nat
    BY <1>5, OccupiedCounts, UnresolvedCounts
  <2>2. last_ack + drain'.resolved + Unresolved' = last_ack + drain.resolved + Unresolved
    <3>1. CASE /\ drain'.resolved = drain.resolved + 1
               /\ Occupied(drain'.candidate) = Occupied(drain.candidate)
      <4>1. Unresolved' = Unresolved - 1 /\ Unresolved \in Nat
        BY <1>2, <2>1, <3>1
      <4> QED
        BY <1>3, <3>1, <4>1
    <3>2. CASE /\ drain'.resolved = drain.resolved
               /\ Occupied(drain'.candidate) = 1 /\ Occupied(drain.candidate) = 0
      <4>1. Unresolved' = Unresolved
        BY <1>2, <2>1, <3>2
      <4> QED
        BY <3>2, <4>1
    <3> QED
      BY <1>6, <3>1, <3>2
  <2>3. /\ last_ack + drain.resolved + Unresolved <= Pushed
        /\ panics = 0 => last_ack + drain.resolved + Unresolved = Pushed
    BY DEF IInv, Ledger, AckNeverAhead, AckGapless
  <2> QED
    BY <1>5, <2>2, <2>3 DEF AckNeverAhead, AckGapless
<1> QED
  BY <1>7, <1>8, <1>9, <1>10 DEF Ledger

(* Phase 0 opens a drain, phase 2 closes it.                               *)
LEMMA LedgerDrain ==
  ASSUME IInv, DrainNext
  PROVE  Ledger'
<1> USE DEF mainVars, audioVars, histVars, faultVars
<1>1. /\ drain \in Drain /\ Pushed \in Nat /\ last_ack \in Nat /\ Len(ring) \in Nat
      /\ processed_seq \in Nat /\ drain.resolved \in Nat
      /\ drain.budget \in Nat /\ drain.applied \in Nat
  BY LenProperties DEF IInv, TypeOK, Drain, Pushed
<1>2. /\ last_ack + drain.resolved + Unresolved <= Pushed
      /\ panics = 0 => last_ack + drain.resolved + Unresolved = Pushed
      /\ Alive => processed_seq = last_ack + drain.resolved + Occupied(drain.candidate)
      /\ drain.on => phase = "active" /\ parked = NoCmd
      /\ ~drain.on => /\ drain.candidate = NoCmd
                      /\ drain.resolved = 0 /\ drain.applied = 0
  BY DEF IInv, Ledger, AckNeverAhead, AckGapless, AckReproducesProcessedSeq, DrainShape
<1>3. /\ Occupied(NoCmd) = 0 /\ Occupied(parked) \in Nat /\ Occupied(parked') \in Nat
      /\ Occupied(drain.candidate) \in Nat
      /\ parked # NoCmd => Occupied(parked) = 1
      /\ drain.candidate # NoCmd => Occupied(drain.candidate) = 1
  BY OccupiedCounts
<1>4. CASE ReplayRecovered
  <2>1. Alive /\ Alive' /\ phase' # "poisoned" /\ ~drain.on
    BY <1>4 DEF ReplayRecovered, Alive
  <2>2. /\ Unresolved' = Unresolved /\ Pushed' = Pushed
        /\ UNCHANGED <<last_ack, drain, parked, processed_seq, panics>>
    BY <1>4 DEF ReplayRecovered, Unresolved, Pushed
  <2>3. DrainShape' /\ ParkedShape' /\ PoisonShape'
    BY <1>2, <2>1, <2>2 DEF DrainShape, ParkedShape, PoisonShape, Alive
  <2>4. BudgetShape'
    BY <2>2 DEF IInv, Ledger, BudgetShape
  <2>5. AckReproducesProcessedSeq' /\ AckNeverAhead' /\ AckGapless'
    BY <1>2, <2>1, <2>2 DEF AckReproducesProcessedSeq, AckNeverAhead, AckGapless
  <2> QED
    BY <2>3, <2>4, <2>5 DEF Ledger
<1>5. CASE BeginDrain
  <2>1. /\ phase = "active" /\ phase' = "active" /\ ~drain.on /\ parked' = NoCmd
        /\ Pushed' = Pushed /\ UNCHANGED <<ring, last_ack, panics>>
    BY <1>5 DEF BeginDrain, Pushed
  <2>2. /\ drain'.on /\ drain'.candidate = NoCmd
        /\ drain'.resolved = Occupied(parked)
        /\ drain'.applied + drain'.budget = SwapsPerCallback
    BY <1>5, ChannelAssumption DEF BeginDrain, BudgetAfterPhase0
  <2>3. processed_seq' = processed_seq + Occupied(parked)
    BY <1>1, <1>3, <1>5 DEF BeginDrain, AdvanceResolved
  <2>4. /\ Unresolved = Unresolved' + Occupied(parked)
        /\ drain'.resolved = Occupied(parked) /\ drain.resolved = 0
    <3>1. /\ Unresolved = Len(ring) + Occupied(parked) + Occupied(NoCmd)
          /\ Unresolved' = Len(ring) + Occupied(NoCmd) + Occupied(NoCmd)
      BY <1>2, <2>1, <2>2, UnresolvedCounts
    <3> QED
      BY <1>1, <1>2, <1>3, <2>1, <2>2, <3>1
  <2>5. DrainShape' /\ ParkedShape' /\ PoisonShape'
    BY <2>1, <2>2 DEF DrainShape, ParkedShape, PoisonShape
  <2>6. BudgetShape'
    BY <2>2, ChannelAssumption DEF BudgetShape
  <2>7. AckReproducesProcessedSeq'
    BY <1>1, <1>2, <1>3, <2>1, <2>2, <2>3 DEF AckReproducesProcessedSeq, Alive
  <2>8. AckNeverAhead' /\ AckGapless'
    <3>1. Unresolved' \in Nat
      BY <1>1, <2>1, UnresolvedCounts
    <3>2. last_ack + drain'.resolved + Unresolved' = last_ack + drain.resolved + Unresolved
      BY <1>1, <1>3, <2>4, <3>1
    <3> QED
      BY <1>2, <2>1, <3>2 DEF AckNeverAhead, AckGapless
  <2> QED
    BY <2>5, <2>6, <2>7, <2>8 DEF Ledger
<1>6. CASE EndDrain \/ EndDrainParking
  <2>1. /\ phase = "active" /\ phase' = "active" /\ drain.on /\ parked = NoCmd
        /\ drain' = IdleDrain
        /\ Pushed' = Pushed /\ UNCHANGED <<ring, panics>>
    BY <1>2, <1>6 DEF EndDrain, EndDrainParking, Pushed
  <2>2. last_ack' = processed_seq'
    <3>1. CASE EndDrain
      BY <1>1, <1>2, <1>3, <2>1, <3>1 DEF EndDrain, AckAfterDrain, Alive
    <3>2. CASE EndDrainParking
      <4>1. processed_seq = last_ack + drain.resolved + 1
        BY <1>2, <1>3, <2>1, <3>2 DEF EndDrainParking, Alive
      <4>2. processed_seq' = processed_seq - 1 /\ last_ack' = last_ack + drain.resolved
        BY <3>2 DEF EndDrainParking, AckAfterDrain, RollbackLastPop
      <4> QED
        BY <1>1, <4>1, <4>2
    <3> QED
      BY <1>6, <3>1, <3>2
  <2>3. last_ack' + Occupied(parked') = last_ack + drain.resolved + Occupied(drain.candidate)
    <3>1. CASE EndDrain
      BY <1>1, <1>3, <2>1, <3>1 DEF EndDrain, AckAfterDrain
    <3>2. CASE EndDrainParking
      BY <1>1, <1>3, <2>1, <3>2 DEF EndDrainParking, AckAfterDrain
    <3> QED
      BY <1>6, <3>1, <3>2
  <2>4. Unresolved' = Len(ring) + Occupied(parked')
    BY <1>1, <1>3, <2>1, UnresolvedCounts DEF IdleDrain
  <2>5. DrainShape' /\ ParkedShape' /\ PoisonShape' /\ BudgetShape'
    BY <2>1, ChannelAssumption
       DEF DrainShape, ParkedShape, PoisonShape, BudgetShape, IdleDrain
  <2>6. AckReproducesProcessedSeq'
    <3>1. last_ack' \in Nat
      BY <1>1, <1>3, <1>6 DEF EndDrain, EndDrainParking, AckAfterDrain
    <3>2. drain'.resolved = 0 /\ Occupied(drain'.candidate) = 0
      BY <1>3, <2>1 DEF IdleDrain
    <3>3. \A n \in Nat : n + 0 + 0 = n
      OBVIOUS
    <3> QED
      BY <2>2, <3>1, <3>2, <3>3 DEF AckReproducesProcessedSeq
  <2>7. AckNeverAhead' /\ AckGapless'
    <3>1. last_ack' \in Nat
      BY <1>1, <1>3, <1>6 DEF EndDrain, EndDrainParking, AckAfterDrain
    <3>2. last_ack' + 0 + Unresolved' = last_ack + drain.resolved + Unresolved
      <4>1. \A a, b, n \in Nat : a + 0 + (n + b) = (a + b) + n
        OBVIOUS
      <4>2. \A a, b, c, n \in Nat : a + b + (n + 0 + c) = (a + b + c) + n
        OBVIOUS
      <4>3. last_ack' + 0 + Unresolved' = (last_ack' + Occupied(parked')) + Len(ring)
        BY <1>1, <1>3, <2>4, <3>1, <4>1
      <4>4. Unresolved = Len(ring) + 0 + Occupied(drain.candidate)
        BY <1>3, <2>1, UnresolvedCounts
      <4>5. last_ack + drain.resolved + Unresolved
              = (last_ack + drain.resolved + Occupied(drain.candidate)) + Len(ring)
        <5> DEFINE before == last_ack
                   done == drain.resolved
                   window == Occupied(drain.candidate)
                   queued == Len(ring)
                   open == Unresolved
        <5>1. /\ before \in Nat /\ done \in Nat /\ window \in Nat /\ queued \in Nat
              /\ open = queued + 0 + window
          BY <1>1, <1>3, <4>4
        <5> HIDE DEF before, done, window, queued, open
        <5>2. before + done + open = (before + done + window) + queued
          BY <4>2, <5>1
        <5> QED
          BY <5>2 DEF before, done, window, queued, open
      <4> QED
        BY <2>3, <4>3, <4>5
    <3> QED
      BY <1>2, <2>1, <3>2 DEF AckNeverAhead, AckGapless, IdleDrain
  <2> QED
    BY <2>5, <2>6, <2>7 DEF Ledger
<1> QED
  BY <1>4, <1>5, <1>6, LedgerPop DEF DrainNext

(* A panic loses the count of its drain: the ack stays behind.             *)
LEMMA LedgerPanic ==
  ASSUME IInv, Panic
  PROVE  Ledger'
<1>1. /\ Pushed \in Nat /\ last_ack \in Nat /\ Len(ring) \in Nat /\ panics \in Nat
      /\ processed_seq \in Nat /\ drain.resolved \in Nat
      /\ Occupied(parked) \in Nat /\ Occupied(drain.candidate) \in Nat
      /\ Occupied(NoCmd) = 0
  BY LenProperties, OccupiedCounts DEF IInv, TypeOK, Drain, Pushed
<1>2. /\ last_ack + drain.resolved + Unresolved <= Pushed
      /\ processed_seq = last_ack + drain.resolved + Occupied(drain.candidate)
  BY DEF IInv, Ledger, AckNeverAhead, AckReproducesProcessedSeq, Panic
<1>3. Unresolved = Len(ring) + Occupied(parked) + Occupied(drain.candidate)
  BY UnresolvedCounts
<1>4. /\ phase' = "poisoned" /\ drain' = IdleDrain /\ panics' = panics + 1
      /\ UNCHANGED <<ring, last_ack, processed_seq, parked>> /\ Pushed' = Pushed
  BY DEF Panic, Pushed, mainVars
<1>5. DrainShape' /\ ParkedShape' /\ BudgetShape' /\ AckReproducesProcessedSeq'
  BY <1>4, ChannelAssumption
     DEF DrainShape, ParkedShape, BudgetShape, AckReproducesProcessedSeq, Alive, IdleDrain
<1>6. /\ last_ack <= processed_seq
      /\ processed_seq + Occupied(parked) + Len(ring) <= Pushed
      /\ last_ack + 0 + (Len(ring) + Occupied(parked) + 0) <= Pushed
  <2> DEFINE ack == last_ack
             done == drain.resolved
             window == Occupied(drain.candidate)
             kept == Occupied(parked)
             queued == Len(ring)
             pushed == Pushed
             counted == processed_seq
  <2>1. /\ ack \in Nat /\ done \in Nat /\ window \in Nat /\ kept \in Nat
        /\ queued \in Nat /\ pushed \in Nat /\ counted \in Nat
        /\ ack + done + (queued + kept + window) <= pushed
        /\ counted = ack + done + window
    BY <1>1, <1>2, <1>3
  <2> HIDE DEF ack, done, window, kept, queued, pushed, counted
  <2>2. /\ ack <= counted
        /\ counted + kept + queued <= pushed
        /\ ack + 0 + (queued + kept + 0) <= pushed
    BY <2>1
  <2> QED
    BY <2>2 DEF ack, done, window, kept, queued, pushed, counted
<1>7. PoisonShape'
  BY <1>1, <1>4, <1>6 DEF PoisonShape
<1>8. AckNeverAhead' /\ AckGapless'
  <2>1. /\ Unresolved' = Len(ring) + Occupied(parked) + 0
        /\ drain'.resolved = 0 /\ panics' # 0
    BY <1>1, <1>4, UnresolvedCounts DEF IdleDrain
  <2> QED
    BY <1>4, <1>6, <2>1 DEF AckNeverAhead, AckGapless
<1> QED
  BY <1>5, <1>7, <1>8 DEF Ledger

(* The lifecycle: deactivate resolves the parked slot, a rollback the      *)
(* whole ring, a new consumer starts where the ack stands.                 *)
LEMMA LedgerLifecycle ==
  ASSUME IInv, LifecycleNext
  PROVE  Ledger'
<1> USE DEF mainVars, audioVars, faultVars
<1>1. /\ Pushed \in Nat /\ last_ack \in Nat /\ Len(ring) \in Nat
      /\ processed_seq \in Nat /\ drain.resolved \in Nat
      /\ Occupied(parked) \in Nat /\ Occupied(drain.candidate) \in Nat
      /\ Occupied(NoCmd) = 0 /\ (parked # NoCmd => Occupied(parked) = 1)
  BY LenProperties, OccupiedCounts DEF IInv, TypeOK, Drain, Pushed
<1>2. /\ last_ack + drain.resolved + Unresolved <= Pushed
      /\ panics = 0 => last_ack + drain.resolved + Unresolved = Pushed
  BY DEF IInv, Ledger, AckNeverAhead, AckGapless
<1>3. /\ Unresolved = Len(ring) + Occupied(parked) + Occupied(drain.candidate)
      /\ Unresolved' = Len(ring') + Occupied(parked') + Occupied(drain'.candidate)
  BY UnresolvedCounts
<1>4. /\ ~drain.on /\ drain.candidate = NoCmd /\ drain.resolved = 0
      /\ UNCHANGED <<drain, panics>> /\ Pushed' = Pushed
  <2>1. ~drain.on
    BY DEF IInv, Ledger, DrainShape, LifecycleNext, Deactivate, BeginActivate,
           FinishActivate, ActivateFails
  <2>2. UNCHANGED <<drain, panics>>
    BY DEF LifecycleNext, Deactivate, BeginActivate, FinishActivate, ActivateFails
  <2>3. UNCHANGED <<next_seq, bumping>>
    BY DEF LifecycleNext, Deactivate, BeginActivate, FinishActivate, ActivateFails
  <2> QED
    BY <2>1, <2>2, <2>3 DEF IInv, Ledger, DrainShape, Pushed
<1>5. /\ last_ack + 0 + (Len(ring) + Occupied(parked) + 0) <= Pushed
      /\ panics = 0 => last_ack + 0 + (Len(ring) + Occupied(parked) + 0) = Pushed
      /\ DrainShape' /\ BudgetShape'
  BY <1>1, <1>2, <1>3, <1>4 DEF IInv, Ledger, DrainShape, BudgetShape
<1>6. CASE Deactivate
  <2>1. phase' = "inactive" /\ parked' = NoCmd /\ UNCHANGED ring
    BY <1>6 DEF Deactivate
  <2>2. DrainShape' /\ ParkedShape' /\ PoisonShape' /\ AckReproducesProcessedSeq'
    BY <1>5, <2>1 DEF ParkedShape, PoisonShape, AckReproducesProcessedSeq, Alive
  <2>3. Unresolved' = Len(ring) /\ drain'.resolved = 0
    BY <1>1, <1>3, <1>4, <2>1
  <2>4. CASE parked = NoCmd
    <3>1. last_ack' = last_ack
      BY <1>6, <2>4 DEF Deactivate
    <3>2. /\ last_ack + 0 + Len(ring) <= Pushed
          /\ panics = 0 => last_ack + 0 + Len(ring) = Pushed
      BY <1>1, <1>5, <2>4
    <3> QED
      BY <1>4, <1>5, <2>2, <2>3, <3>1, <3>2 DEF Ledger, AckNeverAhead, AckGapless
  <2>5. CASE parked # NoCmd
    <3>1. last_ack' = processed_seq + 1 /\ Occupied(parked) = 1
      BY <1>1, <1>6, <2>5 DEF Deactivate, AdvanceResolved
    <3>2. CASE phase = "poisoned"
      <4>1. processed_seq + 1 + Len(ring) <= Pushed /\ panics # 0
        BY <1>1, <3>1, <3>2 DEF IInv, Ledger, PoisonShape, TypeOK
      <4>2. (processed_seq + 1) + 0 + Len(ring) <= Pushed
        BY <1>1, <4>1
      <4> QED
        BY <1>4, <1>5, <2>2, <2>3, <3>1, <4>1, <4>2 DEF Ledger, AckNeverAhead, AckGapless
    <3>3. CASE phase = "active"
      <4>1. processed_seq = last_ack
        BY <1>1, <1>4, <3>3 DEF IInv, Ledger, AckReproducesProcessedSeq, Alive
      <4>2. (last_ack + 1) + 0 + Len(ring) = last_ack + 0 + (Len(ring) + Occupied(parked) + 0)
        BY <1>1, <3>1
      <4> QED
        BY <1>4, <1>5, <2>2, <2>3, <3>1, <4>1, <4>2 DEF Ledger, AckNeverAhead, AckGapless
    <3> QED
      BY <1>6, <3>2, <3>3 DEF Deactivate
  <2> QED
    BY <2>4, <2>5
<1>7. CASE BeginActivate \/ FinishActivate
  <2>1. parked = NoCmd /\ UNCHANGED <<ring, last_ack, parked>>
    BY <1>7 DEF BeginActivate, FinishActivate, IInv, Ledger, ParkedShape
  <2>2. phase' # "poisoned" /\ (phase' = "active" => processed_seq' = last_ack)
        /\ phase' # "replaying"
    BY <1>7 DEF BeginActivate, FinishActivate, ConsumerSeed
  <2>3. DrainShape' /\ ParkedShape' /\ PoisonShape'
    BY <1>4, <1>5, <2>1, <2>2 DEF ParkedShape, PoisonShape
  <2>4. AckReproducesProcessedSeq'
    <3>1. last_ack + 0 + 0 = last_ack
      BY <1>1
    <3> QED
      BY <1>1, <1>4, <2>1, <2>2, <3>1 DEF AckReproducesProcessedSeq, Alive
  <2>5. AckNeverAhead' /\ AckGapless'
    BY <1>2, <1>3, <1>4, <2>1 DEF AckNeverAhead, AckGapless
  <2> QED
    BY <1>5, <2>3, <2>4, <2>5 DEF Ledger
<1>8. CASE ActivateFails
  <2>1. /\ ring' = <<>> /\ Len(ring') = 0 /\ last_ack' = last_ack + Len(ring)
        /\ parked = NoCmd /\ parked' = NoCmd /\ phase' = "inactive"
    BY <1>8, EmptySeq DEF ActivateFails, IInv, Ledger, ParkedShape
  <2>2. DrainShape' /\ ParkedShape' /\ PoisonShape' /\ AckReproducesProcessedSeq'
    BY <1>5, <2>1 DEF ParkedShape, PoisonShape, AckReproducesProcessedSeq, Alive
  <2>3. Unresolved' = 0 /\ drain'.resolved = 0
    BY <1>1, <1>3, <1>4, <2>1
  <2>4. (last_ack + Len(ring)) + 0 + 0 = last_ack + 0 + (Len(ring) + Occupied(parked) + 0)
    BY <1>1, <2>1
  <2> QED
    BY <1>4, <1>5, <2>1, <2>2, <2>3, <2>4 DEF Ledger, AckNeverAhead, AckGapless
<1> QED
  BY <1>6, <1>7, <1>8 DEF LifecycleNext

-----------------------------------------------------------------------------
(* The theorems.                                                           *)

LEMMA LedgerInit == Init => Ledger
<1> SUFFICES ASSUME Init PROVE Ledger
  OBVIOUS
<1>1. Occupied(NoCmd) = 0 /\ Len(ring) = 0
  BY OccupiedCounts, EmptySeq DEF Init
<1>2. Unresolved = 0 /\ Pushed = 0
  BY <1>1, UnresolvedCounts DEF Init, IdleDrain, Pushed
<1>3. DrainShape /\ ParkedShape /\ PoisonShape /\ BudgetShape
  BY ChannelAssumption
     DEF Init, DrainShape, ParkedShape, PoisonShape, BudgetShape, IdleDrain
<1>4. AckReproducesProcessedSeq /\ AckNeverAhead /\ AckGapless
  BY <1>2 DEF Init, AckReproducesProcessedSeq, AckNeverAhead, AckGapless, Alive, IdleDrain
<1> QED
  BY <1>3, <1>4 DEF Ledger

LEMMA LedgerStep == IInv /\ [Next]_vars => Ledger'
<1> SUFFICES ASSUME IInv, [Next]_vars PROVE Ledger'
  OBVIOUS
<1>1. CASE UNCHANGED vars
  BY <1>1 DEF IInv, Ledger, DrainShape, ParkedShape, PoisonShape, BudgetShape, Alive,
     AckReproducesProcessedSeq, AckNeverAhead, AckGapless, Unresolved, Pushed, Occupied,
     vars, mainVars, audioVars, faultVars
<1> QED
  BY <1>1, LedgerMain, LedgerDrain, LedgerPanic, LedgerLifecycle DEF Next

(* The ledger is inductive.                                                *)
THEOREM LedgerInvariant == Spec => []IInv
<1>1. Init => IInv
  BY TypeInit, LedgerInit DEF IInv
<1>2. IInv /\ [Next]_vars => IInv'
  BY TypeStep, LedgerStep DEF IInv
<1> QED
  BY <1>1, <1>2, PTL DEF Spec

(* The state keeps its types through every interleaving.                   *)
THEOREM TypesHold == Spec => []TypeOK
<1>1. IInv => TypeOK
  BY DEF IInv
<1> QED
  BY <1>1, LedgerInvariant, PTL

(* The counter published by after_drain, deactivate and a rollback never   *)
(* covers a command in the ring, in the window or in the parked slot.      *)
THEOREM AckIsNeverAhead == Spec => []AckNeverAhead
<1>1. IInv => AckNeverAhead
  BY DEF IInv, Ledger
<1> QED
  BY <1>1, LedgerInvariant, PTL

(* Without a panic no sequence number is skipped: what is not acknowledged *)
(* is still on its way.                                                    *)
THEOREM AckIsGapless == Spec => []AckGapless
<1>1. IInv => AckGapless
  BY DEF IInv, Ledger
<1> QED
  BY <1>1, LedgerInvariant, PTL

(* The ack counter and the consumer's own count agree at every point of    *)
(* the life of a processor, whatever parks, coalesces or is rolled back.   *)
THEOREM AckIsProcessedSeq == Spec => []AckReproducesProcessedSeq
<1>1. IInv => AckReproducesProcessedSeq
  BY DEF IInv, Ledger
<1> QED
  BY <1>1, LedgerInvariant, PTL

(* One callback applies at most SwapsPerCallback structural commands of    *)
(* the parked slot and of the window.                                      *)
THEOREM BudgetIsHeld == Spec => []BudgetHolds
<1>1. IInv => BudgetHolds
  BY ChannelAssumption DEF IInv, TypeOK, Drain, Ledger, BudgetShape, BudgetHolds
<1> QED
  BY <1>1, LedgerInvariant, PTL

(* The ack counter never goes back: only deactivate assigns it from the    *)
(* consumer's count, which a panic leaves at or above it.                  *)
THEOREM AckIsMonotone == Spec => AckMonotone
<1>1. IInv /\ [Next]_vars => last_ack' >= last_ack
  <2> SUFFICES ASSUME IInv, [Next]_vars PROVE last_ack' >= last_ack
    OBVIOUS
  <2> USE DEF mainVars, audioVars, histVars, faultVars
  <2>1. /\ last_ack \in Nat /\ processed_seq \in Nat /\ drain.resolved \in Nat
        /\ Occupied(drain.candidate) \in Nat /\ Len(ring) \in Nat
    BY LenProperties, OccupiedCounts DEF IInv, TypeOK, Drain
  <2>2. last_ack >= last_ack
    BY <2>1
  <2>3. CASE UNCHANGED vars
    BY <2>2, <2>3 DEF vars
  <2>4. CASE MainNext
    BY <2>2, <2>4, MainPushes DEF IInv
  <2>5. CASE DrainNext
    <3>1. CASE EndDrain \/ EndDrainParking
      BY <2>1, <3>1 DEF EndDrain, EndDrainParking, AckAfterDrain
    <3>2. CASE ~(EndDrain \/ EndDrainParking)
      BY <2>2, <2>5, <3>2 DEF DrainNext, ReplayRecovered, BeginDrain, PopLight, PopFirst,
         PopSuperseding, PopFlushing
    <3> QED
      BY <3>1, <3>2
  <2>6. CASE Panic
    BY <2>2, <2>6 DEF Panic
  <2>7. CASE Deactivate
    <3>1. CASE parked = NoCmd
      BY <2>2, <2>7, <3>1 DEF Deactivate
    <3>2. CASE parked # NoCmd
      <4>1. last_ack' = processed_seq + 1
        BY <2>7, <3>2 DEF Deactivate, AdvanceResolved
      <4>2. processed_seq >= last_ack
        BY <2>1, <2>7
           DEF Deactivate, IInv, Ledger, PoisonShape, AckReproducesProcessedSeq, Alive
      <4> QED
        BY <2>1, <4>1, <4>2
    <3> QED
      BY <3>1, <3>2
  <2>8. CASE BeginActivate \/ FinishActivate
    BY <2>2, <2>8 DEF BeginActivate, FinishActivate
  <2>9. CASE ActivateFails
    BY <2>1, <2>9 DEF ActivateFails
  <2> QED
    BY <2>3, <2>4, <2>5, <2>6, <2>7, <2>8, <2>9 DEF Next, LifecycleNext
<1>2. IInv /\ [Next]_vars => [last_ack' >= last_ack]_vars
  BY <1>1
<1> QED
  BY <1>2, LedgerInvariant, PTL DEF Spec, AckMonotone

-----------------------------------------------------------------------------
(* Where commands are: Conservation and LatestWins.                        *)

(* Command c is at place p (Places, one disjunct per field).               *)
Lives(p, c) ==
  \/ p = "ring" /\ c \in RangeOf(ring)
  \/ p = "parked" /\ c = parked /\ c # NoCmd
  \/ p = "held" /\ c = held /\ c # NoCmd
  \/ p = "candidate" /\ c = drain.candidate /\ c # NoCmd
  \/ p = "pending" /\ c = pending_model /\ c # NoCmd
  \/ p = "staged" /\ c \in RangeOf(staged) /\ c # NoCmd
  \/ p = "replay" /\ c \in RangeOf(replay) /\ c # NoCmd
  \/ p = "installed" /\ c \in installed
  \/ p = "superseded" /\ c \in superseded
  \/ p = "refused" /\ c \in refused
  \/ p = "lost" /\ c \in lost

(* A structural command is at one place, and once in a sequence.           *)
Apart ==
  \A p, q, c, d :
    Lives(p, c) /\ Lives(q, d) /\ IsStructural(c) /\ IsStructural(d) /\ c.id = d.id
      => p = q /\ c = d

Once(s) ==
  \A i, j \in 1..Len(s) :
    /\ s[i] # NoCmd /\ s[j] # NoCmd /\ IsStructural(s[i]) /\ IsStructural(s[j])
    /\ s[i].id = s[j].id
    => i = j

(* Nothing that was issued is gone; a retained snapshot counts.            *)
Somewhere(k) == \E p, c : Lives(p, c) /\ c.id = k
Covered ==
  \A k \in 1..issued : Somewhere(k) \/ (coalescing # NoCmd /\ coalescing.id = k)
Bounded == \A p, c : Lives(p, c) => c.id \in 1..issued

(* What each slot is for.                                                  *)
SlotKinds ==
  /\ coalescing # NoCmd => coalescing.kind = "Params" /\ coalescing.id \in 1..issued
  /\ in_flight # NoCmd => in_flight.kind = "Params" /\ in_flight.id \in 1..issued
  /\ held # NoCmd => IsStructural(held)
  /\ held # NoCmd /\ held.kind # "LoadModel" => held.id = issued
  /\ pending_model # NoCmd => pending_model.kind = "LoadModel"
  /\ parked # NoCmd => IsStructural(parked)
  /\ drain.candidate # NoCmd => IsStructural(drain.candidate)
  /\ phase \in {"inactive", "activating"} => replay = << >>

HInv ==
  /\ Apart /\ Once(ring) /\ Once(staged) /\ Once(replay)
  /\ Covered /\ Bounded /\ SlotKinds
CInv == IInv /\ HInv

-----------------------------------------------------------------------------
(* Lemmas about sequences of commands.                                     *)

(* A pop of a sequence: the head, the rest, and no command in both.        *)
LEMMA TailRange ==
  ASSUME NEW S, NEW s \in Seq(S), s # << >>
  PROVE  /\ Head(s) \in RangeOf(s) /\ RangeOf(Tail(s)) \subseteq RangeOf(s)
         /\ RangeOf(s) \subseteq RangeOf(Tail(s)) \cup {Head(s)}
<1>1. /\ Len(s) \in Nat /\ Len(s) >= 1 /\ Head(s) = s[1] /\ Len(Tail(s)) = Len(s) - 1
      /\ \A i \in 1..Len(s) - 1 : Tail(s)[i] = s[i + 1]
  OBVIOUS
<1>2. Head(s) \in RangeOf(s) /\ RangeOf(Tail(s)) \subseteq RangeOf(s) BY <1>1 DEF RangeOf
<1>3. ASSUME NEW i \in 1..Len(s), i # 1
      PROVE  s[i] \in RangeOf(Tail(s))
  <2>1. i - 1 \in 1..Len(Tail(s)) /\ Tail(s)[i - 1] = s[i] BY <1>1, <1>3
  <2> QED BY <2>1 DEF RangeOf
<1>4. RangeOf(s) \subseteq RangeOf(Tail(s)) \cup {Head(s)} BY <1>1, <1>3 DEF RangeOf
<1> QED BY <1>2, <1>4

(* A command that was once in a sequence is not in what follows it.        *)
LEMMA TailOnce ==
  ASSUME NEW S, NEW s \in Seq(S), s # << >>, Once(s)
  PROVE  /\ Once(Tail(s))
         /\ \A c \in RangeOf(Tail(s)) :
              /\ c # NoCmd /\ Head(s) # NoCmd /\ IsStructural(c) /\ IsStructural(Head(s))
              => c.id # Head(s).id
<1>1. /\ Len(s) \in Nat /\ Len(s) >= 1 /\ Head(s) = s[1] /\ Len(Tail(s)) = Len(s) - 1
      /\ \A i \in 1..Len(s) - 1 : Tail(s)[i] = s[i + 1]
  OBVIOUS
<1>2. ASSUME NEW i \in 1..Len(Tail(s)), NEW j \in 1..Len(Tail(s)),
             Tail(s)[i] # NoCmd, Tail(s)[j] # NoCmd,
             IsStructural(Tail(s)[i]), IsStructural(Tail(s)[j]), Tail(s)[i].id = Tail(s)[j].id
      PROVE  i = j
  <2>1. i + 1 \in 1..Len(s) /\ j + 1 \in 1..Len(s) /\ Tail(s)[i] = s[i + 1]
        /\ Tail(s)[j] = s[j + 1]
    BY <1>1
  <2>2. i + 1 = j + 1 BY <1>2, <2>1 DEF Once
  <2> QED BY <2>2
<1>3. ASSUME NEW i \in 1..Len(Tail(s)), Tail(s)[i] # NoCmd, Head(s) # NoCmd,
             IsStructural(Tail(s)[i]), IsStructural(Head(s))
      PROVE  Tail(s)[i].id # Head(s).id
  <2>1. i + 1 \in 1..Len(s) /\ 1 \in 1..Len(s) /\ Tail(s)[i] = s[i + 1] /\ i + 1 # 1 BY <1>1
  <2> QED BY <1>1, <1>3, <2>1 DEF Once
<1>4. Once(Tail(s)) BY <1>2 DEF Once
<1> QED BY <1>3, <1>4 DEF RangeOf

(* A push adds one command to a sequence.                                  *)
LEMMA AppendRange ==
  ASSUME NEW S, NEW s \in Seq(S), NEW e
  PROVE  RangeOf(Append(s, e)) = RangeOf(s) \cup {e}
<1>1. /\ Len(Append(s, e)) = Len(s) + 1 /\ Len(s) \in Nat
      /\ \A i \in 1..Len(s) + 1 : Append(s, e)[i] = IF i = Len(s) + 1 THEN e ELSE s[i]
  OBVIOUS
<1>2. \A i \in 1..Len(s) : i \in 1..Len(s) + 1 /\ Append(s, e)[i] = s[i] BY <1>1
<1>3. Len(s) + 1 \in 1..Len(s) + 1 /\ Append(s, e)[Len(s) + 1] = e BY <1>1
<1>4. RangeOf(s) \cup {e} \subseteq RangeOf(Append(s, e)) BY <1>1, <1>2, <1>3 DEF RangeOf
<1>5. RangeOf(Append(s, e)) \subseteq RangeOf(s) \cup {e} BY <1>1 DEF RangeOf
<1> QED BY <1>4, <1>5

(* A command that was nowhere in a sequence is once in it after a push.    *)
LEMMA AppendOnce ==
  ASSUME NEW S, NEW s \in Seq(S), NEW e, Once(s),
         IsStructural(e) =>
           \A c \in RangeOf(s) : c # NoCmd /\ IsStructural(c) => c.id # e.id
  PROVE  Once(Append(s, e))
<1>1. /\ Len(Append(s, e)) = Len(s) + 1 /\ Len(s) \in Nat
      /\ \A i \in 1..Len(s) + 1 : Append(s, e)[i] = IF i = Len(s) + 1 THEN e ELSE s[i]
  OBVIOUS
<1>2. \A i \in 1..Len(s) : s[i] \in RangeOf(s) BY DEF RangeOf
<1> QED BY <1>1, <1>2 DEF Once

(* A rollback: models leave empty slots, the rest goes in front.           *)
LEMMA RestageRange ==
  ASSUME NEW drained \in Seq(Command), NEW already \in Seq(Slot), NEW c, c # NoCmd
  PROVE  c \in RangeOf(Restage(drained, already)) <=>
           (c \in RangeOf(drained) /\ c.kind # "LoadModel") \/ c \in RangeOf(already)
<1> DEFINE first == [i \in 1..Len(drained) |->
                       IF drained[i].kind = "LoadModel" THEN NoCmd ELSE drained[i]]
           all == Restage(drained, already)
<1>1. first \in Seq(Slot) /\ Len(first) = Len(drained) /\ Len(drained) \in Nat
      /\ Len(already) \in Nat
  <2>1. Len(drained) \in Nat /\ \A i \in 1..Len(drained) : drained[i] \in Command OBVIOUS
  <2>2. \A i \in 1..Len(drained) : first[i] \in Slot BY <2>1 DEF Slot
  <2> QED BY <2>1, <2>2
<1>2. all = first \o already BY DEF Restage
<1>3. /\ Len(all) = Len(drained) + Len(already)
      /\ \A i \in 1..Len(all) :
           all[i] = IF i <= Len(drained) THEN first[i] ELSE already[i - Len(drained)]
  BY <1>1, <1>2
<1> HIDE DEF all
<1>4. ASSUME NEW i \in 1..Len(drained), c = drained[i], c.kind # "LoadModel"
      PROVE  c \in RangeOf(all)
  <2>1. i \in 1..Len(all) /\ all[i] = c BY <1>1, <1>3, <1>4
  <2> QED BY <2>1 DEF RangeOf
<1>5. ASSUME NEW i \in 1..Len(already), c = already[i]
      PROVE  c \in RangeOf(all)
  <2>1. i + Len(drained) \in 1..Len(all) /\ all[i + Len(drained)] = c BY <1>1, <1>3, <1>5
  <2> QED BY <2>1 DEF RangeOf
<1>6. ASSUME NEW i \in 1..Len(all), c = all[i]
      PROVE  (c \in RangeOf(drained) /\ c.kind # "LoadModel") \/ c \in RangeOf(already)
  <2>1. CASE i <= Len(drained) BY <1>1, <1>3, <1>6, <2>1 DEF RangeOf
  <2>2. CASE i > Len(drained)
    <3>1. i - Len(drained) \in 1..Len(already) /\ already[i - Len(drained)] = c
      BY <1>1, <1>3, <1>6, <2>2
    <3> QED BY <3>1 DEF RangeOf
  <2> QED BY <1>1, <1>3, <2>1, <2>2
<1> QED BY <1>4, <1>5, <1>6 DEF RangeOf, all

(* What a rollback drained and what was staged before it have no command   *)
(* in common, so that no command is recovered twice.                       *)
LEMMA RestageOnce ==
  ASSUME NEW drained \in Seq(Command), NEW already \in Seq(Slot),
         Once(drained), Once(already),
         \A c \in RangeOf(drained), d \in RangeOf(already) :
           d # NoCmd /\ IsStructural(c) /\ IsStructural(d) => c.id # d.id
  PROVE  Once(Restage(drained, already))
<1> DEFINE first == [i \in 1..Len(drained) |->
                       IF drained[i].kind = "LoadModel" THEN NoCmd ELSE drained[i]]
           all == Restage(drained, already)
<1>1. first \in Seq(Slot) /\ Len(first) = Len(drained) /\ Len(drained) \in Nat
      /\ Len(already) \in Nat
  <2>1. Len(drained) \in Nat /\ \A i \in 1..Len(drained) : drained[i] \in Command OBVIOUS
  <2>2. \A i \in 1..Len(drained) : first[i] \in Slot BY <2>1 DEF Slot
  <2> QED BY <2>1, <2>2
<1>2. all = first \o already BY DEF Restage
<1>3. /\ Len(all) = Len(drained) + Len(already)
      /\ \A i \in 1..Len(all) :
           all[i] = IF i <= Len(drained) THEN first[i] ELSE already[i - Len(drained)]
  BY <1>1, <1>2
<1>4. \A i \in 1..Len(drained) : drained[i] \in Command /\ drained[i] # NoCmd
  BY NoCmdAssumption
<1> HIDE DEF all
<1>5. SUFFICES ASSUME NEW i \in 1..Len(all), NEW j \in 1..Len(all),
                      all[i] # NoCmd, all[j] # NoCmd,
                      IsStructural(all[i]), IsStructural(all[j]), all[i].id = all[j].id
               PROVE  i = j
  BY DEF Once, all
<1>6. ASSUME NEW k \in 1..Len(all), all[k] # NoCmd
      PROVE  \/ k \in 1..Len(drained) /\ all[k] = drained[k]
             \/ k - Len(drained) \in 1..Len(already) /\ all[k] = already[k - Len(drained)]
                /\ k > Len(drained)
  BY <1>1, <1>3, <1>6
<1>7. CASE i \in 1..Len(drained) /\ all[i] = drained[i] /\ j \in 1..Len(drained)
           /\ all[j] = drained[j]
  BY <1>4, <1>5, <1>7 DEF Once
<1>8. CASE i > Len(drained) /\ j > Len(drained)
  <2>1. /\ i - Len(drained) \in 1..Len(already) /\ all[i] = already[i - Len(drained)]
        /\ j - Len(drained) \in 1..Len(already) /\ all[j] = already[j - Len(drained)]
    BY <1>1, <1>5, <1>6, <1>8
  <2>2. i - Len(drained) = j - Len(drained) BY <1>5, <2>1 DEF Once
  <2> QED BY <1>1, <2>2
<1>9. ASSUME NEW k \in 1..Len(drained), NEW l \in 1..Len(already),
             already[l] # NoCmd, IsStructural(drained[k]), IsStructural(already[l])
      PROVE  drained[k].id # already[l].id
  BY <1>9 DEF RangeOf
<1> QED BY <1>1, <1>5, <1>6, <1>7, <1>8, <1>9

(* What a step may do to commands: at most two of them change place.       *)
LEMMA NoMove ==
  ASSUME Apart, \A p, c : Lives(p, c)' /\ IsStructural(c) => Lives(p, c)
  PROVE  Apart'
BY DEF Apart

(* One command moves from s to d; the ring gives it its sequence number.   *)
LEMMA OneMove ==
  ASSUME Apart, NEW s, NEW x, NEW d, NEW y,
         Lives(s, x), IsStructural(x), y.id = x.id,
         \A p, c : Lives(p, c)' /\ IsStructural(c) =>
           (Lives(p, c) /\ ~(p = s /\ c = x)) \/ (p = d /\ c = y)
  PROVE  Apart'
BY DEF Apart

(* A command issued by a step is the newest.                               *)
LEMMA NewMove ==
  ASSUME Apart, Bounded, NEW s, NEW x, NEW d, NEW e, NEW y, issued \in Nat, y.id = issued + 1,
         \A p, c : Lives(p, c)' /\ IsStructural(c) =>
           Lives(p, c) \/ (p = e /\ c = y)
  PROVE  Apart'
<1>1. \A p, c : Lives(p, c) => c.id # y.id BY DEF Bounded
<1> QED BY <1>1 DEF Apart

(* What is somewhere stays somewhere, and a snapshot in the coalescing     *)
(* buffer stays there or goes somewhere: nothing is lost.                  *)
LEMMA Carried ==
  ASSUME Covered, Bounded, issued' = issued,
         \A p, c : Lives(p, c) => Somewhere(c.id)',
         \A k : coalescing # NoCmd /\ k = coalescing.id =>
           Somewhere(k)' \/ (coalescing' # NoCmd /\ coalescing'.id = k)
  PROVE  Covered'
<1>1. \A k : Somewhere(k) => Somewhere(k)' BY DEF Somewhere
<1>2. SUFFICES ASSUME NEW k \in 1..issued, ~Somewhere(k)'
               PROVE  coalescing' # NoCmd /\ coalescing'.id = k
  BY DEF Covered
<1>3. coalescing # NoCmd /\ coalescing.id = k BY <1>1, <1>2 DEF Covered
<1> QED BY <1>2, <1>3

(* The types of the fields the proofs below look at.                       *)
LEMMA Facts ==
  ASSUME CInv
  PROVE  /\ ring \in Seq(Command) /\ staged \in Seq(Slot) /\ replay \in Seq(Slot)
         /\ issued \in Nat /\ next_seq \in Nat /\ drain \in Drain
         /\ {held, parked, coalescing, in_flight, pending_model, drain.candidate} \subseteq Slot
         /\ installed \subseteq Command /\ superseded \subseteq Command
         /\ refused \subseteq Command /\ lost \subseteq Command
BY DEF CInv, IInv, TypeOK, Drain

(* next_seq moves; no command does.                                        *)
LEMMA BumpHomes ==
  ASSUME CInv, BumpSeq
  PROVE  HInv'
<1>1. UNCHANGED <<ring, parked, held, drain, pending_model, staged, replay, histVars,
                  issued, coalescing, in_flight, phase>>
  BY DEF BumpSeq, audioVars
<1>2. \A p, c : Lives(p, c)' <=> Lives(p, c) BY <1>1 DEF Lives, histVars
<1> QED
  BY <1>1, <1>2
  DEF CInv, HInv, Apart, Once, Covered, Somewhere, Bounded, SlotKinds, histVars

(* A push: the ring, before and after.                                     *)
LEMMA PushRange ==
  ASSUME TypeOK, NEW c \in Command, RingPush(c)
  PROVE  LET d == [c EXCEPT !.seq = next_seq + 1]
         IN  /\ d.id = c.id /\ d.kind = c.kind /\ d.seq = next_seq + 1 /\ d \in Command
             /\ ring' = Append(ring, d)
             /\ RangeOf(ring') = RangeOf(ring) \cup {d}
<1> DEFINE d == [c EXCEPT !.seq = next_seq + 1]
<1>1. d.id = c.id /\ d.kind = c.kind /\ d.seq = next_seq + 1 /\ d \in Command
  <2>1. next_seq + 1 \in Nat BY DEF TypeOK
  <2>2. d = [id |-> c.id, kind |-> c.kind, seq |-> next_seq + 1] BY DEF Command
  <2> QED BY <2>1, <2>2 DEF Command
<1>2. ring' = Append(ring, d) /\ ring \in Seq(Command) BY DEF RingPush, TypeOK
<1> HIDE DEF d
<1>3. RangeOf(ring') = RangeOf(ring) \cup {d} BY <1>2, AppendRange
<1> QED BY <1>1, <1>2, <1>3 DEF d

(* push_params and force_flush: the snapshot goes to the ring or stays in  *)
(* the buffer, and the one it overwrites gives way to it.                  *)
LEMMA DeliverHomes ==
  ASSUME CInv, NEW p \in Command, p.kind = "Params", p.id \in 1..issued', NEW r,
         r = NoCmd \/ (r = in_flight), held = NoCmd, issued' \in {issued, issued + 1},
         issued' = issued + 1 => p.id = issued',
         DeliverParams(p, r),
         UNCHANGED <<held, pending_model, staged, phase, parked, drain, replay, installed,
                     refused, lost>>
  PROVE  HInv'
<1>1. TypeOK BY DEF CInv, IInv
<1>2. superseded' = superseded \cup (SlotSet(coalescing) \ {p}) BY DEF DeliverParams
<1>3. coalescing # NoCmd => coalescing.kind = "Params" /\ coalescing.id \in 1..issued
  BY DEF CInv, HInv, SlotKinds
<1>4. \/ \E d \in Command :
            /\ d.id = p.id /\ d.kind = "Params" /\ ring' = Append(ring, d)
            /\ RangeOf(ring') = RangeOf(ring) \cup {d}
            /\ coalescing' = NoCmd /\ in_flight' = r
      \/ /\ ring' = ring /\ coalescing' = p /\ in_flight' = p
  <2>1. CASE RingPush(p) /\ coalescing' = NoCmd /\ in_flight' = r
    BY <1>1, <2>1, PushRange
  <2> QED BY <2>1 DEF DeliverParams
<1>5. UNCHANGED <<held, pending_model, staged, phase, parked, drain, replay, installed,
                  refused, lost>>
  OBVIOUS
<1>6. RangeOf(ring) \subseteq RangeOf(ring')
      /\ \A c \in RangeOf(ring') : c \in RangeOf(ring) \/ (c.id = p.id /\ c.kind = "Params")
  BY <1>4
<1>7. superseded \subseteq superseded'
      /\ \A c \in superseded' : c \in superseded \/ (coalescing # NoCmd /\ c = coalescing)
  BY <1>2 DEF SlotSet
<1>8. \A q, c : Lives(q, c)' /\ IsStructural(c) => Lives(q, c)
  BY <1>5, <1>3, <1>6, <1>7 DEF Lives, IsStructural
<1>9. \A q, c : Lives(q, c) => Lives(q, c)' BY <1>5, <1>6, <1>7 DEF Lives
<1>10. /\ \A c : coalescing # NoCmd /\ c = coalescing => Lives("superseded", c)' \/ c = p
       /\ p = coalescing' \/ \E d : Lives("ring", d)' /\ d.id = p.id
  <2>1. coalescing # NoCmd => coalescing \in superseded' \/ coalescing = p
    BY <1>2 DEF SlotSet
  <2>2. p = coalescing' \/ \E d \in RangeOf(ring') : d.id = p.id BY <1>4
  <2> QED BY <2>1, <2>2 DEF Lives
<1>11. p # NoCmd BY NoCmdAssumption
<1>12. Covered'
  <2>1. \A k : Somewhere(k) => Somewhere(k)' BY <1>9 DEF Somewhere
  <2>2. Somewhere(p.id)' \/ coalescing' = p BY <1>10 DEF Somewhere
  <2>3. \A c : coalescing # NoCmd /\ c = coalescing => Somewhere(c.id)' \/ c = p
    BY <1>10 DEF Somewhere
  <2>4. \A k \in 1..issued' : k \in 1..issued \/ k = p.id BY Facts
  <2>5. \A k \in 1..issued : Somewhere(k) \/ (coalescing # NoCmd /\ coalescing.id = k)
    BY DEF CInv, HInv, Covered
  <2>6. SUFFICES ASSUME NEW k \in 1..issued'
                 PROVE  Somewhere(k)' \/ (coalescing' # NoCmd /\ coalescing'.id = k)
    BY DEF Covered
  <2>7. CASE k = p.id BY <1>11, <2>2, <2>7
  <2>8. CASE k \in 1..issued /\ k # p.id BY <1>11, <2>1, <2>2, <2>3, <2>5, <2>8
  <2> QED BY <2>4, <2>7, <2>8
<1>13. Bounded'
  <2>1. 1..issued \subseteq 1..issued' BY Facts
  <2>2. \A q, c : Lives(q, c)' =>
          Lives(q, c) \/ c.id = p.id \/ (coalescing # NoCmd /\ c = coalescing)
    BY <1>5, <1>6, <1>7 DEF Lives
  <2> QED BY <1>3, <2>1, <2>2 DEF CInv, HInv, Bounded
<1>14. Apart' BY <1>8, NoMove DEF CInv, HInv
<1>15. Once(ring')
  <2>1. CASE ring' = ring BY <2>1 DEF CInv, HInv
  <2>2. ASSUME NEW d \in Command, d.kind = "Params", ring' = Append(ring, d)
        PROVE  Once(ring')
    <3>1. ~IsStructural(d) BY <2>2 DEF IsStructural
    <3> QED BY <2>2, <3>1, AppendOnce, Facts DEF CInv, HInv
  <2> QED BY <1>4, <2>1, <2>2
<1>16. SlotKinds'
  <2>1. 1..issued \subseteq 1..issued' BY Facts
  <2>2. (coalescing' = NoCmd \/ coalescing' = p)
        /\ (in_flight' = NoCmd \/ in_flight' = in_flight \/ in_flight' = p)
    BY <1>4
  <2>3. in_flight # NoCmd => in_flight.kind = "Params" /\ in_flight.id \in 1..issued
    BY DEF CInv, HInv, SlotKinds
  <2>4. /\ coalescing' # NoCmd => coalescing'.kind = "Params" /\ coalescing'.id \in 1..issued'
        /\ in_flight' # NoCmd => in_flight'.kind = "Params" /\ in_flight'.id \in 1..issued'
    BY <2>1, <2>2, <2>3
  <2> QED BY <1>5, <2>4 DEF CInv, HInv, SlotKinds
<1> QED BY <1>12, <1>13, <1>14, <1>15, <1>16 DEF CInv, HInv

(* What follows for the ids when every command keeps some home.            *)
LEMMA Kept ==
  ASSUME Bounded, issued' = issued,
         \A p, c : Lives(p, c)' => \E q, d : Lives(q, d) /\ d.id = c.id
  PROVE  Bounded'
BY DEF Bounded

(* A fresh snapshot, and the retry of one kept by an earlier flush.        *)
LEMMA FlushParamsHomes ==
  ASSUME CInv, FlushParams
  PROVE  HInv'
<1>1. NewCmd("Params") \in Command BY NewCmdType DEF AllKinds, CInv, IInv
<1>2. issued' = issued + 1 /\ issued \in Nat BY Facts DEF FlushParams
<1>3. SUFFICES ASSUME NEW p, p = NewCmd("Params"), NEW r, r = in_flight PROVE HInv'
  OBVIOUS
<1>4. p \in Command /\ p.kind = "Params" /\ p.id = issued' BY <1>1, <1>2, <1>3 DEF NewCmd
<1>5. DeliverParams(p, r) /\ held = NoCmd
      /\ UNCHANGED <<held, pending_model, staged, phase, parked, drain, replay, installed,
                     refused, lost>>
  BY <1>3 DEF FlushParams, audioVars, MainFree, MainIdle
<1> QED BY <1>2, <1>3, <1>4, <1>5, DeliverHomes

LEMMA FlushInFlightHomes ==
  ASSUME CInv, FlushInFlightParams
  PROVE  HInv'
<1>1. in_flight \in Command /\ in_flight.kind = "Params" /\ in_flight.id \in 1..issued
  BY Facts DEF FlushInFlightParams, Slot, CInv, HInv, SlotKinds
<1>2. issued' = issued /\ issued \in Nat BY Facts DEF FlushInFlightParams
<1>3. SUFFICES ASSUME NEW p, p = in_flight PROVE HInv'
  OBVIOUS
<1>4. p \in Command /\ p.kind = "Params" /\ p.id \in 1..issued' /\ ~(issued' = issued + 1)
  BY <1>1, <1>2, <1>3
<1>5. DeliverParams(p, NoCmd) /\ held = NoCmd
      /\ UNCHANGED <<held, pending_model, staged, phase, parked, drain, replay, installed,
                     refused, lost>>
  BY <1>3 DEF FlushInFlightParams, audioVars, MainFree, MainIdle
<1> QED BY <1>2, <1>4, <1>5, DeliverHomes

(* A command is issued: the newest, in the hands of try_push_command.      *)
LEMMA BeginPushHomes ==
  ASSUME CInv, NEW kind \in Kinds, BeginPush(kind)
  PROVE  HInv'
<1> DEFINE y == NewCmd(kind)
<1>1. /\ issued' = issued + 1 /\ issued \in Nat /\ held = NoCmd /\ held' = y
      /\ UNCHANGED <<ring, parked, drain, pending_model, staged, replay, installed, superseded,
                     refused, lost, coalescing, in_flight, phase>>
  BY Facts DEF BeginPush, audioVars, histVars, MainFree, MainIdle
<1>2. y \in Command /\ y.id = issued + 1 /\ IsStructural(y)
  BY NewCmdType, ChannelAssumption DEF CInv, IInv, NewCmd, BeginPush, IsStructural
<1> SUFFICES ASSUME NEW z, z = y PROVE HInv' OBVIOUS
<1> HIDE DEF y
<1>3. \A p, c : Lives(p, c)' <=> Lives(p, c) \/ (p = "held" /\ c = z)
  BY <1>1, <1>2, NoCmdAssumption DEF Lives
<1>4. Apart' BY <1>1, <1>2, <1>3, NewMove DEF CInv, HInv
<1>5. Bounded' BY <1>1, <1>2, <1>3 DEF Bounded, CInv, HInv
<1>6. Covered'
  <2>1. \A k : Somewhere(k) \/ k = z.id => Somewhere(k)' BY <1>3 DEF Somewhere
  <2>2. \A k \in 1..issued + 1 : k \in 1..issued \/ k = z.id BY <1>1, <1>2
  <2> QED BY <1>1, <2>1, <2>2 DEF Covered, CInv, HInv
<1>7. SlotKinds'
  <2>1. 1..issued \subseteq 1..issued' BY <1>1
  <2> QED BY <1>1, <1>2, <2>1 DEF SlotKinds, CInv, HInv
<1> QED BY <1>1, <1>4, <1>5, <1>6, <1>7 DEF CInv, HInv

(* A model is deferred, over the one that waited before it.                *)
LEMMA DeferHomes ==
  ASSUME CInv, DeferModel
  PROVE  HInv'
<1> DEFINE y == NewCmd("LoadModel")
<1>1. /\ issued' = issued + 1 /\ issued \in Nat /\ pending_model' = y /\ held = NoCmd
      /\ superseded' = superseded \cup SlotSet(pending_model)
      /\ UNCHANGED <<ring, parked, drain, held, staged, replay, installed,
                     refused, lost, coalescing, in_flight, phase>>
  BY Facts DEF DeferModel, audioVars, MainFree, MainIdle
<1>2. y \in Command /\ y.id = issued + 1 /\ IsStructural(y) /\ y.kind = "LoadModel"
  BY NewCmdType DEF CInv, IInv, NewCmd, AllKinds, IsStructural
<1> SUFFICES ASSUME NEW z, z = y, NEW x, x = pending_model PROVE HInv' OBVIOUS
<1> HIDE DEF y
<1>3. \A p, c : Lives(p, c)' <=>
        \/ Lives(p, c) /\ ~(p = "pending" /\ c = x)
        \/ p = "superseded" /\ c = x /\ x # NoCmd
        \/ p = "pending" /\ c = z
  BY <1>1, <1>2, NoCmdAssumption DEF Lives, SlotSet
<1>4. Apart'
  <2>1. CASE x = NoCmd BY <1>1, <1>2, <1>3, <2>1, NewMove DEF CInv, HInv
  <2>2. CASE x # NoCmd
    <3>1. Lives("pending", x) /\ IsStructural(x)
      BY <2>2 DEF Lives, IsStructural, CInv, HInv, SlotKinds
    <3>2. \A p, c : Lives(p, c)' /\ IsStructural(c) =>
            \/ Lives(p, c) /\ ~(p = "pending" /\ c = x)
            \/ p = "superseded" /\ c = x
            \/ p = "pending" /\ c = z
      BY <1>3
    <3>3. \A p, c : Lives(p, c) => c.id # z.id BY <1>1, <1>2 DEF Bounded, CInv, HInv
    <3> QED BY <3>1, <3>2, <3>3 DEF Apart, CInv, HInv
  <2> QED BY <2>1, <2>2
<1>5. \A p, c : Lives(p, c) => \E q : Lives(q, c)' BY <1>3 DEF Lives
<1>6. \A p, c : Lives(p, c)' => c = z \/ \E q : Lives(q, c) BY <1>3 DEF Lives
<1>7. Bounded'
  <2>1. 1..issued \subseteq 1..issued' /\ issued + 1 \in 1..issued' BY <1>1
  <2> QED BY <1>2, <1>6, <2>1 DEF Bounded, CInv, HInv
<1>8. Covered'
  <2>1. \A k : Somewhere(k) \/ k = z.id => Somewhere(k)' BY <1>3, <1>5 DEF Somewhere
  <2>2. \A k \in 1..issued + 1 : k \in 1..issued \/ k = z.id BY <1>1, <1>2
  <2> QED BY <1>1, <2>1, <2>2 DEF Covered, CInv, HInv
<1>9. SlotKinds'
  <2>1. 1..issued \subseteq 1..issued' BY <1>1
  <2> QED BY <1>1, <1>2, <2>1 DEF SlotKinds, CInv, HInv
<1> QED BY <1>1, <1>4, <1>7, <1>8, <1>9 DEF CInv, HInv

(* The deferred model goes from its slot to try_push_command.              *)
LEMMA FlushPendingHomes ==
  ASSUME CInv, FlushPendingModel \/ BeginActivate
  PROVE  HInv'
<1>1. /\ issued' = issued /\ pending_model' = NoCmd /\ held = NoCmd /\ held' = pending_model
      /\ phase' = "activating" => phase \in {"inactive", "activating"}
      /\ phase' = "inactive" => phase = "inactive"
      /\ UNCHANGED <<ring, parked, drain, staged, replay, installed, superseded,
                     refused, lost, coalescing, in_flight>>
  BY DEF FlushPendingModel, BeginActivate, audioVars, histVars, MainFree, MainIdle
<1> SUFFICES ASSUME NEW x, x = pending_model PROVE HInv' OBVIOUS
<1>2. \A p, c : Lives(p, c)' <=>
        \/ Lives(p, c) /\ ~(p = "pending" /\ c = x)
        \/ p = "held" /\ c = x /\ x # NoCmd
  BY <1>1 DEF Lives
<1>3. x # NoCmd => IsStructural(x) /\ x.kind = "LoadModel"
  BY DEF IsStructural, CInv, HInv, SlotKinds
<1>4. Apart'
  <2>1. CASE x = NoCmd BY <1>2, <2>1, NoMove DEF CInv, HInv
  <2>2. CASE x # NoCmd
    <3>1. Lives("pending", x) BY <2>2 DEF Lives
    <3> QED BY <1>2, <1>3, <2>2, <3>1, OneMove DEF CInv, HInv
  <2> QED BY <2>1, <2>2
<1>5. \A p, c : Lives(p, c) => \E q : Lives(q, c)' BY <1>2 DEF Lives
<1>6. \A p, c : Lives(p, c)' => \E q : Lives(q, c) BY <1>2 DEF Lives
<1>7. Bounded' BY <1>1, <1>6, Kept DEF CInv, HInv
<1>8. Covered' BY <1>1, <1>5, Carried DEF Somewhere, CInv, HInv
<1>9. SlotKinds' BY <1>1, <1>3 DEF SlotKinds, CInv, HInv
<1> QED BY <1>1, <1>4, <1>7, <1>8, <1>9 DEF CInv, HInv

(* try_push_command: the retained snapshot, the command, or Full.          *)
LEMMA ForceFlushHomes ==
  ASSUME CInv, ForceFlushFirst
  PROVE  HInv'
<1>1. /\ issued' = issued /\ coalescing # NoCmd /\ coalescing' = NoCmd /\ RingPush(coalescing)
      /\ UNCHANGED <<held, pending_model, parked, drain, staged, replay, installed, superseded,
                     refused, lost, in_flight, phase>>
  BY DEF ForceFlushFirst, audioVars, histVars
<1>2. coalescing \in Command /\ coalescing.kind = "Params" /\ TypeOK
  BY <1>1, Facts DEF CInv, IInv, HInv, SlotKinds, Slot
<1>3. PICK d \in Command : /\ d.id = coalescing.id /\ d.kind = "Params"
                           /\ ring' = Append(ring, d) /\ RangeOf(ring') = RangeOf(ring) \cup {d}
  BY <1>1, <1>2, PushRange
<1>4. \A p, c : Lives(p, c)' <=> Lives(p, c) \/ (p = "ring" /\ c = d)
  BY <1>1, <1>3 DEF Lives
<1>5. ~IsStructural(d) BY <1>3 DEF IsStructural
<1>6. Apart' BY <1>4, <1>5, NoMove DEF CInv, HInv
<1>7. Covered'
  <2>1. \A k : coalescing # NoCmd /\ k = coalescing.id => Somewhere(k)'
    BY <1>3, <1>4 DEF Somewhere
  <2>2. \A p, c : Lives(p, c) => Somewhere(c.id)' BY <1>4 DEF Somewhere
  <2> QED BY <1>1, <2>1, <2>2, Carried DEF CInv, HInv
<1>8. Bounded'
  <2>1. d.id \in 1..issued BY <1>1, <1>3 DEF CInv, HInv, SlotKinds
  <2> QED BY <1>1, <1>4, <2>1 DEF Bounded, CInv, HInv
<1>9. Once(ring') BY <1>3, <1>5, AppendOnce, Facts DEF CInv, HInv
<1>10. SlotKinds' BY <1>1 DEF SlotKinds, CInv, HInv
<1> QED BY <1>1, <1>6, <1>7, <1>8, <1>9, <1>10 DEF CInv, HInv

LEMMA PushHeldHomes ==
  ASSUME CInv, PushHeld
  PROVE  HInv'
<1>1. /\ issued' = issued /\ held # NoCmd /\ held' = NoCmd /\ RingPush(held)
      /\ UNCHANGED <<coalescing, pending_model, parked, drain, staged, replay, installed,
                     superseded, refused, lost, in_flight, phase>>
  BY DEF PushHeld, audioVars, histVars
<1>2. held \in Command /\ IsStructural(held) /\ TypeOK
  BY <1>1, Facts DEF CInv, IInv, HInv, SlotKinds, Slot
<1> SUFFICES ASSUME NEW x, x = held PROVE HInv' OBVIOUS
<1>3. PICK d \in Command : /\ d.id = held.id /\ d.kind = held.kind
                           /\ ring' = Append(ring, d) /\ RangeOf(ring') = RangeOf(ring) \cup {d}
  BY <1>1, <1>2, PushRange
<1>4. \A p, c : Lives(p, c)' <=>
        (Lives(p, c) /\ ~(p = "held" /\ c = x)) \/ (p = "ring" /\ c = d)
  BY <1>1, <1>3 DEF Lives
<1>5. Lives("held", x) BY <1>1 DEF Lives
<1>6. Apart' BY <1>2, <1>3, <1>4, <1>5, OneMove DEF CInv, HInv
<1>7. Covered'
  <2>1. \A p, c : Lives(p, c) => Somewhere(c.id)' BY <1>3, <1>4 DEF Somewhere
  <2> QED BY <1>1, <2>1, Carried DEF CInv, HInv
<1>8. Bounded' BY <1>1, <1>3, <1>4, <1>5, Kept DEF CInv, HInv
<1>9. Once(ring')
  <2>1. \A c \in RangeOf(ring) : Lives("ring", c) BY DEF Lives
  <2>2. \A c \in RangeOf(ring) : IsStructural(c) => c.id # d.id
    BY <1>2, <1>3, <1>5, <2>1 DEF CInv, HInv, Apart
  <2> QED BY <1>3, <2>2, AppendOnce, Facts DEF CInv, HInv
<1>10. SlotKinds' BY <1>1 DEF SlotKinds, CInv, HInv
<1> QED BY <1>1, <1>6, <1>7, <1>8, <1>9, <1>10 DEF CInv, HInv

LEMMA PushFullHomes ==
  ASSUME CInv, PushFull
  PROVE  HInv'
<1>1. /\ issued' = issued /\ held # NoCmd /\ held' = NoCmd
      /\ UNCHANGED <<ring, coalescing, parked, drain, staged, replay, installed, lost,
                     in_flight, phase>>
  BY DEF PushFull, audioVars
<1>2. IsStructural(held) BY <1>1 DEF CInv, HInv, SlotKinds
<1> SUFFICES ASSUME NEW x, x = held, NEW u, u = pending_model PROVE HInv' OBVIOUS
<1>3. Lives("held", x) BY <1>1 DEF Lives
<1>4. CASE held.kind = "LoadModel"
  <2>1. /\ pending_model' = x /\ superseded' = superseded \cup SlotSet(u)
        /\ refused' = refused
    BY <1>4 DEF PushFull
  <2>2. \A p, c : Lives(p, c)' <=>
          \/ Lives(p, c) /\ ~(p = "held" /\ c = x) /\ ~(p = "pending" /\ c = u)
          \/ p = "pending" /\ c = x
          \/ p = "superseded" /\ c = u /\ u # NoCmd
    BY <1>1, <2>1 DEF Lives, SlotSet
  <2>3. Apart'
    <3>1. CASE u = NoCmd BY <1>2, <1>3, <2>2, <3>1, OneMove DEF CInv, HInv
    <3>2. CASE u # NoCmd
      <4>1. Lives("pending", u) /\ IsStructural(u)
        BY <3>2 DEF Lives, IsStructural, CInv, HInv, SlotKinds
      <4>2. \A p, c : Lives(p, c)' /\ IsStructural(c) =>
              \/ Lives(p, c) /\ ~(p = "held" /\ c = x) /\ ~(p = "pending" /\ c = u)
              \/ p = "pending" /\ c = x
              \/ p = "superseded" /\ c = u
        BY <2>2
      <4> QED BY <1>2, <1>3, <4>1, <4>2 DEF Apart, CInv, HInv
    <3> QED BY <3>1, <3>2
  <2>4. \A p, c : Lives(p, c) => \E q : Lives(q, c)' BY <2>2 DEF Lives
  <2>5. \A p, c : Lives(p, c)' => \E q : Lives(q, c) BY <1>3, <2>2 DEF Lives
  <2>6. Bounded' BY <1>1, <2>5, Kept DEF CInv, HInv
  <2>7. Covered' BY <1>1, <2>4, Carried DEF Somewhere, CInv, HInv
  <2>8. SlotKinds' BY <1>1, <1>4, <2>1 DEF SlotKinds, CInv, HInv
  <2> QED BY <1>1, <2>3, <2>6, <2>7, <2>8 DEF CInv, HInv
<1>5. CASE held.kind # "LoadModel"
  <2>1. /\ pending_model' = pending_model /\ superseded' = superseded
        /\ refused' = refused \cup {x}
    BY <1>5 DEF PushFull
  <2>2. \A p, c : Lives(p, c)' <=>
          (Lives(p, c) /\ ~(p = "held" /\ c = x)) \/ (p = "refused" /\ c = x)
    BY <1>1, <2>1 DEF Lives
  <2>3. Apart' BY <1>2, <1>3, <2>2, OneMove DEF CInv, HInv
  <2>4. \A p, c : Lives(p, c) => \E q : Lives(q, c)' BY <2>2
  <2>5. \A p, c : Lives(p, c)' => \E q : Lives(q, c) BY <1>3, <2>2
  <2>6. Bounded' BY <1>1, <2>5, Kept DEF CInv, HInv
  <2>7. Covered' BY <1>1, <2>4, Carried DEF Somewhere, CInv, HInv
  <2>8. SlotKinds' BY <1>1, <2>1 DEF SlotKinds, CInv, HInv
  <2> QED BY <1>1, <2>3, <2>6, <2>7, <2>8 DEF CInv, HInv
<1> QED BY <1>4, <1>5

(* One recovered command is installed.                                     *)
LEMMA ReplayHomes ==
  ASSUME CInv, ReplayRecovered
  PROVE  HInv'
<1>1. /\ issued' = issued /\ replay # << >> /\ replay' = Tail(replay)
      /\ phase' \in {"active", "replaying"}
      /\ UNCHANGED <<ring, coalescing, held, pending_model, parked, drain, staged, superseded,
                     refused, lost, in_flight>>
  BY DEF ReplayRecovered, mainVars
<1> SUFFICES ASSUME NEW x, x = Head(replay) PROVE HInv' OBVIOUS
<1>2. installed' = installed \cup SlotSet(x)
  BY DEF ReplayRecovered, Install, SlotSet
<1>3. /\ x \in RangeOf(replay) /\ RangeOf(replay') \subseteq RangeOf(replay)
      /\ RangeOf(replay) \subseteq RangeOf(replay') \cup {x}
  BY <1>1, Facts, TailRange
<1>4. /\ Once(replay')
      /\ \A c \in RangeOf(replay') :
           c # NoCmd /\ x # NoCmd /\ IsStructural(c) /\ IsStructural(x) => c # x
  BY <1>1, Facts, TailOnce DEF CInv, HInv
<1>5. \A p, c : Lives(p, c)' =>
        Lives(p, c) \/ (p = "installed" /\ c = x /\ Lives("replay", x))
  BY <1>1, <1>2, <1>3 DEF Lives, SlotSet
<1>6. \A p, c : Lives(p, c)' /\ IsStructural(c) =>
        \/ Lives(p, c) /\ ~(p = "replay" /\ c = x)
        \/ p = "installed" /\ c = x /\ Lives("replay", x)
  BY <1>1, <1>4, <1>5 DEF Lives
<1>7. Apart' BY <1>6 DEF Apart, CInv, HInv
<1>8. \A p, c : Lives(p, c) => \E q : Lives(q, c)'
  <2>1. SUFFICES ASSUME NEW p, NEW c, Lives(p, c), ~Lives(p, c)' PROVE Lives("installed", c)'
    OBVIOUS
  <2> QED BY <1>1, <1>2, <1>3, <2>1 DEF Lives, SlotSet
<1>9. Bounded' BY <1>1, <1>5, Kept DEF CInv, HInv
<1>10. Covered' BY <1>1, <1>8, Carried DEF Somewhere, CInv, HInv
<1>11. SlotKinds' BY <1>1 DEF SlotKinds, CInv, HInv
<1> QED BY <1>1, <1>4, <1>7, <1>9, <1>10, <1>11 DEF CInv, HInv

(* Phase 0: the parked command is installed or gives way.                  *)
LEMMA BeginDrainHomes ==
  ASSUME CInv, BeginDrain
  PROVE  HInv'
<1>1. /\ issued' = issued /\ parked' = NoCmd /\ drain'.candidate = NoCmd
      /\ phase' = phase /\ phase = "active"
      /\ UNCHANGED <<ring, coalescing, held, pending_model, staged, replay,
                     refused, lost, in_flight>>
  BY DEF BeginDrain, mainVars
<1>2. drain.candidate = NoCmd BY DEF BeginDrain, CInv, IInv, Ledger, DrainShape
<1> SUFFICES ASSUME NEW x, x = parked PROVE HInv' OBVIOUS
<1>3. \/ installed' = installed /\ superseded' = superseded \cup SlotSet(x)
      \/ installed' = installed \cup SlotSet(x) /\ superseded' = superseded
  BY DEF BeginDrain, Install, SlotSet
<1>4. PICK g \in {"installed", "superseded"} :
        \A p, c : Lives(p, c)' <=>
          \/ Lives(p, c) /\ ~(p = "parked" /\ c = x)
          \/ p = g /\ c = x /\ x # NoCmd
  <2>1. CASE installed' = installed /\ superseded' = superseded \cup SlotSet(x)
    <3>1. \A p, c : Lives(p, c)' <=>
            \/ Lives(p, c) /\ ~(p = "parked" /\ c = x)
            \/ p = "superseded" /\ c = x /\ x # NoCmd
      BY <1>1, <1>2, <2>1 DEF Lives, SlotSet
    <3> QED BY <3>1
  <2>2. CASE installed' = installed \cup SlotSet(x) /\ superseded' = superseded
    <3>1. \A p, c : Lives(p, c)' <=>
            \/ Lives(p, c) /\ ~(p = "parked" /\ c = x)
            \/ p = "installed" /\ c = x /\ x # NoCmd
      BY <1>1, <1>2, <2>2 DEF Lives, SlotSet
    <3> QED BY <3>1
  <2> QED BY <1>3, <2>1, <2>2
<1>5. x # NoCmd => Lives("parked", x) BY DEF Lives
<1>6. Apart' BY <1>4, <1>5 DEF Apart, CInv, HInv
<1>7. \A p, c : Lives(p, c) => \E q : Lives(q, c)' BY <1>4 DEF Lives
<1>8. \A p, c : Lives(p, c)' => \E q : Lives(q, c) BY <1>4, <1>5
<1>9. Bounded' BY <1>1, <1>8, Kept DEF CInv, HInv
<1>10. Covered' BY <1>1, <1>7, Carried DEF Somewhere, CInv, HInv
<1>11. SlotKinds' BY <1>1 DEF SlotKinds, CInv, HInv
<1> QED BY <1>1, <1>6, <1>9, <1>10, <1>11 DEF CInv, HInv

(* A pop: the head leaves the ring, the rest stays there.                  *)
LEMMA PopRange ==
  ASSUME CInv, PopHead
  PROVE  /\ Lives("ring", Head(ring)) /\ Head(ring) \in Command /\ Head(ring) # NoCmd
         /\ \A c : c \in RangeOf(ring) <=> c \in RangeOf(ring') \/ c = Head(ring)
         /\ \A c \in RangeOf(ring') : IsStructural(c) /\ IsStructural(Head(ring)) =>
              c # Head(ring)
         /\ Once(ring')
         /\ ring # << >> /\ drain.on /\ phase = "active" /\ parked = NoCmd
<1>1. ring \in Seq(Command) /\ ring # << >> /\ ring' = Tail(ring) /\ drain.on
  BY Facts DEF PopHead, CanPop
<1>2. Head(ring) \in RangeOf(ring) /\ RangeOf(ring') \subseteq RangeOf(ring)
      /\ RangeOf(ring) \subseteq RangeOf(ring') \cup {Head(ring)}
  BY <1>1, TailRange
<1>3. Head(ring) \in Command /\ RangeOf(ring) \subseteq Command BY <1>1, <1>2, RangeType
<1>4. \A c \in RangeOf(ring) : c # NoCmd BY <1>3, NoCmdAssumption
<1>5. /\ Once(ring')
      /\ \A c \in RangeOf(ring') : c # NoCmd /\ Head(ring) # NoCmd /\ IsStructural(c)
           /\ IsStructural(Head(ring)) => c.id # Head(ring).id
  BY <1>1, TailOnce DEF CInv, HInv
<1>6. phase = "active" /\ parked = NoCmd BY <1>1 DEF CInv, IInv, Ledger, DrainShape
<1>7. \A c \in RangeOf(ring') : IsStructural(c) /\ IsStructural(Head(ring)) => c # Head(ring)
  BY <1>2, <1>4, <1>5
<1> QED BY <1>1, <1>2, <1>3, <1>4, <1>5, <1>6, <1>7 DEF Lives

(* The pops of the window.                                                 *)
LEMMA PopLightHomes ==
  ASSUME CInv, PopLight
  PROVE  HInv'
<1> SUFFICES ASSUME NEW x, x = Head(ring) PROVE HInv' OBVIOUS
<1>1. /\ issued' = issued /\ drain'.candidate = drain.candidate /\ PopHead
      /\ installed' = installed \cup {x} /\ ~IsStructural(x)
      /\ UNCHANGED <<phase, parked, coalescing, held, pending_model, staged, replay,
                     superseded, refused, lost, in_flight>>
  BY Facts DEF PopLight, mainVars, Install, Drain
<1>2. /\ Lives("ring", x) /\ x # NoCmd
      /\ \A c : c \in RangeOf(ring) <=> c \in RangeOf(ring') \/ c = x
      /\ Once(ring') /\ phase = "active"
  BY <1>1, PopRange
<1>3. \A p, c : Lives(p, c)' => Lives(p, c) \/ (p = "installed" /\ c = x)
  BY <1>1, <1>2 DEF Lives
<1>4. \A p, c : Lives(p, c) => Lives(p, c)' \/ Lives("installed", c)'
  <2>1. \A c : Lives("ring", c) => Lives("ring", c)' \/ Lives("installed", c)'
    BY <1>1, <1>2 DEF Lives
  <2>2. \A p, c : p # "ring" /\ Lives(p, c) => Lives(p, c)' BY <1>1 DEF Lives
  <2> QED BY <2>1, <2>2
<1>5. Apart' BY <1>1, <1>3, NoMove DEF CInv, HInv
<1>6. Bounded' BY <1>1, <1>2, <1>3, Kept DEF CInv, HInv
<1>7. Covered' BY <1>1, <1>4, Carried DEF Somewhere, CInv, HInv
<1>8. SlotKinds' BY <1>1, <1>2 DEF SlotKinds, CInv, HInv
<1> QED BY <1>1, <1>2, <1>5, <1>6, <1>7, <1>8 DEF CInv, HInv

(* The head of the ring becomes the candidate; the old one, if any, goes   *)
(* to the commands applied or to the ones given up.                        *)
LEMMA NewCandidate ==
  ASSUME CInv, PopHead, IsStructural(Head(ring)), issued' = issued,
         drain'.candidate = Head(ring),
         UNCHANGED <<phase, parked, coalescing, held, pending_model, staged, replay, refused,
                     lost, in_flight>>,
         \/ /\ installed' = installed \cup SlotSet(drain.candidate)
            /\ superseded' = superseded
         \/ /\ superseded' = superseded \cup SlotSet(drain.candidate)
            /\ installed' = installed
  PROVE  HInv'
<1> SUFFICES ASSUME NEW x, x = Head(ring), NEW u, u = drain.candidate PROVE HInv' OBVIOUS
<1>1. /\ issued' = issued /\ drain'.candidate = x /\ IsStructural(x)
      /\ UNCHANGED <<phase, parked, coalescing, held, pending_model, staged, replay, refused,
                     lost, in_flight>>
  OBVIOUS
<1>2. /\ Lives("ring", x) /\ x # NoCmd
      /\ \A c : c \in RangeOf(ring) <=> c \in RangeOf(ring') \/ c = x
      /\ \A c \in RangeOf(ring') : IsStructural(c) => c # x
      /\ Once(ring') /\ phase = "active"
  BY <1>1, PopRange
<1>3. u # NoCmd => Lives("candidate", u) /\ IsStructural(u)
  BY DEF Lives, CInv, HInv, SlotKinds
<1>4. PICK g \in {"installed", "superseded"} :
        \A p, c : p \notin {"ring", "candidate"} =>
          (Lives(p, c)' <=> Lives(p, c) \/ (p = g /\ c = u /\ u # NoCmd))
  <2>1. CASE /\ installed' = installed \cup SlotSet(u)
             /\ superseded' = superseded
    <3>1. \A p, c : p \notin {"ring", "candidate"} =>
            (Lives(p, c)' <=> Lives(p, c) \/ (p = "installed" /\ c = u /\ u # NoCmd))
      BY <1>1, <2>1 DEF Lives, SlotSet
    <3> QED BY <3>1
  <2>2. CASE /\ superseded' = superseded \cup SlotSet(u)
             /\ installed' = installed
    <3>1. \A p, c : p \notin {"ring", "candidate"} =>
            (Lives(p, c)' <=> Lives(p, c) \/ (p = "superseded" /\ c = u /\ u # NoCmd))
      BY <1>1, <2>2 DEF Lives, SlotSet
    <3> QED BY <3>1
  <2> QED BY <2>1, <2>2
<1>5. /\ \A c : Lives("candidate", c)' <=> c = x
      /\ \A c : Lives("candidate", c) <=> c = u /\ u # NoCmd
      /\ \A c : Lives("ring", c)' => Lives("ring", c) /\ (IsStructural(c) => c # x)
      /\ \A c : Lives("ring", c) => Lives("ring", c)' \/ c = x
  BY <1>1, <1>2 DEF Lives
<1>6. \A p, c : Lives(p, c)' /\ IsStructural(c) =>
        \/ Lives(p, c) /\ ~(p = "ring" /\ c = x) /\ ~(p = "candidate" /\ c = u)
        \/ p = "candidate" /\ c = x
        \/ p = g /\ c = u /\ u # NoCmd
  <2>1. SUFFICES ASSUME NEW p, NEW c, Lives(p, c)', IsStructural(c)
                 PROVE  \/ Lives(p, c) /\ ~(p = "ring" /\ c = x) /\ ~(p = "candidate" /\ c = u)
                        \/ p = "candidate" /\ c = x
                        \/ p = g /\ c = u /\ u # NoCmd
    OBVIOUS
  <2>2. CASE p = "ring" BY <1>5, <2>1, <2>2
  <2>3. CASE p = "candidate" BY <1>5, <2>1, <2>3
  <2>4. CASE p \notin {"ring", "candidate"} BY <1>4, <2>1, <2>4
  <2> QED BY <2>2, <2>3, <2>4
<1>7. Apart' BY <1>1, <1>2, <1>3, <1>6 DEF Apart, CInv, HInv
<1>8. \A p, c : Lives(p, c)' => \E q : Lives(q, c) BY <1>2, <1>3, <1>4, <1>5
<1>9. \A p, c : Lives(p, c) => \E q : Lives(q, c)'
  <2>1. \A c : Lives("candidate", c) => Lives(g, c)'
    <3>1. g \notin {"ring", "candidate"} OBVIOUS
    <3> QED BY <1>4, <1>5, <3>1
  <2> QED BY <1>4, <1>5, <2>1
<1>10. Bounded' BY <1>1, <1>8, Kept DEF CInv, HInv
<1>11. Covered' BY <1>1, <1>9, Carried DEF Somewhere, CInv, HInv
<1>12. SlotKinds' BY <1>1, <1>2 DEF SlotKinds, CInv, HInv
<1> QED BY <1>1, <1>2, <1>7, <1>10, <1>11, <1>12 DEF CInv, HInv

LEMMA PopHomes ==
  ASSUME CInv, PopFirst \/ PopSuperseding \/ PopFlushing
  PROVE  HInv'
<1>1. PopHead /\ issued' = issued
      /\ UNCHANGED <<phase, parked, coalescing, held, pending_model, staged, replay, refused,
                     lost, in_flight>>
  BY DEF PopFirst, PopSuperseding, PopFlushing, mainVars, histVars
<1>2. drain'.candidate = Head(ring)
  BY Facts DEF PopFirst, PopSuperseding, PopFlushing, Drain
<1>3. IsStructural(Head(ring))
  BY DEF PopFirst, PopSuperseding, PopFlushing, Supersedes, IsCoalescible, IsStructural
<1>4. \/ /\ installed' = installed \cup SlotSet(drain.candidate)
         /\ superseded' = superseded
      \/ /\ superseded' = superseded \cup SlotSet(drain.candidate)
         /\ installed' = installed
  BY DEF PopFirst, PopSuperseding, PopFlushing, Install, SlotSet, histVars
<1> QED BY <1>1, <1>2, <1>3, <1>4, NewCandidate

(* The window closes: the candidate is installed or parks.                 *)
LEMMA EndDrainHomes ==
  ASSUME CInv, EndDrain \/ EndDrainParking
  PROVE  HInv'
<1> SUFFICES ASSUME NEW x, x = drain.candidate PROVE HInv' OBVIOUS
<1>1. /\ issued' = issued /\ drain'.candidate = NoCmd /\ drain.on
      /\ UNCHANGED <<ring, phase, coalescing, held, pending_model, staged, replay, superseded,
                     refused, lost, in_flight>>
  BY DEF EndDrain, EndDrainParking, IdleDrain, mainVars, histVars
<1>2. phase = "active" /\ parked = NoCmd BY <1>1 DEF CInv, IInv, Ledger, DrainShape
<1>3. \/ installed' = installed \cup SlotSet(x) /\ parked' = NoCmd
      \/ installed' = installed /\ parked' = x
  BY <1>2 DEF EndDrain, EndDrainParking, Install, SlotSet, histVars
<1>4. x # NoCmd => Lives("candidate", x) /\ IsStructural(x)
  BY DEF Lives, CInv, HInv, SlotKinds
<1>5. PICK g \in {"installed", "parked"} :
        \A p, c : Lives(p, c)' <=>
          \/ Lives(p, c) /\ ~(p = "candidate" /\ c = x)
          \/ p = g /\ c = x /\ x # NoCmd
  <2>1. CASE installed' = installed \cup SlotSet(x) /\ parked' = NoCmd
    <3>1. \A p, c : Lives(p, c)' <=>
            \/ Lives(p, c) /\ ~(p = "candidate" /\ c = x)
            \/ p = "installed" /\ c = x /\ x # NoCmd
      BY <1>1, <1>2, <2>1 DEF Lives, SlotSet
    <3> QED BY <3>1
  <2>2. CASE installed' = installed /\ parked' = x
    <3>1. \A p, c : Lives(p, c)' <=>
            \/ Lives(p, c) /\ ~(p = "candidate" /\ c = x)
            \/ p = "parked" /\ c = x /\ x # NoCmd
      BY <1>1, <1>2, <2>2 DEF Lives, SlotSet
    <3> QED BY <3>1
  <2> QED BY <1>3, <2>1, <2>2
<1>6. Apart' BY <1>4, <1>5 DEF Apart, CInv, HInv
<1>7. \A p, c : Lives(p, c) => \E q : Lives(q, c)' BY <1>5 DEF Lives
<1>8. \A p, c : Lives(p, c)' => \E q : Lives(q, c) BY <1>4, <1>5
<1>9. Bounded' BY <1>1, <1>8, Kept DEF CInv, HInv
<1>10. Covered' BY <1>1, <1>7, Carried DEF Somewhere, CInv, HInv
<1>11. SlotKinds' BY <1>1, <1>2, <1>3, <1>4 DEF SlotKinds, CInv, HInv
<1> QED BY <1>1, <1>6, <1>9, <1>10, <1>11 DEF CInv, HInv

(* The places P are emptied into the place e.                              *)
LEMMA Emptied ==
  ASSUME Apart, NEW P, NEW e,
         \A p, c : Lives(p, c)' =>
           \/ p = e /\ \E q \in P : Lives(q, c)
           \/ p \notin P /\ Lives(p, c)
  PROVE  Apart'
BY DEF Apart

(* What a panic unwinds is lost, once.                                     *)
LEMMA PanicHomes ==
  ASSUME CInv, Panic
  PROVE  HInv'
<1> DEFINE P == IF phase = "replaying" THEN {"candidate", "replay"} ELSE {"candidate"}
<1>1. /\ issued' = issued /\ drain'.candidate = NoCmd /\ phase' = "poisoned"
      /\ replay' = IF phase = "replaying" THEN << >> ELSE replay
      /\ UNCHANGED <<ring, parked, coalescing, held, pending_model, staged, installed,
                     superseded, refused, in_flight>>
  BY DEF Panic, mainVars, IdleDrain
<1>2. \A c : c \in lost' <=>
        \/ c \in lost
        \/ c # NoCmd /\ (c = drain.candidate \/ (phase = "replaying" /\ c \in RangeOf(replay)))
  BY DEF Panic
<1>3. \A c : c \notin RangeOf(<< >>) BY DEF RangeOf
<1>4. \A p, c : Lives(p, c)' =>
        \/ p = "lost" /\ \E q \in P : Lives(q, c)
        \/ p \notin P /\ Lives(p, c)
  <2>1. \A c : Lives("lost", c)' => Lives("lost", c) \/ \E q \in P : Lives(q, c)
    <3>1. \A c : Lives("lost", c)' =>
            \/ Lives("lost", c) \/ Lives("candidate", c)
            \/ phase = "replaying" /\ Lives("replay", c)
      BY <1>2 DEF Lives
    <3> QED BY <3>1
  <2>2. \A p, c : p # "lost" /\ Lives(p, c)' => p \notin P /\ Lives(p, c)
    BY <1>1, <1>3 DEF Lives
  <2>3. "lost" \notin P OBVIOUS
  <2> QED BY <2>1, <2>2, <2>3
<1>5. \A p, c : Lives(p, c) => \E q : Lives(q, c)'
  <2>1. SUFFICES ASSUME NEW p, NEW c, Lives(p, c), ~Lives(p, c)' PROVE Lives("lost", c)'
    OBVIOUS
  <2> QED BY <1>1, <1>2, <2>1 DEF Lives
<1>6. Apart'
  <2> HIDE DEF P
  <2> QED BY <1>4, Emptied DEF CInv, HInv
<1>7. \A p, c : Lives(p, c)' => \E q : Lives(q, c) BY <1>4
<1>8. Bounded' BY <1>1, <1>7, Kept DEF CInv, HInv
<1>9. Covered' BY <1>1, <1>5, Carried DEF Somewhere, CInv, HInv
<1>10. SlotKinds' BY <1>1 DEF SlotKinds, CInv, HInv
<1>11. Once(replay')
  <2>1. Once(<< >>) BY DEF Once
  <2> QED BY <1>1, <2>1 DEF CInv, HInv
<1> QED BY <1>1, <1>6, <1>8, <1>9, <1>10, <1>11 DEF CInv, HInv

(* What the processor held goes with it.                                   *)
LEMMA DeactivateHomes ==
  ASSUME CInv, Deactivate
  PROVE  HInv'
<1>1. /\ issued' = issued /\ drain' = drain /\ parked' = NoCmd /\ replay' = << >>
      /\ UNCHANGED <<ring, coalescing, held, pending_model, staged, installed,
                     superseded, refused, in_flight>>
  BY DEF Deactivate, mainVars
<1>2. \A c : c \in lost' <=>
        c \in lost \/ (c # NoCmd /\ (c = parked \/ c \in RangeOf(replay)))
  BY DEF Deactivate
<1>3. \A c : c \notin RangeOf(<< >>) BY DEF RangeOf
<1>4. \A p, c : Lives(p, c)' =>
        \/ p = "lost" /\ \E q \in {"parked", "replay"} : Lives(q, c)
        \/ p \notin {"parked", "replay"} /\ Lives(p, c)
  <2>1. \A c : Lives("lost", c)' => Lives("lost", c) \/ Lives("parked", c) \/ Lives("replay", c)
    BY <1>2 DEF Lives
  <2>2. \A p, c : p # "lost" /\ Lives(p, c)' => p \notin {"parked", "replay"} /\ Lives(p, c)
    BY <1>1, <1>3 DEF Lives
  <2> QED BY <2>1, <2>2
<1>5. \A p, c : Lives(p, c) => \E q : Lives(q, c)'
  <2>1. SUFFICES ASSUME NEW p, NEW c, Lives(p, c), ~Lives(p, c)' PROVE Lives("lost", c)'
    OBVIOUS
  <2> QED BY <1>1, <1>2, <2>1 DEF Lives
<1>6. Apart' BY <1>4, Emptied DEF CInv, HInv
<1>7. \A p, c : Lives(p, c)' => \E q : Lives(q, c) BY <1>4
<1>8. Bounded' BY <1>1, <1>7, Kept DEF CInv, HInv
<1>9. Covered' BY <1>1, <1>5, Carried DEF Somewhere, CInv, HInv
<1>10. SlotKinds' BY <1>1 DEF SlotKinds, CInv, HInv
<1>11. Once(replay')
  <2>1. Once(<< >>) BY DEF Once
  <2> QED BY <1>1, <2>1
<1> QED BY <1>1, <1>6, <1>8, <1>9, <1>10, <1>11 DEF CInv, HInv

(* The recovered commands move into the new processor.                     *)
LEMMA FinishHomes ==
  ASSUME CInv, FinishActivate
  PROVE  HInv'
<1>1. /\ issued' = issued /\ staged' = << >> /\ replay' = staged /\ replay = << >>
      /\ phase' = "active"
      /\ UNCHANGED <<ring, parked, coalescing, held, pending_model, drain, installed,
                     superseded, refused, lost, in_flight>>
  BY DEF FinishActivate, mainVars, histVars, CInv, HInv, SlotKinds
<1>2. \A c : c \notin RangeOf(<< >>) BY DEF RangeOf
<1>3. \A p, c : Lives(p, c)' =>
        \/ p = "replay" /\ \E q \in {"staged"} : Lives(q, c)
        \/ p \notin {"staged"} /\ Lives(p, c)
  BY <1>1, <1>2 DEF Lives
<1>4. \A p, c : Lives(p, c) => \E q : Lives(q, c)'
  <2>1. SUFFICES ASSUME NEW p, NEW c, Lives(p, c), ~Lives(p, c)' PROVE Lives("replay", c)'
    OBVIOUS
  <2> QED BY <1>1, <1>2, <2>1 DEF Lives
<1>5. Apart' BY <1>3, Emptied DEF CInv, HInv
<1>6. \A p, c : Lives(p, c)' => \E q : Lives(q, c) BY <1>3
<1>7. Bounded' BY <1>1, <1>6, Kept DEF CInv, HInv
<1>8. Covered' BY <1>1, <1>4, Carried DEF Somewhere, CInv, HInv
<1>9. SlotKinds' BY <1>1 DEF SlotKinds, CInv, HInv
<1>10. Once(staged') /\ Once(replay')
  <2>1. Once(<< >>) BY DEF Once
  <2> QED BY <1>1, <2>1 DEF CInv, HInv
<1> QED BY <1>1, <1>5, <1>7, <1>8, <1>9, <1>10 DEF CInv, HInv

(* The models a failed activation finds: one is kept, the others give way. *)
LEMMA KeepShape ==
  ASSUME NEW models, NoCmd \notin models, KeepNewest(models)
  PROVE  /\ pending_model' # NoCmd => pending_model' \in models
         /\ \A c \in models : c = pending_model' \/ c \in superseded'
         /\ superseded \subseteq superseded'
         /\ \A c \in superseded' : c \in superseded \/ (c \in models /\ c # pending_model')
<1>1. CASE models = {} /\ pending_model' = NoCmd /\ UNCHANGED superseded BY <1>1
<1>2. CASE \E m \in models : /\ pending_model' = m
                             /\ superseded' = superseded \cup (models \ {m})
  BY <1>2
<1> QED BY <1>1, <1>2 DEF KeepNewest

(* A failed activation: the models of the ring to pending_model or to the  *)
(* GC, the rest of the ring in front of the recovered commands.            *)
LEMMA FailHomes ==
  ASSUME CInv, ActivateFails
  PROVE  HInv'
<1> DEFINE models == {c \in RangeOf(ring) : c.kind = "LoadModel"} \cup SlotSet(pending_model)
<1>1. /\ issued' = issued /\ ring' = << >> /\ staged' = Restage(ring, staged)
      /\ phase = "inactive"
      /\ UNCHANGED <<parked, coalescing, held, replay, drain, installed, phase,
                     refused, lost, in_flight>>
  BY DEF ActivateFails, audioVars
<1>2. /\ pending_model' # NoCmd => pending_model' \in models
      /\ \A c \in models : c = pending_model' \/ c \in superseded'
      /\ superseded \subseteq superseded'
      /\ \A c \in superseded' : c \in superseded \/ (c \in models /\ c # pending_model')
  <2>1. RangeOf(ring) \subseteq Command BY Facts, RangeType
  <2>2. NoCmd \notin models BY <2>1, NoCmdAssumption DEF SlotSet
  <2>3. KeepNewest(models) BY DEF ActivateFails
  <2> HIDE DEF models
  <2> QED BY <2>2, <2>3, KeepShape
<1>3. \A c : c \in models <=>
        \/ Lives("ring", c) /\ c.kind = "LoadModel"
        \/ Lives("pending", c)
  BY DEF Lives, SlotSet
<1>4. \A c : Lives("pending", c) => c.kind = "LoadModel" BY DEF Lives, CInv, HInv, SlotKinds
<1> HIDE DEF models
<1>5. \A c : Lives("staged", c)' <=>
        (Lives("ring", c) /\ c # NoCmd /\ c.kind # "LoadModel") \/ Lives("staged", c)
  <2>1. \A c : c # NoCmd => (c \in RangeOf(staged') <=>
          (c \in RangeOf(ring) /\ c.kind # "LoadModel") \/ c \in RangeOf(staged))
    BY <1>1, Facts, RestageRange
  <2> QED BY <2>1 DEF Lives
<1>6. /\ \A c : ~Lives("ring", c)'
      /\ \A c : Lives("pending", c)' => c \in models /\ c \notin superseded' \ superseded
      /\ \A c : Lives("superseded", c)' =>
           Lives("superseded", c) \/ (c \in models /\ ~Lives("pending", c)')
      /\ \A p, c : p \notin {"ring", "pending", "superseded", "staged"} =>
           (Lives(p, c)' <=> Lives(p, c))
  <2>1. \A c : c \notin RangeOf(<< >>) BY DEF RangeOf
  <2> QED BY <1>1, <1>2, <2>1 DEF Lives
<1>7. \A p, c : Lives(p, c)' => \E q : Lives(q, c) BY <1>3, <1>5, <1>6
<1>8. ASSUME NEW p, NEW q, NEW c, Lives(p, c)', Lives(q, c)', IsStructural(c)
      PROVE  p = q
  <2>1. \A r, s : Lives(r, c) /\ Lives(s, c) => r = s BY <1>8 DEF CInv, HInv, Apart
  <2>2. ASSUME NEW r, Lives(r, c)'
        PROVE  \/ r = "staged" /\ Lives("ring", c) /\ c.kind # "LoadModel"
               \/ r = "pending" /\ c \in models
               \/ r = "superseded" /\ c \in models /\ ~Lives("pending", c)'
               \/ r \notin {"ring", "pending"} /\ Lives(r, c)
    BY <1>5, <1>6, <2>2
  <2> QED BY <1>3, <1>4, <1>8, <2>1, <2>2
<1>9. Apart' BY <1>7, <1>8 DEF Apart, CInv, HInv
<1>10. \A p, c : Lives(p, c) => \E q : Lives(q, c)'
  <2>1. \A c : c \in models => Lives("pending", c)' \/ Lives("superseded", c)'
    <3>1. \A c \in models : c # NoCmd
      <4>1. RangeOf(ring) \subseteq Command BY Facts, RangeType
      <4> QED BY <1>3, <4>1, NoCmdAssumption DEF Lives
    <3> QED BY <1>2, <3>1 DEF Lives
  <2>2. \A c : Lives("ring", c) => c # NoCmd
    <3>1. RangeOf(ring) \subseteq Command BY Facts, RangeType
    <3> QED BY <3>1, NoCmdAssumption DEF Lives
  <2>3. \A c : Lives("superseded", c) => Lives("superseded", c)' BY <1>2 DEF Lives
  <2> QED BY <1>3, <1>5, <1>6, <2>1, <2>2, <2>3
<1>11. Bounded' BY <1>1, <1>7, Kept DEF CInv, HInv
<1>12. Covered' BY <1>1, <1>10, Carried DEF Somewhere, CInv, HInv
<1>13. SlotKinds'
  <2>1. pending_model' # NoCmd => pending_model'.kind = "LoadModel" BY <1>2, <1>3, <1>4
  <2> QED BY <1>1, <2>1 DEF SlotKinds, CInv, HInv
<1>14. Once(ring') /\ Once(staged')
  <2>1. Once(<< >>) BY DEF Once
  <2>2. \A c \in RangeOf(ring), d \in RangeOf(staged) :
          d # NoCmd /\ IsStructural(c) /\ IsStructural(d) => c.id # d.id
    <3>1. \A c \in RangeOf(ring) : Lives("ring", c) BY DEF Lives
    <3>2. \A d \in RangeOf(staged) : d # NoCmd => Lives("staged", d) BY DEF Lives
    <3> QED BY <3>1, <3>2 DEF CInv, HInv, Apart
  <2>3. Once(staged') BY <1>1, <2>2, Facts, RestageOnce DEF CInv, HInv
  <2> QED BY <1>1, <2>1, <2>3
<1> QED BY <1>1, <1>9, <1>11, <1>12, <1>13, <1>14 DEF CInv, HInv

(* The places of the commands, as an inductive invariant.                  *)
LEMMA HomesInit == Init => HInv
<1> SUFFICES ASSUME Init PROVE HInv OBVIOUS
<1>1. \A c : c \notin RangeOf(<< >>) BY DEF RangeOf
<1>2. \A p, c : ~Lives(p, c) BY <1>1 DEF Init, Lives, IdleDrain
<1>3. Once(<< >>) BY DEF Once
<1> QED BY <1>2, <1>3 DEF HInv, Apart, Covered, Bounded, SlotKinds, Init, IdleDrain

LEMMA HomesStep == CInv /\ [Next]_vars => HInv'
<1> SUFFICES ASSUME CInv, [Next]_vars PROVE HInv' OBVIOUS
<1>1. CASE MainNext
  BY <1>1, BumpHomes, FlushParamsHomes, FlushInFlightHomes, BeginPushHomes, DeferHomes,
     FlushPendingHomes, ForceFlushHomes, PushHeldHomes, PushFullHomes DEF MainNext
<1>2. CASE DrainNext
  BY <1>2, ReplayHomes, BeginDrainHomes, PopLightHomes, PopHomes, EndDrainHomes
  DEF DrainNext
<1>3. CASE Panic BY <1>3, PanicHomes
<1>4. CASE LifecycleNext
  BY <1>4, DeactivateHomes, FlushPendingHomes, FinishHomes, FailHomes DEF LifecycleNext
<1>5. CASE UNCHANGED vars
  <2>1. UNCHANGED <<ring, parked, held, drain, pending_model, staged, replay, histVars,
                    issued, coalescing, in_flight, phase>>
    BY <1>5 DEF vars, audioVars, mainVars
  <2>2. \A p, c : Lives(p, c)' <=> Lives(p, c) BY <2>1 DEF Lives, histVars
  <2> QED
    BY <2>1, <2>2
    DEF CInv, HInv, Apart, Once, Covered, Somewhere, Bounded, SlotKinds, histVars
<1> QED BY <1>1, <1>2, <1>3, <1>4, <1>5 DEF Next

(* Every structural command is at one place and every command issued is    *)
(* somewhere, through every interleaving, panic and failed activation.     *)
THEOREM HomesInvariant == Spec => []CInv
<1>1. Init => CInv BY TypeInit, LedgerInit, HomesInit DEF CInv, IInv
<1>2. CInv /\ [Next]_vars => CInv' BY TypeStep, LedgerStep, HomesStep DEF CInv, IInv
<1> QED BY <1>1, <1>2, PTL DEF Spec

-----------------------------------------------------------------------------
(* Places and Lives say the same.                                          *)
LEMMA PlacesAreHomes ==
  /\ \A p \in DOMAIN Places : \A c : c \in Places[p] <=> Lives(p, c)
  /\ \A p, c : Lives(p, c) => p \in DOMAIN Places
<1>1. DOMAIN Places = {"ring", "parked", "held", "candidate", "pending", "staged", "replay",
                       "installed", "superseded", "refused", "lost"}
  BY DEF Places
<1>2. \A p, c : Lives(p, c) => p \in DOMAIN Places BY <1>1 DEF Lives
<1>3. ASSUME NEW p \in DOMAIN Places, NEW c
      PROVE  c \in Places[p] <=> Lives(p, c)
  <2>1. CASE p = "ring" BY <2>1 DEF Places, Lives
  <2>2. CASE p = "parked" BY <2>2 DEF Places, Lives, SlotSet
  <2>3. CASE p = "held" BY <2>3 DEF Places, Lives, SlotSet
  <2>4. CASE p = "candidate" BY <2>4 DEF Places, Lives, SlotSet
  <2>5. CASE p = "pending" BY <2>5 DEF Places, Lives, SlotSet
  <2>6. CASE p = "staged" BY <2>6 DEF Places, Lives
  <2>7. CASE p = "replay" BY <2>7 DEF Places, Lives
  <2>8. CASE p = "installed" BY <2>8 DEF Places, Lives
  <2>9. CASE p = "superseded" BY <2>9 DEF Places, Lives
  <2>10. CASE p = "refused" BY <2>10 DEF Places, Lives
  <2>11. CASE p = "lost" BY <2>11 DEF Places, Lives
  <2> QED BY <1>1, <2>1, <2>2, <2>3, <2>4, <2>5, <2>6, <2>7, <2>8, <2>9, <2>10, <2>11
<1> QED BY <1>2, <1>3

(* No two structural commands at two places share an id: the homes are as  *)
(* many as the ids.                                                        *)
LEMMA HomesCount == CInv => Conservation
<1> SUFFICES ASSUME CInv PROVE Conservation OBVIOUS
<1> DEFINE at == UNION {{<<p, c>> : c \in Places[p]} : p \in DOMAIN Places}
           homes == {x \in at : IsStructural(x[2])}
           ids == {x[2].id : x \in homes}
           moving == SlotSet(coalescing) \cup SlotSet(in_flight)
<1>1. \A x : x \in at <=> \E p, c : x = <<p, c>> /\ Lives(p, c)
  <2>1. ASSUME NEW x, x \in at PROVE \E p, c : x = <<p, c>> /\ Lives(p, c)
    <3>1. PICK p \in DOMAIN Places : x \in {<<p, c>> : c \in Places[p]} BY <2>1
    <3>2. PICK c \in Places[p] : x = <<p, c>> BY <3>1
    <3> QED BY <3>2, PlacesAreHomes
  <2>2. ASSUME NEW p, NEW c, Lives(p, c) PROVE <<p, c>> \in at
    <3>1. p \in DOMAIN Places /\ c \in Places[p] BY <2>2, PlacesAreHomes
    <3>2. <<p, c>> \in {<<p, d>> : d \in Places[p]} BY <3>1
    <3> QED BY <3>1, <3>2
  <2> QED BY <2>1, <2>2
<1> HIDE DEF at
<1>2. \A x, y \in homes : x[2].id = y[2].id => x = y
  BY <1>1 DEF CInv, HInv, Apart
<1>3. \A x \in homes : x[2].id \in 1..issued
  BY <1>1 DEF CInv, HInv, Bounded
<1>4. IsFiniteSet(ids)
  <2>1. ids \subseteq 1..issued BY <1>3
  <2>2. IsFiniteSet(1..issued) BY Facts, FS_Interval
  <2> QED BY <2>1, <2>2, FS_Subset
<1>5. Cardinality(homes) = Cardinality(ids)
  <2> DEFINE f == [x \in homes |-> x[2].id]
  <2>1. f \in [homes -> ids] OBVIOUS
  <2>2. \A x, y \in homes : f[x] = f[y] => x = y BY <1>2
  <2>3. \A k \in ids : \E x \in homes : f[x] = k OBVIOUS
  <2> HIDE DEF f, homes, ids
  <2>4. f \in Injection(homes, ids) BY <2>1, <2>2 DEF Injection, IsInjective
  <2>5. f \in Surjection(homes, ids) BY <2>1, <2>3 DEF Surjection
  <2> QED BY <1>4, <2>4, <2>5, FS_Injection
<1>6. 1..issued \subseteq {x[2].id : x \in at} \cup {c.id : c \in moving}
  <2>1. SUFFICES ASSUME NEW k \in 1..issued, ~(coalescing # NoCmd /\ coalescing.id = k)
                 PROVE  k \in {x[2].id : x \in at}
    BY DEF SlotSet
  <2>2. PICK p, c : Lives(p, c) /\ c.id = k
    BY <2>1 DEF CInv, HInv, Covered, Somewhere
  <2>3. <<p, c>> \in at /\ <<p, c>>[2].id = k BY <1>1, <2>2
  <2> QED BY <2>3
<1> QED BY <1>5, <1>6 DEF Conservation, at

(* Conservation: no command is freed twice and none leaks, whatever the    *)
(* ring, the parked slot, a rollback or a panic does to it.                *)
THEOREM NothingIsLostOrDoubled == Spec => []Conservation
BY HomesInvariant, HomesCount, PTL

-----------------------------------------------------------------------------
(* What comes after a discarded command.                                   *)

(* The commands that are not reordered among those of their kind, in the   *)
(* order of their ids; a model is pushed again after a wait.               *)
Swaps == {"LoadCabIr", "SetOversample"}

Front == SlotSet(parked) \cup SlotSet(drain.candidate)

(* Command c came into the ring before d.                                  *)
InOrder(c, d) ==
  /\ c.seq < d.seq
  /\ c.kind \in Swaps /\ d.kind = c.kind => c.id < d.id

OrderedRing == \A i, j \in 1..Len(ring) : i < j => InOrder(ring[i], ring[j])
OrderedFront == \A c \in Front : \A d \in RangeOf(ring) : InOrder(c, d)

(* No command carries a number that was not given out.                     *)
Numbered == \A p, c : Lives(p, c) => c.seq <= Pushed

(* A snapshot in the coalescing buffer is the one kept for the retry, so   *)
(* that the retry never overwrites a newer one there.                      *)
Buffered ==
  /\ coalescing # NoCmd => coalescing = in_flight
  /\ in_flight # NoCmd => in_flight.seq = 0

(* Command d at place p is past the push, or kept until it is.             *)
PastPush == {"ring", "parked", "candidate", "staged", "replay", "installed", "lost"}
Waits == {"held", "pending"}
Comes(p, d) ==
  \/ p \in PastPush /\ Lives(p, d)
  \/ p \in Waits /\ Lives(p, d) /\ d.kind = "LoadModel"
  \/ p = "coalescing" /\ d = coalescing /\ d # NoCmd

After(p, d, c) ==
  IF c.kind = "LoadModel" THEN d.seq > c.seq \/ p \in Waits ELSE d.id > c.id

Outdone ==
  \A c \in superseded :
    /\ c.kind # "RestoreTxn"
    /\ \E p, d : Comes(p, d) /\ d.kind = c.kind /\ After(p, d, c)

OInv == OrderedRing /\ OrderedFront /\ Numbered /\ Buffered /\ Outdone

(* What is anywhere is a command.                                          *)
LEMMA LivesType ==
  ASSUME CInv
  PROVE  /\ \A p, c : Lives(p, c) => c \in Command
         /\ \A p, d : Comes(p, d) => d \in Command
<1>1. /\ RangeOf(ring) \subseteq Command /\ RangeOf(staged) \subseteq Slot
      /\ RangeOf(replay) \subseteq Slot
  BY Facts, RangeType
<1>2. \A p, c : Lives(p, c) => c \in Command BY <1>1, Facts DEF Lives, Slot
<1>3. coalescing # NoCmd => coalescing \in Command BY Facts DEF Slot
<1> QED BY <1>2, <1>3 DEF Comes

(* Command e at place q comes, after a step, no earlier than d at p.       *)
Successor(q, e, p, d) ==
  /\ e.kind = d.kind
  /\ IF d.kind = "LoadModel"
       THEN q \in Waits \/ e.seq > Pushed \/ (p \notin Waits /\ e.seq >= d.seq)
       ELSE e.id >= d.id

(* A discarded command stays outdone when what outdid it moves on.         *)
LEMMA StillOutdone ==
  ASSUME CInv, OInv,
         \A p, d : Comes(p, d) /\ d.kind # "RestoreTxn" =>
           \E q, e : Comes(q, e)' /\ e \in Command /\ Successor(q, e, p, d),
         \A c \in superseded' :
           \/ c \in superseded
           \/ /\ c.kind # "RestoreTxn"
              /\ \E q, e : Comes(q, e)' /\ e.kind = c.kind /\ After(q, e, c)
  PROVE  Outdone'
<1>1. SUFFICES ASSUME NEW c \in superseded
               PROVE  /\ c.kind # "RestoreTxn"
                      /\ \E q, e : Comes(q, e)' /\ e.kind = c.kind /\ After(q, e, c)
  BY DEF Outdone, After
<1>2. c.kind # "RestoreTxn" BY DEF OInv, Outdone
<1>3. PICK p, d : Comes(p, d) /\ d.kind = c.kind /\ After(p, d, c) BY DEF OInv, Outdone
<1>4. PICK q, e : Comes(q, e)' /\ e \in Command /\ Successor(q, e, p, d) BY <1>2, <1>3
<1>5. c \in Command /\ d \in Command /\ e \in Command BY <1>3, <1>4, LivesType, Facts
<1>6. /\ c.id \in Nat /\ c.seq \in Nat /\ d.id \in Nat /\ d.seq \in Nat
      /\ e.id \in Nat /\ e.seq \in Nat
  BY <1>5 DEF Command
<1>7. c.seq <= Pushed /\ Pushed \in Nat
  <2>1. Lives("superseded", c) BY DEF Lives
  <2>2. next_seq \in Nat BY Facts
  <2> QED BY <2>1, <2>2 DEF OInv, Numbered, Pushed
<1>8. After(q, e, c)
  <2>1. CASE c.kind = "LoadModel"
    <3>1. q \in Waits \/ e.seq > Pushed \/ (p \notin Waits /\ e.seq >= d.seq)
      BY <1>3, <1>4, <2>1 DEF Successor
    <3>2. d.seq > c.seq \/ p \in Waits BY <1>3, <2>1 DEF After
    <3>3. q \in Waits \/ e.seq > c.seq BY <1>6, <1>7, <3>1, <3>2
    <3> QED BY <2>1, <3>3 DEF After
  <2>2. CASE c.kind # "LoadModel"
    <3>1. e.id >= d.id /\ d.id > c.id BY <1>3, <1>4, <2>2 DEF After, Successor
    <3> QED BY <1>6, <2>2, <3>1 DEF After
  <2> QED BY <2>1, <2>2
<1>9. e.kind = c.kind BY <1>3, <1>4 DEF Successor
<1> QED BY <1>2, <1>4, <1>8, <1>9

(* A step that discards nothing.                                           *)
LEMMA OnwardKept ==
  ASSUME CInv, OInv, superseded' = superseded,
         \A p, d : Comes(p, d) => \E q : Comes(q, d)' /\ (q \in Waits \/ p \notin Waits)
  PROVE  Outdone'
<1>1. SUFFICES ASSUME NEW p, NEW d, Comes(p, d)
               PROVE  \E q, e : Comes(q, e)' /\ e \in Command /\ Successor(q, e, p, d)
  BY StillOutdone
<1>2. PICK q : Comes(q, d)' /\ (q \in Waits \/ p \notin Waits) BY <1>1
<1>3. d \in Command BY <1>1, LivesType
<1>4. d.seq >= d.seq /\ d.id >= d.id BY <1>3 DEF Command
<1>5. Successor(q, d, p, d) BY <1>2, <1>4 DEF Successor
<1> QED BY <1>2, <1>3, <1>5

(* Commands move; a new one has the number that was just given out or none.*)
LEMMA NumberedKept ==
  ASSUME CInv, OInv, Pushed' = Pushed \/ Pushed' = Pushed + 1,
         \A p, c : Lives(p, c)' => (\E q : Lives(q, c)) \/ c.seq <= Pushed'
  PROVE  Numbered'
<1>1. Pushed \in Nat BY Facts DEF Pushed
<1>2. SUFFICES ASSUME NEW p, NEW c, Lives(p, c)', NEW q, Lives(q, c)
               PROVE  c.seq <= Pushed'
  BY DEF Numbered
<1>3. c.seq \in Nat BY <1>2, LivesType DEF Command
<1>4. c.seq <= Pushed BY <1>2 DEF OInv, Numbered
<1> QED BY <1>1, <1>3, <1>4

(* Order in the ring under a push and a pop.                               *)
LEMMA OrderPush ==
  ASSUME CInv, OInv, NEW d \in Command, ring' = Append(ring, d), Front' = Front,
         d.seq = Pushed + 1,
         d.kind \in Swaps => \A c \in RangeOf(ring) \cup Front : IsStructural(c) => c.id < d.id
  PROVE  OrderedRing' /\ OrderedFront'
<1>1. /\ Len(ring') = Len(ring) + 1 /\ Len(ring) \in Nat
      /\ \A i \in 1..Len(ring') : ring'[i] = IF i = Len(ring) + 1 THEN d ELSE ring[i]
  BY Facts
<1>2. \A c \in RangeOf(ring) \cup Front : InOrder(c, d)
  <2>1. SUFFICES ASSUME NEW c \in RangeOf(ring) \cup Front PROVE InOrder(c, d) OBVIOUS
  <2>2. \E p : Lives(p, c) BY DEF Lives, Front, SlotSet
  <2>3. c.seq <= Pushed /\ c \in Command BY <2>2, LivesType DEF OInv, Numbered
  <2>4. c.seq \in Nat /\ Pushed \in Nat BY <2>3, Facts DEF Command, Pushed
  <2>5. c.seq < d.seq BY <2>3, <2>4
  <2>6. c.kind \in Swaps => IsStructural(c) BY DEF Swaps, IsStructural
  <2> QED BY <2>5, <2>6 DEF InOrder
<1>3. OrderedRing'
  <2>1. SUFFICES ASSUME NEW i \in 1..Len(ring'), NEW j \in 1..Len(ring'), i < j
                 PROVE  InOrder(ring'[i], ring'[j])
    BY DEF OrderedRing, InOrder
  <2>2. i \in 1..Len(ring) /\ ring'[i] = ring[i] BY <1>1, <2>1
  <2>3. CASE j \in 1..Len(ring)
    <3>1. ring'[j] = ring[j] BY <1>1, <2>3
    <3> QED BY <2>1, <2>2, <2>3, <3>1 DEF OInv, OrderedRing
  <2>4. CASE j = Len(ring) + 1
    <3>1. ring'[j] = d /\ ring[i] \in RangeOf(ring) BY <1>1, <2>2, <2>4 DEF RangeOf
    <3> QED BY <1>2, <2>2, <3>1
  <2> QED BY <1>1, <2>1, <2>3, <2>4
<1>4. RangeOf(ring') = RangeOf(ring) \cup {d} BY Facts, AppendRange
<1>5. OrderedFront' BY <1>2, <1>4 DEF OInv, OrderedFront, InOrder
<1> QED BY <1>3, <1>5

(* The head a pop takes came before what stays in the ring.                *)
LEMMA OrderPop ==
  ASSUME CInv, OInv, PopHead
  PROVE  /\ OrderedRing'
         /\ \A c \in RangeOf(ring') : InOrder(Head(ring), c) /\ c \in RangeOf(ring)
<1>1. ring \in Seq(Command) /\ ring # << >> /\ ring' = Tail(ring)
  BY Facts DEF PopHead, CanPop
<1>2. /\ Len(ring) \in Nat /\ Len(ring) >= 1 /\ Head(ring) = ring[1]
      /\ Len(ring') = Len(ring) - 1
      /\ \A i \in 1..Len(ring) - 1 : ring'[i] = ring[i + 1]
  BY <1>1
<1>3. ASSUME NEW i \in 1..Len(ring')
      PROVE  i + 1 \in 1..Len(ring) /\ ring'[i] = ring[i + 1] /\ 1 < i + 1 /\ 1 \in 1..Len(ring)
  BY <1>2
<1>4. OrderedRing'
  <2>1. SUFFICES ASSUME NEW i \in 1..Len(ring'), NEW j \in 1..Len(ring'), i < j
                 PROVE  InOrder(ring'[i], ring'[j])
    BY DEF OrderedRing, InOrder
  <2>2. i + 1 < j + 1 BY <2>1, <1>2
  <2> QED BY <1>3, <2>2 DEF OInv, OrderedRing
<1>5. ASSUME NEW i \in 1..Len(ring')
      PROVE  InOrder(Head(ring), ring'[i])
  BY <1>2, <1>3 DEF OInv, OrderedRing
<1>6. \A c \in RangeOf(ring') : c \in RangeOf(ring) BY <1>3 DEF RangeOf
<1> QED BY <1>4, <1>5, <1>6 DEF RangeOf

(* The order is about the ring, the parked slot and the candidate.         *)
LEMMA OrderSame ==
  ASSUME OInv, ring' = ring, Front' \subseteq Front
  PROVE  OrderedRing' /\ OrderedFront'
BY DEF OInv, OrderedRing, OrderedFront, InOrder

(* A command enters the ring, and one that may be discarded by its id is   *)
(* the newest the main thread issued.                                      *)
LEMMA PushOrder ==
  ASSUME CInv, OInv, NEW c \in Command, RingPush(c), ~bumping, next_seq' = next_seq,
         UNCHANGED <<parked, drain>>, c.kind \in Swaps => c = held
  PROVE  \E d \in Command :
           /\ d.id = c.id /\ d.kind = c.kind /\ d.seq = Pushed + 1 /\ Pushed' = Pushed + 1
           /\ ring' = Append(ring, d) /\ RangeOf(ring') = RangeOf(ring) \cup {d}
           /\ OrderedRing' /\ OrderedFront'
<1>1. TypeOK BY DEF CInv, IInv
<1>2. PICK d \in Command : /\ d.id = c.id /\ d.kind = c.kind /\ d.seq = next_seq + 1
                           /\ ring' = Append(ring, d)
                           /\ RangeOf(ring') = RangeOf(ring) \cup {d}
  BY <1>1, PushRange
<1>3. bumping' = TRUE /\ next_seq \in Nat BY Facts DEF RingPush
<1>4. Pushed = next_seq /\ Pushed' = next_seq + 1 BY <1>3 DEF Pushed
<1>5. Front' = Front BY DEF Front
<1>6. ASSUME d.kind \in Swaps, NEW e \in RangeOf(ring) \cup Front, IsStructural(e)
      PROVE  e.id < d.id
  <2>1. c = held /\ held # NoCmd BY <1>2, <1>6, NoCmdAssumption
  <2>2. Lives("held", c) /\ IsStructural(c) /\ d.id = issued
    BY <1>2, <1>6, <2>1 DEF Lives, Swaps, CInv, HInv, SlotKinds
  <2>3. PICK p : Lives(p, e) /\ p # "held" BY <1>6 DEF Lives, Front, SlotSet
  <2>4. e.id \in 1..issued /\ e.id # d.id
    BY <1>2, <1>6, <2>2, <2>3 DEF CInv, HInv, Bounded, Apart
  <2> QED BY <2>2, <2>4, Facts
<1>7. OrderedRing' /\ OrderedFront' BY <1>2, <1>4, <1>5, <1>6, OrderPush
<1> QED BY <1>2, <1>4, <1>7

(* The counter moves, or a command is issued.                              *)
LEMMA OrderIssue ==
  ASSUME CInv, OInv, BumpSeq \/ (\E kind \in Kinds : BeginPush(kind))
  PROVE  OInv'
<1>1. /\ UNCHANGED <<ring, parked, drain, pending_model, coalescing, in_flight, staged, replay,
                     installed, superseded, refused, lost>>
  BY DEF BumpSeq, BeginPush, audioVars, histVars
<1>2. Pushed' = Pushed /\ Pushed \in Nat
  BY Facts DEF BumpSeq, BeginPush, Pushed, MainFree, MainIdle
<1>3. held' = held \/ (held = NoCmd /\ held'.seq = 0)
  BY DEF BumpSeq, BeginPush, MainFree, MainIdle, NewCmd
<1>4. \A p, c : Lives(p, c)' => Lives(p, c) \/ c.seq <= Pushed'
  BY <1>1, <1>2, <1>3 DEF Lives
<1>5. Numbered' BY <1>2, <1>4, NumberedKept
<1>6. \A p, d : Comes(p, d) => Comes(p, d)' BY <1>1, <1>3 DEF Comes, Lives, PastPush, Waits
<1>7. Outdone' BY <1>1, <1>6, OnwardKept
<1>8. Front' = Front BY <1>1 DEF Front
<1>9. OrderedRing' /\ OrderedFront' BY <1>1, <1>8, OrderSame
<1>10. Buffered' BY <1>1 DEF OInv, Buffered
<1> QED BY <1>5, <1>7, <1>9, <1>10 DEF OInv

(* A snapshot goes to the ring or to the buffer; it is no older than the   *)
(* one it overwrites there.                                                *)
LEMMA DeliverOrder ==
  ASSUME CInv, OInv, NEW p \in Command, p.kind = "Params", p.seq = 0, NEW r,
         r = NoCmd \/ r = in_flight, p = in_flight \/ p.id = issued + 1,
         DeliverParams(p, r), ~bumping, next_seq' = next_seq,
         UNCHANGED <<held, pending_model, staged, parked, drain, replay, installed, refused,
                     lost>>
  PROVE  OInv'
<1>1. /\ coalescing # NoCmd =>
           /\ coalescing = in_flight /\ coalescing.seq = 0 /\ coalescing.kind = "Params"
           /\ coalescing.id \in 1..issued
      /\ issued \in Nat /\ p # NoCmd /\ p.id \in Nat
  BY Facts, NoCmdAssumption DEF OInv, Buffered, CInv, HInv, SlotKinds, Command
<1>2. coalescing # NoCmd => p.id >= coalescing.id /\ (coalescing # p => p.id > coalescing.id)
  BY <1>1
<1>3. superseded' = superseded \cup (SlotSet(coalescing) \ {p}) BY DEF DeliverParams
<1>4. \/ \E d \in Command :
            /\ d.id = p.id /\ d.kind = "Params" /\ d.seq = Pushed + 1 /\ Pushed' = Pushed + 1
            /\ RangeOf(ring') = RangeOf(ring) \cup {d}
            /\ OrderedRing' /\ OrderedFront' /\ coalescing' = NoCmd /\ in_flight' = r
      \/ /\ ring' = ring /\ Pushed' = Pushed /\ OrderedRing' /\ OrderedFront'
         /\ coalescing' = p /\ in_flight' = p
  <2>1. CASE RingPush(p) /\ coalescing' = NoCmd /\ in_flight' = r
    <3>1. p.kind \notin Swaps BY DEF Swaps
    <3> QED BY <2>1, <3>1, PushOrder
  <2>2. CASE coalescing' = p /\ in_flight' = p /\ UNCHANGED <<ring, bumping>>
    <3>1. Pushed' = Pushed /\ Front' = Front BY <2>2 DEF Pushed, Front
    <3> QED BY <2>2, <3>1, OrderSame
  <2> QED BY <2>1, <2>2 DEF DeliverParams
<1>5. Pushed \in Nat BY Facts DEF Pushed
<1>6. Buffered' BY <1>4 DEF OInv, Buffered
<1>7. \A c \in RangeOf(ring') : c \in RangeOf(ring) \/ c.seq <= Pushed' BY <1>4, <1>5
<1>8. \A q, c : Lives(q, c)' => Lives(q, c) \/ c.seq <= Pushed'
  <2>1. \A c \in superseded' : c \in superseded \/ c.seq <= Pushed'
    BY <1>1, <1>3, <1>4, <1>5 DEF SlotSet
  <2> QED BY <1>7, <2>1 DEF Lives
<1>9. Numbered' BY <1>4, <1>8, NumberedKept
<1>10. \E q, e : Comes(q, e)' /\ e \in Command /\ e.kind = "Params" /\ e.id = p.id
  <2>1. CASE coalescing' = p BY <1>1, <2>1 DEF Comes
  <2>2. ASSUME NEW d \in Command, d.id = p.id, d.kind = "Params",
               RangeOf(ring') = RangeOf(ring) \cup {d}
        PROVE  Comes("ring", d)'
    BY <2>2 DEF Comes, PastPush, Lives
  <2> QED BY <1>4, <2>1, <2>2
<1>11. ASSUME NEW q, NEW d, Comes(q, d), q # "coalescing" PROVE Comes(q, d)'
  <2>1. RangeOf(ring) \subseteq RangeOf(ring') BY <1>4
  <2> QED BY <1>11, <2>1 DEF Comes, PastPush, Waits, Lives
<1>12. ASSUME NEW q, NEW d, Comes(q, d)
       PROVE  \E s, e : Comes(s, e)' /\ e \in Command /\ Successor(s, e, q, d)
  <2>1. d \in Command BY <1>12, LivesType
  <2>2. CASE q = "coalescing"
    <3>1. d = coalescing /\ d # NoCmd BY <1>12, <2>2 DEF Comes, PastPush, Waits
    <3>2. PICK s, e : Comes(s, e)' /\ e \in Command /\ e.kind = "Params" /\ e.id = p.id
      BY <1>10
    <3> QED BY <1>1, <1>2, <3>1, <3>2 DEF Successor
  <2>3. CASE q # "coalescing"
    <3>1. d.seq >= d.seq /\ d.id >= d.id BY <2>1 DEF Command
    <3>2. Successor(q, d, q, d) BY <3>1 DEF Successor
    <3> QED BY <1>11, <1>12, <2>1, <2>3, <3>2
  <2> QED BY <2>2, <2>3
<1>13. ASSUME NEW c \in superseded', c \notin superseded
       PROVE  /\ c.kind # "RestoreTxn"
              /\ \E q, e : Comes(q, e)' /\ e.kind = c.kind /\ After(q, e, c)
  <2>1. c = coalescing /\ c # NoCmd /\ c # p BY <1>3, <1>13 DEF SlotSet
  <2> QED BY <1>1, <1>2, <1>10, <2>1 DEF After
<1>14. Outdone' BY <1>12, <1>13, StillOutdone
<1> QED BY <1>4, <1>6, <1>9, <1>14 DEF OInv

LEMMA OrderFlush ==
  ASSUME CInv, OInv, FlushParams \/ FlushInFlightParams
  PROVE  OInv'
<1>1. /\ ~bumping /\ next_seq' = next_seq
      /\ UNCHANGED <<held, pending_model, staged, parked, drain, replay, installed, refused,
                     lost>>
  BY DEF FlushParams, FlushInFlightParams, MainFree, MainIdle, audioVars
<1>2. CASE FlushParams
  <2>1. SUFFICES ASSUME NEW p, p = NewCmd("Params") PROVE OInv' OBVIOUS
  <2>2. p \in Command /\ p.kind = "Params" /\ p.seq = 0 /\ p.id = issued + 1
    BY <2>1, NewCmdType DEF AllKinds, CInv, IInv, NewCmd
  <2>3. DeliverParams(p, in_flight) BY <1>2, <2>1 DEF FlushParams
  <2> QED BY <1>1, <2>2, <2>3, DeliverOrder
<1>3. CASE FlushInFlightParams
  <2>1. SUFFICES ASSUME NEW p, p = in_flight PROVE OInv' OBVIOUS
  <2>2. p \in Command /\ p.kind = "Params" /\ p.seq = 0
    BY <1>3, <2>1, Facts DEF FlushInFlightParams, Slot, CInv, HInv, SlotKinds, OInv, Buffered
  <2>3. DeliverParams(p, NoCmd) BY <1>3, <2>1 DEF FlushInFlightParams
  <2> QED BY <1>1, <2>1, <2>2, <2>3, DeliverOrder
<1> QED BY <1>2, <1>3

(* A model takes the place of the one that waited.                         *)
LEMMA OrderDefer ==
  ASSUME CInv, OInv, DeferModel
  PROVE  OInv'
<1>1. SUFFICES ASSUME NEW z, z = NewCmd("LoadModel"), NEW x, x = pending_model PROVE OInv'
  OBVIOUS
<1>2. /\ UNCHANGED <<ring, parked, drain, held, coalescing, in_flight, staged, replay,
                     installed, refused, lost, next_seq, bumping>>
      /\ pending_model' = z /\ superseded' = superseded \cup SlotSet(x)
  BY <1>1 DEF DeferModel, audioVars
<1>3. /\ z \in Command /\ z.seq = 0 /\ z.kind = "LoadModel" /\ z # NoCmd
      /\ x # NoCmd => x.kind = "LoadModel" /\ Lives("pending", x)
  BY <1>1, NewCmdType, NoCmdAssumption
  DEF CInv, IInv, HInv, SlotKinds, NewCmd, AllKinds, Lives
<1>4. Pushed' = Pushed /\ Pushed \in Nat /\ Front' = Front BY <1>2, Facts DEF Pushed, Front
<1>5. \A p, c : Lives(p, c)' => (\E q : Lives(q, c)) \/ c.seq <= Pushed'
  <2>1. \A c \in superseded' : Lives("superseded", c) \/ Lives("pending", c)
    BY <1>2, <1>3 DEF SlotSet, Lives
  <2>2. \A p, c : p # "superseded" /\ Lives(p, c)' => Lives(p, c) \/ c = z
    BY <1>2 DEF Lives
  <2>3. z.seq <= Pushed' BY <1>3, <1>4
  <2>4. \A c : Lives("superseded", c)' => c \in superseded' BY DEF Lives
  <2> QED BY <2>1, <2>2, <2>3, <2>4
<1>6. Comes("pending", z)' BY <1>2, <1>3 DEF Comes, Lives, Waits
<1>7. "pending" \in Waits BY DEF Waits
<1>8. ASSUME NEW p, NEW d, Comes(p, d)
      PROVE  \E q, e : Comes(q, e)' /\ e \in Command /\ Successor(q, e, p, d)
  <2>1. CASE p = "pending"
    <3>1. d.kind = "LoadModel" BY <1>8, <2>1 DEF Comes, PastPush, Waits
    <3> QED BY <1>3, <1>6, <1>7, <3>1 DEF Successor
  <2>2. CASE p # "pending"
    <3>1. d \in Command /\ Comes(p, d)'
      BY <1>2, <1>8, <2>2, LivesType DEF Comes, PastPush, Waits, Lives
    <3>2. d.seq >= d.seq /\ d.id >= d.id BY <3>1 DEF Command
    <3>3. p \in Waits \/ p \notin Waits OBVIOUS
    <3>4. Successor(p, d, p, d) BY <3>2, <3>3 DEF Successor
    <3> QED BY <3>1, <3>4
  <2> QED BY <2>1, <2>2
<1>9. ASSUME NEW c \in superseded', c \notin superseded
      PROVE  /\ c.kind # "RestoreTxn"
             /\ \E q, e : Comes(q, e)' /\ e.kind = c.kind /\ After(q, e, c)
  BY <1>2, <1>3, <1>6, <1>7, <1>9 DEF SlotSet, After
<1>10. Outdone' BY <1>8, <1>9, StillOutdone
<1>11. Numbered' BY <1>4, <1>5, NumberedKept
<1>12. Buffered' /\ OrderedRing' /\ OrderedFront'
  BY <1>2, <1>4, OrderSame DEF OInv, Buffered
<1> QED BY <1>10, <1>11, <1>12 DEF OInv

(* The model that waited is handed to try_push_command.                    *)
LEMMA OrderFlushModel ==
  ASSUME CInv, OInv, FlushPendingModel \/ BeginActivate
  PROVE  OInv'
<1>1. /\ UNCHANGED <<ring, parked, drain, coalescing, in_flight, staged, replay, installed,
                     superseded, refused, lost, next_seq, bumping>>
      /\ held = NoCmd /\ held' = pending_model /\ pending_model' = NoCmd
  BY DEF FlushPendingModel, BeginActivate, MainFree, MainIdle, audioVars, histVars
<1>2. Pushed' = Pushed /\ Front' = Front BY <1>1 DEF Pushed, Front
<1>3. \A p, c : Lives(p, c)' => Lives(p, c) \/ Lives("pending", c) BY <1>1 DEF Lives
<1>4. Numbered' BY <1>2, <1>3, NumberedKept
<1>5. ASSUME NEW p, NEW d, Comes(p, d)
      PROVE  \E q : Comes(q, d)' /\ (q \in Waits \/ p \notin Waits)
  <2>1. CASE p = "pending"
    <3>1. Comes("held", d)' /\ "held" \in Waits
      BY <1>1, <1>5, <2>1 DEF Comes, PastPush, Waits, Lives
    <3> QED BY <3>1
  <2>2. CASE p # "pending"
    <3>1. Comes(p, d)' BY <1>1, <1>5, <2>2 DEF Comes, PastPush, Waits, Lives
    <3> QED BY <3>1
  <2> QED BY <2>1, <2>2
<1>6. Outdone' BY <1>1, <1>5, OnwardKept
<1>7. Buffered' /\ OrderedRing' /\ OrderedFront'
  BY <1>1, <1>2, OrderSame DEF OInv, Buffered
<1> QED BY <1>4, <1>6, <1>7 DEF OInv

(* try_push_command: the retained snapshot, then the command.              *)
LEMMA OrderForceFlush ==
  ASSUME CInv, OInv, ForceFlushFirst
  PROVE  OInv'
<1>1. /\ UNCHANGED <<held, parked, drain, pending_model, in_flight, staged, replay, installed,
                     superseded, refused, lost, next_seq>>
      /\ ~bumping /\ coalescing # NoCmd /\ RingPush(coalescing) /\ coalescing' = NoCmd
  BY DEF ForceFlushFirst, audioVars, histVars
<1>2. coalescing \in Command /\ coalescing.kind = "Params" /\ coalescing.kind \notin Swaps
  BY <1>1, Facts DEF Slot, CInv, HInv, SlotKinds, Swaps
<1>3. PICK d \in Command :
        /\ d.id = coalescing.id /\ d.kind = "Params" /\ d.seq = Pushed + 1
        /\ Pushed' = Pushed + 1 /\ RangeOf(ring') = RangeOf(ring) \cup {d}
        /\ OrderedRing' /\ OrderedFront'
  BY <1>1, <1>2, PushOrder
<1>4. \A p, c : Lives(p, c)' => Lives(p, c) \/ c = d BY <1>1, <1>3 DEF Lives
<1>5. d.seq <= Pushed' BY <1>3 DEF Command
<1>6. Numbered' BY <1>3, <1>4, <1>5, NumberedKept
<1>7. ASSUME NEW p, NEW e, Comes(p, e)
      PROVE  \E q, f : Comes(q, f)' /\ f \in Command /\ Successor(q, f, p, e)
  <2>1. e \in Command BY <1>7, LivesType
  <2>2. e.seq >= e.seq /\ e.id >= e.id BY <2>1 DEF Command
  <2>3. CASE p = "coalescing"
    <3>1. e = coalescing BY <1>7, <2>3 DEF Comes, PastPush, Waits
    <3>2. Comes("ring", d)' BY <1>3 DEF Comes, PastPush, Lives
    <3>3. Successor("ring", d, p, e) BY <1>2, <1>3, <2>2, <3>1 DEF Successor
    <3> QED BY <3>2, <3>3
  <2>4. CASE p # "coalescing"
    <3>1. Comes(p, e)' BY <1>1, <1>3, <1>7, <2>4 DEF Comes, PastPush, Waits, Lives
    <3>2. Successor(p, e, p, e) BY <2>2 DEF Successor
    <3> QED BY <2>1, <3>1, <3>2
  <2> QED BY <2>3, <2>4
<1>8. Outdone' BY <1>1, <1>7, StillOutdone
<1>9. Buffered' BY <1>1 DEF OInv, Buffered
<1> QED BY <1>3, <1>6, <1>8, <1>9 DEF OInv

LEMMA OrderPushHeld ==
  ASSUME CInv, OInv, PushHeld
  PROVE  OInv'
<1>1. /\ UNCHANGED <<coalescing, parked, drain, pending_model, in_flight, staged, replay,
                     installed, superseded, refused, lost, next_seq>>
      /\ ~bumping /\ held # NoCmd /\ RingPush(held) /\ held' = NoCmd
  BY DEF PushHeld, audioVars, histVars
<1>2. held \in Command BY <1>1, Facts DEF Slot
<1>3. PICK d \in Command :
        /\ d.id = held.id /\ d.kind = held.kind /\ d.seq = Pushed + 1
        /\ Pushed' = Pushed + 1 /\ RangeOf(ring') = RangeOf(ring) \cup {d}
        /\ OrderedRing' /\ OrderedFront'
  BY <1>1, <1>2, PushOrder
<1>4. \A p, c : Lives(p, c)' => Lives(p, c) \/ c = d BY <1>1, <1>3 DEF Lives
<1>5. d.seq <= Pushed' /\ d.seq > Pushed
  <2>1. Pushed \in Nat BY Facts DEF Pushed
  <2> QED BY <1>3, <2>1
<1>6. Numbered' BY <1>3, <1>4, <1>5, NumberedKept
<1>7. ASSUME NEW p, NEW e, Comes(p, e)
      PROVE  \E q, f : Comes(q, f)' /\ f \in Command /\ Successor(q, f, p, e)
  <2>1. e \in Command BY <1>7, LivesType
  <2>2. e.seq >= e.seq /\ e.id >= e.id BY <2>1 DEF Command
  <2>3. CASE p = "held"
    <3>1. e = held /\ e.kind = "LoadModel" BY <1>7, <2>3 DEF Comes, PastPush, Waits, Lives
    <3>2. Comes("ring", d)' BY <1>3 DEF Comes, PastPush, Lives
    <3>3. Successor("ring", d, p, e) BY <1>3, <1>5, <3>1 DEF Successor
    <3> QED BY <3>2, <3>3
  <2>4. CASE p # "held"
    <3>1. Comes(p, e)' BY <1>1, <1>3, <1>7, <2>4 DEF Comes, PastPush, Waits, Lives
    <3>2. p \in Waits \/ p \notin Waits OBVIOUS
    <3>3. Successor(p, e, p, e) BY <2>2, <3>2 DEF Successor
    <3> QED BY <2>1, <3>1, <3>3
  <2> QED BY <2>3, <2>4
<1>8. Outdone' BY <1>1, <1>7, StillOutdone
<1>9. Buffered' BY <1>1 DEF OInv, Buffered
<1> QED BY <1>3, <1>6, <1>8, <1>9 DEF OInv

(* On Full a model waits over the one that waited before.                  *)
LEMMA OrderPushFull ==
  ASSUME CInv, OInv, PushFull
  PROVE  OInv'
<1>1. SUFFICES ASSUME NEW z, z = held, NEW x, x = pending_model PROVE OInv'
  OBVIOUS
<1>2. /\ UNCHANGED <<ring, coalescing, parked, drain, in_flight, staged, replay,
                     installed, lost, next_seq, bumping>>
      /\ z # NoCmd /\ held' = NoCmd
  BY <1>1 DEF PushFull, audioVars
<1>3. \/ /\ z.kind = "LoadModel" /\ pending_model' = z
         /\ superseded' = superseded \cup SlotSet(x) /\ refused' = refused
      \/ /\ z.kind # "LoadModel" /\ pending_model' = x
         /\ superseded' = superseded /\ refused' = refused \cup {z}
  BY <1>1 DEF PushFull
<1>4. /\ z \in Command /\ Lives("held", z)
      /\ x # NoCmd => x.kind = "LoadModel" /\ Lives("pending", x)
  BY <1>1, <1>2, Facts DEF CInv, HInv, SlotKinds, Lives, Slot
<1>5. Pushed' = Pushed /\ Front' = Front BY <1>2 DEF Pushed, Front
<1>6. \A p, c : Lives(p, c)' => \E q : Lives(q, c)
  <2>1. \A c \in superseded' : Lives("superseded", c) \/ Lives("pending", c)
    BY <1>3, <1>4 DEF SlotSet, Lives
  <2>2. \A c \in refused' : Lives("refused", c) \/ Lives("held", c)
    BY <1>3, <1>4 DEF Lives
  <2>3. \A p, c : p \notin {"superseded", "refused"} /\ Lives(p, c)' => Lives(p, c) \/ c = z
    BY <1>1, <1>2, <1>3 DEF Lives
  <2>4. \A c : /\ Lives("superseded", c)' => c \in superseded'
               /\ Lives("refused", c)' => c \in refused'
    BY DEF Lives
  <2> QED BY <1>4, <2>1, <2>2, <2>3, <2>4
<1>7. Numbered' BY <1>5, <1>6, NumberedKept
<1>8. "pending" \in Waits BY DEF Waits
<1>9. z.kind = "LoadModel" => Comes("pending", z)' BY <1>2, <1>3 DEF Comes, Lives, Waits
<1>10. ASSUME NEW p, NEW d, Comes(p, d)
       PROVE  \E q, e : Comes(q, e)' /\ e \in Command /\ Successor(q, e, p, d)
  <2>1. d \in Command BY <1>10, LivesType
  <2>2. CASE p \in Waits /\ z.kind = "LoadModel"
    <3>1. d.kind = "LoadModel" BY <1>10, <2>2 DEF Comes, PastPush, Waits
    <3> QED BY <1>4, <1>8, <1>9, <2>2, <3>1 DEF Successor
  <2>3. CASE p \notin Waits \/ z.kind # "LoadModel"
    <3>1. p # "held"
      BY <1>1, <1>10, <2>3 DEF Comes, PastPush, Waits, Lives
    <3>2. Comes(p, d)'
      BY <1>1, <1>2, <1>3, <1>10, <2>3, <3>1 DEF Comes, PastPush, Waits, Lives
    <3>3. d.seq >= d.seq /\ d.id >= d.id BY <2>1 DEF Command
    <3>4. p \in Waits \/ p \notin Waits OBVIOUS
    <3>5. Successor(p, d, p, d) BY <3>3, <3>4 DEF Successor
    <3> QED BY <2>1, <3>2, <3>5
  <2> QED BY <2>2, <2>3
<1>11. ASSUME NEW c \in superseded', c \notin superseded
       PROVE  /\ c.kind # "RestoreTxn"
              /\ \E q, e : Comes(q, e)' /\ e.kind = c.kind /\ After(q, e, c)
  <2>1. z.kind = "LoadModel" /\ c = x /\ x # NoCmd BY <1>3, <1>11 DEF SlotSet
  <2> QED BY <1>4, <1>8, <1>9, <2>1 DEF After
<1>12. Outdone' BY <1>10, <1>11, StillOutdone
<1>13. Buffered' /\ OrderedRing' /\ OrderedFront'
  BY <1>2, <1>5, OrderSame DEF OInv, Buffered
<1> QED BY <1>7, <1>12, <1>13 DEF OInv

LEMMA OrderMain == CInv /\ OInv /\ (MainNext \/ BeginActivate) => OInv'
BY OrderIssue, OrderFlush, OrderDefer, OrderFlushModel, OrderForceFlush, OrderPushHeld,
   OrderPushFull DEF MainNext

(* Command c gives way to e, which came into the ring after it.            *)
GivesWay(c, e) ==
  /\ e.kind = c.kind /\ c.kind \in {"LoadModel"} \cup Swaps
  /\ InOrder(c, e)

(* A newer head of its kind is what a command of a drain gives way to.     *)
LEMMA HeadFollows ==
  ASSUME CInv, OInv, ring # << >>, NEW u \in Front, Supersedes(Head(ring), u)
  PROVE  GivesWay(u, Head(ring))
<1>1. Head(ring) \in RangeOf(ring) BY Facts, TailRange
<1>2. InOrder(u, Head(ring)) BY <1>1 DEF OInv, OrderedFront
<1>3. Head(ring).kind = u.kind /\ u.kind \in {"LoadModel"} \cup Swaps
  BY DEF Supersedes, IsCoalescible, Swaps
<1> QED BY <1>2, <1>3 DEF GivesWay

(* Past the push a command moves on or gives way to a later one.           *)
LEMMA AudioKept ==
  ASSUME CInv, OInv, UNCHANGED <<next_seq, bumping, coalescing, in_flight, held, pending_model>>,
         \A p, c : Lives(p, c)' => \E q : Lives(q, c),
         \A p \in PastPush : \A d : Lives(p, d) =>
           \/ \E q \in PastPush : Lives(q, d)'
           \/ \E q \in PastPush : \E e : Lives(q, e)' /\ GivesWay(d, e),
         \A c \in superseded' :
           c \in superseded \/ \E q \in PastPush : \E e : Lives(q, e)' /\ GivesWay(c, e)
  PROVE  Numbered' /\ Buffered' /\ Outdone'
<1>1. Pushed' = Pushed BY DEF Pushed
<1>2. Numbered' BY <1>1, NumberedKept
<1>3. Buffered' BY DEF OInv, Buffered
<1>4. \A q \in PastPush : \A e : Lives(q, e)' =>
        Comes(q, e)' /\ e \in Command /\ e.id \in Nat /\ e.seq \in Nat
  BY LivesType DEF Comes, Command
<1>5. PastPush \cap Waits = {} BY DEF PastPush, Waits
<1>6. ASSUME NEW p, NEW d, Comes(p, d)
      PROVE  \E q, e : Comes(q, e)' /\ e \in Command /\ Successor(q, e, p, d)
  <2>1. d \in Command /\ d.id \in Nat /\ d.seq \in Nat BY <1>6, LivesType DEF Command
  <2>2. d.seq >= d.seq /\ d.id >= d.id BY <2>1
  <2>3. CASE p \notin PastPush
    <3>1. Comes(p, d)' BY <1>6, <2>3 DEF Comes, Waits, Lives
    <3>2. p \in Waits \/ p \notin Waits OBVIOUS
    <3>3. Successor(p, d, p, d) BY <2>2, <3>2 DEF Successor
    <3> QED BY <2>1, <3>1, <3>3
  <2>4. CASE p \in PastPush
    <3>1. Lives(p, d) BY <1>6, <2>4 DEF Comes, PastPush, Waits
    <3>2. ASSUME NEW q \in PastPush, Lives(q, d)'
          PROVE  \E r, e : Comes(r, e)' /\ e \in Command /\ Successor(r, e, p, d)
      <4>1. Successor(q, d, p, d) BY <1>5, <2>2, <2>4 DEF Successor
      <4> QED BY <1>4, <3>2, <4>1
    <3>3. ASSUME NEW q \in PastPush, NEW e, Lives(q, e)', GivesWay(d, e)
          PROVE  \E r, f : Comes(r, f)' /\ f \in Command /\ Successor(r, f, p, d)
      <4>1. e \in Command /\ e.id \in Nat /\ e.seq \in Nat /\ Comes(q, e)' BY <1>4, <3>3
      <4>2. /\ e.kind = d.kind /\ e.seq >= d.seq
            /\ d.kind # "LoadModel" => e.id >= d.id
        BY <2>1, <3>3, <4>1 DEF GivesWay, InOrder
      <4>3. Successor(q, e, p, d) BY <1>5, <2>4, <4>2 DEF Successor
      <4> QED BY <4>1, <4>3
    <3> QED BY <2>4, <3>1, <3>2, <3>3
  <2> QED BY <2>3, <2>4
<1>7. ASSUME NEW c \in superseded', c \notin superseded
      PROVE  /\ c.kind # "RestoreTxn"
             /\ \E q, e : Comes(q, e)' /\ e.kind = c.kind /\ After(q, e, c)
  <2>1. PICK q, e : q \in PastPush /\ Lives(q, e)' /\ GivesWay(c, e) BY <1>7
  <2>2. \E p : Lives(p, c) BY <1>7 DEF Lives
  <2>3. c.id \in Nat /\ c.seq \in Nat BY <2>2, LivesType DEF Command
  <2>4. e.id \in Nat /\ e.seq \in Nat /\ Comes(q, e)' BY <1>4, <2>1
  <2>5. c.kind # "RestoreTxn" /\ After(q, e, c)
    BY <2>1, <2>3, <2>4 DEF GivesWay, InOrder, After, Swaps
  <2> QED BY <2>1, <2>4, <2>5 DEF GivesWay
<1>8. Outdone' BY <1>6, <1>7, StillOutdone
<1> QED BY <1>2, <1>3, <1>8

(* A recovered command is installed.                                       *)
LEMMA OrderReplay ==
  ASSUME CInv, OInv, ReplayRecovered
  PROVE  OInv'
<1>1. /\ replay # << >> /\ replay' = Tail(replay)
      /\ UNCHANGED <<ring, parked, drain, staged, superseded, refused, lost, next_seq, bumping,
                     coalescing, in_flight, held, pending_model>>
      /\ installed' = installed \cup SlotSet(Head(replay))
  BY DEF ReplayRecovered, Install, SlotSet, mainVars
<1>2. /\ RangeOf(replay) \subseteq RangeOf(replay') \cup {Head(replay)}
      /\ RangeOf(replay') \subseteq RangeOf(replay) /\ Head(replay) \in RangeOf(replay)
  BY <1>1, Facts, TailRange
<1>3. \A p, c : Lives(p, c)' => Lives(p, c) \/ Lives("replay", c)
  BY <1>1, <1>2 DEF Lives, SlotSet
<1>4. \A p \in PastPush : \A d : Lives(p, d) => Lives(p, d)' \/ Lives("installed", d)'
  BY <1>1, <1>2 DEF PastPush, Lives, SlotSet
<1>5. "installed" \in PastPush BY DEF PastPush
<1>6. Numbered' /\ Buffered' /\ Outdone' BY <1>1, <1>3, <1>4, <1>5, AudioKept
<1>7. OrderedRing' /\ OrderedFront' BY <1>1, OrderSame DEF Front
<1> QED BY <1>6, <1>7 DEF OInv

(* The parked command is applied or gives way to the head of the ring.     *)
LEMMA OrderBeginDrain ==
  ASSUME CInv, OInv, BeginDrain
  PROVE  OInv'
<1>1. SUFFICES ASSUME NEW u, u = parked, NEW x, x = Head(ring) PROVE OInv' OBVIOUS
<1>2. /\ UNCHANGED <<ring, staged, replay, refused, lost, next_seq, bumping, coalescing,
                     in_flight, held, pending_model>>
      /\ parked' = NoCmd /\ drain'.candidate = NoCmd
  BY DEF BeginDrain, mainVars
<1>3. drain.candidate = NoCmd BY DEF BeginDrain, CInv, IInv, Ledger, DrainShape
<1>4. \/ installed' = installed \cup SlotSet(u) /\ superseded' = superseded
      \/ /\ installed' = installed /\ superseded' = superseded \cup {u}
         /\ ring # << >> /\ u # NoCmd /\ Supersedes(x, u)
  BY <1>1 DEF BeginDrain, Install, SlotSet
<1>5. OrderedRing' /\ OrderedFront' BY <1>2, OrderSame DEF Front, SlotSet
<1>6. "installed" \in PastPush /\ "ring" \in PastPush BY DEF PastPush
<1>7. \A p, c : Lives(p, c)' => Lives(p, c) \/ Lives("parked", c)
  BY <1>1, <1>2, <1>4 DEF Lives, SlotSet
<1>8. CASE installed' = installed \cup SlotSet(u) /\ superseded' = superseded
  <2>1. \A p \in PastPush : \A d : Lives(p, d) => Lives(p, d)' \/ Lives("installed", d)'
    BY <1>1, <1>2, <1>3, <1>8 DEF PastPush, Lives, SlotSet
  <2>2. Numbered' /\ Buffered' /\ Outdone' BY <1>2, <1>6, <1>7, <1>8, <2>1, AudioKept
  <2> QED BY <1>5, <2>2 DEF OInv
<1>9. CASE /\ installed' = installed /\ superseded' = superseded \cup {u}
           /\ ring # << >> /\ u # NoCmd /\ Supersedes(x, u)
  <2>1. GivesWay(u, x) BY <1>1, <1>9, HeadFollows DEF Front, SlotSet
  <2>2. Lives("ring", x)' BY <1>1, <1>2, <1>9, Facts, TailRange DEF Lives
  <2>3. \A p \in PastPush : \A d : Lives(p, d) => Lives(p, d)' \/ d = u
    BY <1>1, <1>2, <1>3, <1>9 DEF PastPush, Lives
  <2>4. Numbered' /\ Buffered' /\ Outdone'
    BY <1>2, <1>6, <1>7, <1>9, <2>1, <2>2, <2>3, AudioKept
  <2> QED BY <1>5, <2>4 DEF OInv
<1> QED BY <1>4, <1>8, <1>9

LEMMA OrderPopLight ==
  ASSUME CInv, OInv, PopLight
  PROVE  OInv'
<1>1. /\ drain'.candidate = drain.candidate /\ PopHead
      /\ installed' = installed \cup {Head(ring)}
      /\ UNCHANGED <<parked, staged, replay, superseded, refused, lost, next_seq, bumping,
                     coalescing, in_flight, held, pending_model>>
  BY Facts DEF PopLight, Install, Drain, mainVars
<1>2. OrderedRing' /\ \A c \in RangeOf(ring') : c \in RangeOf(ring)
  BY <1>1, OrderPop
<1>3. \A c : c \in RangeOf(ring) <=> c \in RangeOf(ring') \/ c = Head(ring)
  BY <1>1, PopRange
<1>4. Front' = Front BY <1>1 DEF Front
<1>5. OrderedFront' BY <1>2, <1>4 DEF OInv, OrderedFront, InOrder
<1>6. \A p \in PastPush : \A d : Lives(p, d) => Lives(p, d)' \/ Lives("installed", d)'
  BY <1>1, <1>3 DEF PastPush, Lives
<1>7. \A p, c : Lives(p, c)' => Lives(p, c) \/ Lives("ring", c) BY <1>1, <1>3 DEF Lives
<1>8. "installed" \in PastPush BY DEF PastPush
<1>9. Numbered' /\ Buffered' /\ Outdone' BY <1>1, <1>6, <1>7, <1>8, AudioKept
<1> QED BY <1>2, <1>5, <1>9 DEF OInv

(* A head becomes the candidate; the old one is installed or gives way.    *)
LEMMA OrderPopped ==
  ASSUME CInv, OInv, PopFirst \/ PopSuperseding \/ PopFlushing
  PROVE  OInv'
<1> SUFFICES ASSUME NEW x, x = Head(ring), NEW u, u = drain.candidate PROVE OInv' OBVIOUS
<1>1. /\ drain'.candidate = x /\ PopHead
      /\ UNCHANGED <<parked, staged, replay, refused, lost, next_seq, bumping, coalescing,
                     in_flight, held, pending_model>>
  BY Facts DEF PopFirst, PopSuperseding, PopFlushing, Drain, histVars, mainVars
<1>2. /\ OrderedRing'
      /\ \A c \in RangeOf(ring') : InOrder(x, c) /\ c \in RangeOf(ring)
  BY <1>1, OrderPop
<1>3. /\ \A c : c \in RangeOf(ring) <=> c \in RangeOf(ring') \/ c = x
      /\ x \in Command /\ parked = NoCmd /\ x # NoCmd /\ ring # << >>
  BY <1>1, PopRange
<1>4. Front' = {x} BY <1>1, <1>3 DEF Front, SlotSet
<1>5. OrderedFront' BY <1>2, <1>4 DEF OrderedFront, InOrder
<1>6. \/ installed' = installed \cup SlotSet(u) /\ superseded' = superseded
      \/ /\ installed' = installed /\ superseded' = superseded \cup {u}
         /\ u # NoCmd /\ Supersedes(x, u)
  BY DEF PopFirst, PopSuperseding, PopFlushing, Install, SlotSet, histVars
<1>7. "installed" \in PastPush /\ "candidate" \in PastPush BY DEF PastPush
<1>8. Lives("candidate", x)' BY <1>1, <1>3 DEF Lives
<1>9. \A p, c : Lives(p, c)' => Lives(p, c) \/ Lives("ring", c) \/ Lives("candidate", c)
  BY <1>1, <1>3, <1>6 DEF Lives, SlotSet
<1>10. CASE installed' = installed \cup SlotSet(u) /\ superseded' = superseded
  <2>1. \A p \in PastPush : \A d : Lives(p, d) =>
          Lives(p, d)' \/ Lives("installed", d)' \/ Lives("candidate", d)'
    BY <1>1, <1>3, <1>8, <1>10 DEF PastPush, Lives, SlotSet
  <2>2. Numbered' /\ Buffered' /\ Outdone' BY <1>1, <1>7, <1>9, <1>10, <2>1, AudioKept
  <2> QED BY <1>2, <1>5, <2>2 DEF OInv
<1>11. CASE /\ installed' = installed /\ superseded' = superseded \cup {u}
            /\ u # NoCmd /\ Supersedes(x, u)
  <2>1. GivesWay(u, x) BY <1>3, <1>11, HeadFollows DEF Front, SlotSet
  <2>2. \A p \in PastPush : \A d : Lives(p, d) =>
          Lives(p, d)' \/ Lives("candidate", d)' \/ d = u
    BY <1>1, <1>3, <1>8, <1>11 DEF PastPush, Lives
  <2>3. Numbered' /\ Buffered' /\ Outdone'
    BY <1>1, <1>7, <1>8, <1>9, <1>11, <2>1, <2>2, AudioKept
  <2> QED BY <1>2, <1>5, <2>3 DEF OInv
<1> QED BY <1>6, <1>10, <1>11

LEMMA OrderEndDrain ==
  ASSUME CInv, OInv, EndDrain \/ EndDrainParking
  PROVE  OInv'
<1>1. /\ drain'.candidate = NoCmd /\ drain.on
      /\ UNCHANGED <<ring, staged, replay, superseded, refused, lost, next_seq, bumping,
                     coalescing, in_flight, held, pending_model>>
  BY DEF EndDrain, EndDrainParking, IdleDrain, histVars, mainVars
<1>2. parked = NoCmd BY <1>1 DEF CInv, IInv, Ledger, DrainShape
<1>3. \/ installed' = installed \cup SlotSet(drain.candidate) /\ parked' = NoCmd
      \/ installed' = installed /\ parked' = drain.candidate
  BY <1>2 DEF EndDrain, EndDrainParking, Install, SlotSet, histVars
<1>4. OrderedRing' /\ OrderedFront' BY <1>1, <1>3, OrderSame DEF Front, SlotSet
<1>5. \A p \in PastPush : \A d : Lives(p, d) =>
        Lives(p, d)' \/ Lives("installed", d)' \/ Lives("parked", d)'
  BY <1>1, <1>2, <1>3 DEF PastPush, Lives, SlotSet
<1>6. \A p, c : Lives(p, c)' => Lives(p, c) \/ Lives("candidate", c)
  BY <1>1, <1>3 DEF Lives, SlotSet
<1>7. "installed" \in PastPush /\ "parked" \in PastPush BY DEF PastPush
<1>8. Numbered' /\ Buffered' /\ Outdone' BY <1>1, <1>5, <1>6, <1>7, AudioKept
<1> QED BY <1>4, <1>8 DEF OInv

(* A command that is dropped still outdid the ones discarded for it.       *)
LEMMA OrderStops ==
  ASSUME CInv, OInv, Panic \/ Deactivate \/ FinishActivate
  PROVE  OInv'
<1>1. /\ UNCHANGED <<ring, superseded, refused, next_seq, bumping, coalescing, in_flight, held,
                     pending_model>>
      /\ parked' = parked \/ parked' = NoCmd
      /\ drain'.candidate = NoCmd \/ drain'.candidate = drain.candidate
  BY DEF Panic, Deactivate, FinishActivate, IdleDrain, histVars, mainVars
<1>2. OrderedRing' /\ OrderedFront' BY <1>1, OrderSame DEF Front, SlotSet
<1>3. /\ \A p \in PastPush : \A d : Lives(p, d) =>
           Lives(p, d)' \/ Lives("lost", d)' \/ Lives("replay", d)'
      /\ \A p, c : Lives(p, c)' => \E q : Lives(q, c)
  <2>1. CASE Panic
    <3>1. /\ replay' = IF phase = "replaying" THEN << >> ELSE replay
          /\ UNCHANGED <<ring, parked, staged, installed>> /\ drain'.candidate = NoCmd
          /\ \A c : c \in lost' <=>
               \/ c \in lost
               \/ c # NoCmd /\ (c = drain.candidate
                                \/ (phase = "replaying" /\ c \in RangeOf(replay)))
      BY <2>1 DEF Panic, IdleDrain
    <3>2. \A c : c \notin RangeOf(<< >>) BY DEF RangeOf
    <3>3. \A p, c : Lives(p, c)' => Lives(p, c) \/ Lives("candidate", c) \/ Lives("replay", c)
      BY <1>1, <3>1, <3>2 DEF Lives
    <3>4. \A p \in PastPush : \A d : Lives(p, d) => Lives(p, d)' \/ Lives("lost", d)'
      BY <3>1 DEF PastPush, Lives
    <3> QED BY <3>3, <3>4
  <2>2. CASE Deactivate
    <3>1. /\ UNCHANGED <<ring, drain, staged, installed>> /\ parked' = NoCmd /\ replay' = << >>
          /\ \A c : c \in lost' <=>
               c \in lost \/ (c # NoCmd /\ (c = parked \/ c \in RangeOf(replay)))
      BY <2>2 DEF Deactivate
    <3>2. \A c : c \notin RangeOf(<< >>) BY DEF RangeOf
    <3>3. \A p, c : Lives(p, c)' => Lives(p, c) \/ Lives("parked", c) \/ Lives("replay", c)
      BY <1>1, <3>1, <3>2 DEF Lives
    <3>4. \A p \in PastPush : \A d : Lives(p, d) => Lives(p, d)' \/ Lives("lost", d)'
      BY <3>1 DEF PastPush, Lives
    <3> QED BY <3>3, <3>4
  <2>3. CASE FinishActivate
    <3>1. /\ UNCHANGED <<ring, parked, drain, installed, lost>> /\ replay' = staged
          /\ replay = << >> /\ staged' = << >>
      BY <2>3 DEF FinishActivate, histVars, CInv, HInv, SlotKinds
    <3>2. \A c : c \notin RangeOf(<< >>) BY DEF RangeOf
    <3>3. \A p, c : Lives(p, c)' => Lives(p, c) \/ Lives("staged", c)
      BY <1>1, <3>1, <3>2 DEF Lives
    <3>4. \A p \in PastPush : \A d : Lives(p, d) => Lives(p, d)' \/ Lives("replay", d)'
      BY <3>1, <3>2 DEF PastPush, Lives
    <3> QED BY <3>3, <3>4
  <2> QED BY <2>1, <2>2, <2>3
<1>4. "lost" \in PastPush /\ "replay" \in PastPush BY DEF PastPush
<1>5. Numbered' /\ Buffered' /\ Outdone' BY <1>1, <1>3, <1>4, AudioKept
<1> QED BY <1>2, <1>5 DEF OInv

(* The models of a failed activation give way to the one that is kept; the *)
(* rest of the ring is staged.                                             *)
LEMMA OrderFails ==
  ASSUME CInv, OInv, ActivateFails
  PROVE  OInv'
<1> DEFINE models == {c \in RangeOf(ring) : c.kind = "LoadModel"} \cup SlotSet(pending_model)
<1>1. /\ ring' = << >> /\ staged' = Restage(ring, staged) /\ phase = "inactive"
      /\ UNCHANGED <<parked, drain, replay, installed, refused, lost, next_seq, bumping,
                     coalescing, in_flight, held>>
      /\ held = NoCmd /\ KeepNewest(models)
  BY DEF ActivateFails, audioVars, MainIdle
<1>2. parked = NoCmd /\ drain.candidate = NoCmd
  BY <1>1 DEF CInv, IInv, Ledger, ParkedShape, DrainShape
<1>3. OrderedRing' /\ OrderedFront'
  BY <1>1, <1>2 DEF OrderedRing, OrderedFront, Front, SlotSet
<1>4. RangeOf(ring) \subseteq Command /\ NoCmd \notin RangeOf(ring)
  BY Facts, RangeType, NoCmdAssumption
<1>5. \A c : c # NoCmd => (c \in RangeOf(staged') <=>
        (c \in RangeOf(ring) /\ c.kind # "LoadModel") \/ c \in RangeOf(staged))
  BY <1>1, Facts, RestageRange
<1>6. \A c \in models : /\ c \in Command /\ c # NoCmd /\ c.kind = "LoadModel"
                        /\ Lives("ring", c) \/ Lives("pending", c)
  BY <1>4, Facts DEF SlotSet, CInv, HInv, SlotKinds, Lives, Slot
<1>7. \A p, c : p \in {"ring", "pending"} /\ Lives(p, c) /\ c.kind = "LoadModel" => c \in models
  BY DEF Lives, SlotSet
<1> HIDE DEF models
<1>8. /\ \A c \in superseded' : c \in superseded \/ c \in models
      /\ pending_model' # NoCmd => pending_model' \in models
      /\ \A c \in models : pending_model' \in models
  BY <1>1 DEF KeepNewest
<1>9. \A p, c : Lives(p, c)' => \E q : Lives(q, c)
  <2>1. \A c : c \notin RangeOf(<< >>) BY DEF RangeOf
  <2>2. \A p, c : Lives(p, c)' =>
          \/ Lives(p, c)
          \/ p = "staged" /\ c \in RangeOf(ring)
          \/ p \in {"pending", "superseded"} /\ c \in models
    BY <1>1, <1>5, <1>8, <2>1 DEF Lives
  <2>3. \A c \in RangeOf(ring) : Lives("ring", c) BY DEF Lives
  <2> QED BY <1>6, <2>2, <2>3
<1>10. Pushed' = Pushed BY <1>1 DEF Pushed
<1>11. Numbered' BY <1>9, <1>10, NumberedKept
<1>12. Buffered' BY <1>1 DEF OInv, Buffered
<1>13. "pending" \in Waits /\ \A c \in models : Comes("pending", pending_model)'
  BY <1>6, <1>8 DEF Waits, Comes, Lives
<1>14. ASSUME NEW p, NEW d, Comes(p, d)
       PROVE  \E q, e : Comes(q, e)' /\ e \in Command /\ Successor(q, e, p, d)
  <2>1. d \in Command /\ d # NoCmd BY <1>14, LivesType, NoCmdAssumption
  <2>2. CASE p \in {"ring", "pending"} /\ d.kind = "LoadModel"
    <3>1. d \in models BY <1>7, <1>14, <2>2 DEF Comes, PastPush, Waits
    <3> QED BY <1>6, <1>8, <1>13, <2>2, <3>1 DEF Successor
  <2>3. CASE ~(p \in {"ring", "pending"} /\ d.kind = "LoadModel")
    <3>1. p \notin {"held", "pending"}
      BY <1>1, <1>14, <2>3 DEF Comes, PastPush, Waits, Lives
    <3>2. CASE p = "ring"
      <4>1. Lives("staged", d)' BY <1>5, <1>14, <2>1, <2>3, <3>2 DEF Comes, Waits, Lives
      <4> QED BY <2>1, <3>2, <4>1 DEF Comes, PastPush, Waits, Successor, Command
    <3>3. CASE p # "ring"
      <4>1. Comes(p, d)' /\ p \notin Waits
        BY <1>1, <1>5, <1>14, <3>1, <3>3 DEF Comes, PastPush, Waits, Lives
      <4> QED BY <2>1, <4>1 DEF Successor, Command
    <3> QED BY <3>2, <3>3
  <2> QED BY <2>2, <2>3
<1>15. ASSUME NEW c \in superseded', c \notin superseded
       PROVE  /\ c.kind # "RestoreTxn"
              /\ \E q, e : Comes(q, e)' /\ e.kind = c.kind /\ After(q, e, c)
  <2>1. c \in models BY <1>8, <1>15
  <2> QED BY <1>6, <1>8, <1>13, <2>1 DEF After
<1>16. Outdone' BY <1>14, <1>15, StillOutdone
<1> QED BY <1>3, <1>11, <1>12, <1>16 DEF OInv

(* The order holds at first and through every step.                        *)
LEMMA OrderInit == Init => OInv
<1> SUFFICES ASSUME Init PROVE OInv OBVIOUS
<1>1. \A c : c \notin RangeOf(<< >>) BY DEF RangeOf
<1>2. \A p, c : ~Lives(p, c) BY <1>1 DEF Init, Lives, IdleDrain
<1>3. OrderedRing /\ OrderedFront
  BY DEF Init, OrderedRing, OrderedFront, Front, SlotSet, IdleDrain
<1> QED BY <1>2, <1>3 DEF Init, OInv, Numbered, Buffered, Outdone

LEMMA OrderStep == CInv /\ OInv /\ [Next]_vars => OInv'
<1> SUFFICES ASSUME CInv, OInv, [Next]_vars PROVE OInv' OBVIOUS
<1>1. CASE MainNext BY <1>1, OrderMain
<1>2. CASE DrainNext
  BY <1>2, OrderReplay, OrderBeginDrain, OrderPopLight, OrderPopped, OrderEndDrain
  DEF DrainNext
<1>3. CASE Panic BY <1>3, OrderStops
<1>4. CASE LifecycleNext BY <1>4, OrderStops, OrderMain, OrderFails DEF LifecycleNext
<1>5. CASE UNCHANGED vars
  <2>1. UNCHANGED <<ring, parked, held, drain, pending_model, staged, replay, installed,
                    superseded, refused, lost, coalescing, in_flight, next_seq, bumping>>
    BY <1>5 DEF vars, audioVars, mainVars, histVars
  <2>2. \A p, c : Lives(p, c)' <=> Lives(p, c) BY <2>1 DEF Lives
  <2>3. Outdone' BY <2>1, <2>2 DEF OInv, Outdone, Comes, After
  <2>4. Numbered' BY <2>1, <2>2 DEF OInv, Numbered, Pushed
  <2>5. Buffered' /\ OrderedRing' /\ OrderedFront'
    BY <2>1, OrderSame DEF OInv, Buffered, Front
  <2> QED BY <2>3, <2>4, <2>5 DEF OInv
<1> QED BY <1>1, <1>2, <1>3, <1>4, <1>5 DEF Next

(* What outdid a discarded command is delivered or retained.               *)
LEMMA OutdoneMeansLatest == CInv /\ OInv => LatestWins
<1> SUFFICES ASSUME CInv, OInv, NEW c \in superseded
             PROVE  /\ c.kind # "RestoreTxn"
                    /\ \E d \in Delivered \cup Retained : d.kind = c.kind /\ Follows(d, c)
  BY DEF LatestWins
<1>1. c.kind # "RestoreTxn" BY DEF OInv, Outdone
<1>2. PICK p, d : Comes(p, d) /\ d.kind = c.kind /\ After(p, d, c) BY DEF OInv, Outdone
<1>3. d \in Command /\ d # NoCmd BY <1>2, LivesType, NoCmdAssumption
<1>4. CASE p \in PastPush
  <2>1. Lives(p, d) /\ p \notin Waits BY <1>2, <1>4 DEF Comes, PastPush, Waits
  <2>2. d \in Delivered BY <1>3, <1>4, <2>1 DEF Delivered, PastPush, Lives, SlotSet
  <2>3. Follows(d, c) BY <1>2, <2>1 DEF Follows, After
  <2> QED BY <1>1, <1>2, <2>2, <2>3
<1>5. CASE p \in Waits
  <2>1. d \in Retained BY <1>2, <1>5 DEF Comes, PastPush, Waits, Lives, Retained, SlotSet
  <2>2. Follows(d, c) BY <1>2, <2>1 DEF Follows, After
  <2> QED BY <1>1, <1>2, <2>1, <2>2
<1>6. CASE p = "coalescing"
  <2>1. d = coalescing /\ d # NoCmd BY <1>2, <1>6 DEF Comes, PastPush, Waits
  <2>2. d.kind = "Params" BY <2>1 DEF CInv, HInv, SlotKinds
  <2>3. d \in Retained /\ Follows(d, c)
    BY <1>2, <2>1, <2>2 DEF Retained, SlotSet, Follows, After
  <2> QED BY <1>1, <1>2, <2>3
<1> QED BY <1>2, <1>4, <1>5, <1>6 DEF Comes

(* A command of any kind is discarded only for one of its own kind that    *)
(* follows it, past the push or kept until it is; a RestoreTxn never is.   *)
(* The follower holds on through every later retry, coalescing, failed     *)
(* activation, panic and deactivation.                                     *)
THEOREM LatestCommandWins == Spec => []LatestWins
<1>1. Init => OInv BY OrderInit
<1>2. CInv /\ OInv /\ [Next]_vars => OInv' BY OrderStep
<1>3. CInv /\ OInv => LatestWins BY OutdoneMeansLatest
<1> QED BY <1>1, <1>2, <1>3, HomesInvariant, PTL DEF Spec

-----------------------------------------------------------------------------
(* The commands that set the impulse response, in the order of their ids.  *)
IsIr(c) == c # NoCmd /\ c.kind \in {"LoadCabIr", "RestoreTxn"}
IrSorted(s) ==
  \A i, j \in 1..Len(s) : i < j /\ IsIr(s[i]) /\ IsIr(s[j]) => s[i].id < s[j].id
IrBefore(S, T) == \A c \in S, d \in T : IsIr(c) /\ IsIr(d) => c.id < d.id

(* Where commands wait after a failed activation, and when.                *)
RecoveredShape ==
  /\ failures = 0 => staged = << >> /\ replay = << >>
  /\ staged # << >> => phase \in {"inactive", "activating"}
  /\ replay # << >> => phase \notin {"inactive", "activating"}
  /\ replay # << >> => parked = NoCmd /\ ~drain.on

IrLine ==
  /\ IrSorted(ring) /\ IrSorted(staged) /\ IrSorted(replay)
  /\ IrBefore(RangeOf(staged) \cup RangeOf(replay) \cup Front, RangeOf(ring))
  /\ \A c \in RangeOf(staged) \cup RangeOf(replay) \cup Front \cup RangeOf(ring)
             \cup SlotSet(held) :
       IsIr(c) => rt["ir"] < c.id

LineInv == RecoveredShape /\ IrLine /\ rt["ir"] <= issued

(* A pop and a push of a sequence in the order of the ids.                 *)
LEMMA IrTail ==
  ASSUME NEW S, NEW s \in Seq(S), s # << >>, IrSorted(s)
  PROVE  IrSorted(Tail(s)) /\ IrBefore({Head(s)}, RangeOf(Tail(s)))
<1>1. /\ Len(s) \in Nat /\ Len(s) >= 1 /\ Head(s) = s[1] /\ Len(Tail(s)) = Len(s) - 1
      /\ \A i \in 1..Len(s) - 1 : Tail(s)[i] = s[i + 1]
  OBVIOUS
<1>2. ASSUME NEW i \in 1..Len(Tail(s))
      PROVE  i + 1 \in 1..Len(s) /\ Tail(s)[i] = s[i + 1] /\ 1 < i + 1 /\ 1 \in 1..Len(s)
  BY <1>1
<1>3. IrSorted(Tail(s))
  <2>1. SUFFICES ASSUME NEW i \in 1..Len(Tail(s)), NEW j \in 1..Len(Tail(s)), i < j,
                        IsIr(Tail(s)[i]), IsIr(Tail(s)[j])
                 PROVE  Tail(s)[i].id < Tail(s)[j].id
    BY DEF IrSorted
  <2>2. i + 1 < j + 1 BY <1>1, <2>1
  <2> QED BY <1>2, <2>1, <2>2 DEF IrSorted
<1>4. ASSUME NEW i \in 1..Len(Tail(s)), IsIr(Head(s)), IsIr(Tail(s)[i])
      PROVE  Head(s).id < Tail(s)[i].id
  BY <1>1, <1>2, <1>4 DEF IrSorted
<1> QED BY <1>3, <1>4 DEF IrBefore, RangeOf

LEMMA IrAppend ==
  ASSUME NEW S, NEW s \in Seq(S), NEW e, IrSorted(s), IrBefore(RangeOf(s), {e})
  PROVE  IrSorted(Append(s, e))
<1>1. /\ Len(Append(s, e)) = Len(s) + 1 /\ Len(s) \in Nat
      /\ \A i \in 1..Len(s) + 1 : Append(s, e)[i] = IF i = Len(s) + 1 THEN e ELSE s[i]
  OBVIOUS
<1>2. SUFFICES ASSUME NEW i \in 1..Len(s) + 1, NEW j \in 1..Len(s) + 1, i < j,
                      IsIr(Append(s, e)[i]), IsIr(Append(s, e)[j])
               PROVE  Append(s, e)[i].id < Append(s, e)[j].id
  BY <1>1 DEF IrSorted
<1>3. i \in 1..Len(s) /\ Append(s, e)[i] = s[i] /\ s[i] \in RangeOf(s)
  BY <1>1, <1>2 DEF RangeOf
<1>4. CASE j \in 1..Len(s)
  <2>1. Append(s, e)[j] = s[j] BY <1>1, <1>4
  <2> QED BY <1>2, <1>3, <1>4, <2>1 DEF IrSorted
<1>5. CASE j = Len(s) + 1 BY <1>1, <1>2, <1>3, <1>5 DEF IrBefore
<1> QED BY <1>1, <1>2, <1>4, <1>5

(* A rollback onto no recovered commands keeps the order of the ring.      *)
LEMMA IrRestage ==
  ASSUME NEW s \in Seq(Command), IrSorted(s)
  PROVE  IrSorted(Restage(s, << >>))
<1> DEFINE first == [i \in 1..Len(s) |-> IF s[i].kind = "LoadModel" THEN NoCmd ELSE s[i]]
<1>1. Len(s) \in Nat /\ \A i \in 1..Len(s) : s[i] \in Command OBVIOUS
<1>2. \A i \in 1..Len(s) : first[i] \in Slot BY <1>1 DEF Slot
<1>3. first \in Seq(Slot) /\ Len(first) = Len(s) BY <1>1, <1>2
<1>4. Restage(s, << >>) = first
  <2>1. first \o << >> = first BY <1>3
  <2> QED BY <2>1 DEF Restage
<1>5. \A i \in 1..Len(s) : IsIr(first[i]) => first[i] = s[i] BY DEF IsIr
<1>6. IrSorted(first) BY <1>3, <1>5 DEF IrSorted
<1> QED BY <1>4, <1>6

(* Only an install sets the impulse response.                              *)
LEMMA IrInstall ==
  ASSUME TypeOK, NEW c \in Command, Install(c)
  PROVE  /\ IsIr(c) => rt'["ir"] = c.id
         /\ ~IsIr(c) => rt'["ir"] = rt["ir"]
<1>1. c # NoCmd /\ "ir" \in Resources BY NoCmdAssumption DEF Resources
<1>2. rt' = [x \in Resources |-> IF x \in Touches(c) THEN c.id ELSE rt[x]]
  BY DEF Install, Installing
<1>3. rt'["ir"] = IF "ir" \in Touches(c) THEN c.id ELSE rt["ir"] BY <1>1, <1>2
<1>4. "ir" \in Touches(c) <=> c.kind \in {"LoadCabIr", "RestoreTxn"}
  <2>1. c.kind \in AllKinds BY DEF Command
  <2> QED BY <2>1 DEF Touches, AllKinds
<1> QED BY <1>1, <1>3, <1>4 DEF IsIr

(* The push of a command that is not older than anything else.             *)
LEMMA LineMain ==
  ASSUME CInv, LineInv, MainNext \/ BeginActivate
  PROVE  LineInv' /\ rt' = rt
<1>1. /\ UNCHANGED <<parked, drain, staged, replay, rt, failures>>
      /\ issued \in Nat /\ issued' \in {issued, issued + 1}
      /\ phase' = phase \/ (phase = "inactive" /\ phase' = "activating")
  BY Facts DEF MainNext, BumpSeq, FlushParams, FlushInFlightParams, BeginPush, DeferModel,
     FlushPendingModel, ForceFlushFirst, PushHeld, PushFull, BeginActivate, audioVars, faultVars
<1>2. \A c \in SlotSet(held') : IsIr(c) => c.id = issued + 1 \/ c = held
  <2>1. CASE \E kind \in Kinds : BeginPush(kind) BY <2>1 DEF BeginPush, NewCmd, SlotSet
  <2>2. CASE FlushPendingModel \/ BeginActivate
    <3>1. pending_model # NoCmd => pending_model.kind = "LoadModel"
      BY DEF CInv, HInv, SlotKinds
    <3> QED BY <2>2, <3>1 DEF FlushPendingModel, BeginActivate, SlotSet, IsIr
  <2>3. CASE \/ BumpSeq \/ FlushParams \/ FlushInFlightParams \/ DeferModel
             \/ ForceFlushFirst \/ PushHeld \/ PushFull
    BY <2>3 DEF BumpSeq, FlushParams, FlushInFlightParams, DeferModel, ForceFlushFirst,
       PushHeld, PushFull, SlotSet
  <2> QED BY <2>1, <2>2, <2>3 DEF MainNext
<1>3. \/ ring' = ring
      \/ \E d \in Command :
           /\ ring' = Append(ring, d)
           /\ IsIr(d) => held # NoCmd /\ IsIr(held) /\ d.id = held.id /\ d.id = issued
  <2>1. TypeOK /\ NewCmd("Params") \in Command /\ NewCmd("Params").kind = "Params"
    BY NewCmdType DEF CInv, IInv, AllKinds, NewCmd
  <2>2. ASSUME NEW c \in Command, c.kind = "Params", RingPush(c)
        PROVE  \E d \in Command : ring' = Append(ring, d) /\ ~IsIr(d)
    <3>1. PICK d \in Command : ring' = Append(ring, d) /\ d.kind = "Params"
      BY <2>1, <2>2, PushRange
    <3> QED BY <3>1 DEF IsIr
  <2>3. CASE \/ BumpSeq \/ (\E kind \in Kinds : BeginPush(kind)) \/ DeferModel
             \/ FlushPendingModel \/ PushFull \/ BeginActivate
    BY <2>3 DEF BumpSeq, BeginPush, DeferModel, FlushPendingModel, PushFull, BeginActivate
  <2>4. CASE FlushParams
    BY <2>1, <2>2, <2>4 DEF FlushParams, DeliverParams
  <2>5. CASE FlushInFlightParams
    <3>1. in_flight \in Command /\ in_flight.kind = "Params"
      BY <2>5, Facts DEF FlushInFlightParams, CInv, HInv, SlotKinds, Slot
    <3> QED BY <2>2, <2>5, <3>1 DEF FlushInFlightParams, DeliverParams
  <2>6. CASE ForceFlushFirst
    <3>1. coalescing \in Command /\ coalescing.kind = "Params"
      BY <2>6, Facts DEF ForceFlushFirst, CInv, HInv, SlotKinds, Slot
    <3> QED BY <2>2, <2>6, <3>1 DEF ForceFlushFirst
  <2>7. CASE PushHeld
    <3>1. held \in Command /\ held # NoCmd /\ RingPush(held)
      BY <2>7, Facts DEF PushHeld, Slot
    <3>2. PICK d \in Command : d.id = held.id /\ d.kind = held.kind /\ ring' = Append(ring, d)
      BY <2>1, <3>1, PushRange
    <3>3. IsIr(d) => IsIr(held) /\ held.id = issued
      BY <3>1, <3>2 DEF IsIr, CInv, HInv, SlotKinds
    <3> QED BY <3>1, <3>2, <3>3
  <2> QED BY <2>3, <2>4, <2>5, <2>6, <2>7 DEF MainNext
<1>4. IrLine' /\ rt["ir"] <= issued
  <2>1. rt["ir"] \in Nat /\ rt["ir"] <= issued
    <3>1. rt \in [Resources -> Nat] BY DEF CInv, IInv, TypeOK
    <3> QED BY <3>1 DEF Resources, LineInv
  <2>2. \A c \in SlotSet(held') : IsIr(c) => rt["ir"] < c.id
    <3>1. \A c \in SlotSet(held) : IsIr(c) => rt["ir"] < c.id BY DEF LineInv, IrLine
    <3>2. rt["ir"] < issued + 1 BY <1>1, <2>1
    <3> QED BY <1>2, <3>1, <3>2 DEF SlotSet, IsIr
  <2>3. CASE ring' = ring
    BY <1>1, <2>1, <2>2, <2>3 DEF LineInv, IrLine, Front
  <2>4. ASSUME NEW d \in Command, ring' = Append(ring, d),
               IsIr(d) => held # NoCmd /\ IsIr(held) /\ d.id = held.id /\ d.id = issued
        PROVE  IrLine'
    <3>1. ASSUME NEW p, p # "held", NEW c, Lives(p, c), IsIr(c), IsIr(d)
          PROVE  c.id < d.id
      <4>1. IsStructural(c) /\ IsStructural(held) /\ Lives("held", held)
        BY <2>4, <3>1 DEF IsIr, IsStructural, Lives
      <4>2. c.id \in 1..issued /\ c.id # d.id
        BY <2>4, <3>1, <4>1 DEF CInv, HInv, Bounded, Apart
      <4> QED BY <1>1, <2>4, <3>1, <4>2
    <3>2. \A c \in RangeOf(staged) \cup RangeOf(replay) \cup Front \cup RangeOf(ring) :
            IsIr(c) => \E p : p # "held" /\ Lives(p, c)
      <4>1. \A c \in RangeOf(staged) : IsIr(c) => Lives("staged", c) BY DEF Lives, IsIr
      <4>2. \A c \in RangeOf(replay) : IsIr(c) => Lives("replay", c) BY DEF Lives, IsIr
      <4>3. \A c \in RangeOf(ring) : Lives("ring", c) BY DEF Lives
      <4>4. \A c \in Front : Lives("parked", c) \/ Lives("candidate", c)
        BY DEF Lives, SlotSet, Front
      <4> QED BY <4>1, <4>2, <4>3, <4>4
    <3>3. RangeOf(ring') = RangeOf(ring) \cup {d} BY <2>4, Facts, AppendRange
    <3>4. IrBefore(RangeOf(staged) \cup RangeOf(replay) \cup Front \cup RangeOf(ring), {d})
      BY <3>1, <3>2 DEF IrBefore
    <3>5. IrSorted(ring')
      <4>1. IrBefore(RangeOf(ring), {d}) BY <3>4 DEF IrBefore
      <4> QED BY <2>4, <4>1, Facts, IrAppend DEF LineInv, IrLine
    <3>6. IrBefore(RangeOf(staged) \cup RangeOf(replay) \cup Front, RangeOf(ring'))
      BY <3>3, <3>4 DEF IrBefore, LineInv, IrLine
    <3>7. IsIr(d) => rt["ir"] < d.id BY <2>4 DEF LineInv, IrLine, SlotSet
    <3> QED BY <1>1, <2>2, <3>3, <3>5, <3>6, <3>7 DEF LineInv, IrLine, Front
  <2> QED BY <1>3, <2>1, <2>3, <2>4
<1>5. rt'["ir"] <= issued'
  <2>1. rt \in [Resources -> Nat] /\ "ir" \in Resources
    BY DEF CInv, IInv, TypeOK, Resources
  <2> QED BY <1>1, <1>4, <2>1
<1>6. RecoveredShape' BY <1>1 DEF LineInv, RecoveredShape
<1> QED BY <1>1, <1>4, <1>5, <1>6 DEF LineInv

(* Installing c, the first of the line, leaves the rest behind it.         *)
LEMMA LineInstall ==
  ASSUME CInv, LineInv, NEW c \in Command, Install(c), NEW p, Lives(p, c), issued' = issued,
         IsIr(c) => rt["ir"] < c.id
  PROVE  /\ rt'["ir"] >= rt["ir"] /\ rt'["ir"] <= issued'
         /\ \A d : IsIr(d) /\ rt["ir"] < d.id /\ (IsIr(c) => c.id < d.id) => rt'["ir"] < d.id
<1>1. TypeOK /\ c.id \in 1..issued BY DEF CInv, IInv, HInv, Bounded
<1>2. /\ IsIr(c) => rt'["ir"] = c.id
      /\ ~IsIr(c) => rt'["ir"] = rt["ir"]
  BY <1>1, IrInstall
<1>3. rt["ir"] \in Nat
  <2>1. rt \in [Resources -> Nat] BY <1>1 DEF TypeOK
  <2> QED BY <2>1 DEF Resources
<1>4. rt["ir"] <= issued BY DEF LineInv
<1>5. issued \in Nat BY Facts
<1>6. CASE IsIr(c) BY <1>1, <1>2, <1>3, <1>5, <1>6
<1>7. CASE ~IsIr(c) BY <1>2, <1>3, <1>4, <1>7
<1> QED BY <1>6, <1>7

(* The first recovered command is installed before everything behind it.   *)
LEMMA LineReplay ==
  ASSUME CInv, LineInv, ReplayRecovered
  PROVE  LineInv' /\ rt'["ir"] >= rt["ir"]
<1>1. /\ replay # << >> /\ replay' = Tail(replay) /\ issued' = issued
      /\ phase' \in {"active", "replaying"}
      /\ UNCHANGED <<ring, parked, drain, staged, held, failures>>
  BY DEF ReplayRecovered, mainVars, faultVars
<1>2. parked = NoCmd /\ ~drain.on /\ drain.candidate = NoCmd
  BY <1>1 DEF LineInv, RecoveredShape, CInv, IInv, Ledger, DrainShape
<1>3. staged = << >>
  BY DEF LineInv, RecoveredShape, ReplayRecovered, Alive
<1>4. /\ Head(replay) \in RangeOf(replay) /\ RangeOf(replay') \subseteq RangeOf(replay)
      /\ Head(replay) \in Slot
  <2>1. Head(replay) \in RangeOf(replay) /\ RangeOf(replay') \subseteq RangeOf(replay)
    BY <1>1, Facts, TailRange
  <2> QED BY <2>1, Facts, RangeType
<1>5. IrSorted(replay') /\ IrBefore({Head(replay)}, RangeOf(replay'))
  BY <1>1, Facts, IrTail DEF LineInv, IrLine
<1>6. RangeOf(<< >>) = {} BY DEF RangeOf
<1>7. Front = {} /\ Front' = {} BY <1>1, <1>2 DEF Front, SlotSet
<1>8. /\ IrSorted(ring') /\ IrSorted(staged')
      /\ IrBefore(RangeOf(staged') \cup RangeOf(replay') \cup Front', RangeOf(ring'))
  BY <1>1, <1>3, <1>4, <1>6, <1>7 DEF LineInv, IrLine, IrBefore
<1>9. RecoveredShape'
  <2>1. failures # 0 BY <1>1 DEF LineInv, RecoveredShape
  <2> QED BY <1>1, <1>2, <1>3, <2>1 DEF RecoveredShape
<1>10. CASE Head(replay) = NoCmd
  <2>1. rt' = rt BY <1>10 DEF ReplayRecovered
  <2>2. rt["ir"] \in Nat
    <3>1. rt \in [Resources -> Nat] BY DEF CInv, IInv, TypeOK
    <3> QED BY <3>1 DEF Resources
  <2>3. \A c \in RangeOf(staged') \cup RangeOf(replay') \cup Front' \cup RangeOf(ring')
               \cup SlotSet(held') : IsIr(c) => rt'["ir"] < c.id
    BY <1>1, <1>4, <1>7, <2>1 DEF LineInv, IrLine
  <2>4. rt'["ir"] <= issued' /\ rt'["ir"] >= rt["ir"] BY <1>1, <2>1, <2>2 DEF LineInv
  <2> QED BY <1>5, <1>8, <1>9, <2>3, <2>4 DEF LineInv, IrLine
<1>11. CASE Head(replay) # NoCmd
  <2>1. Head(replay) \in Command /\ Install(Head(replay)) /\ Lives("replay", Head(replay))
    BY <1>4, <1>11 DEF ReplayRecovered, Slot, Lives
  <2>2. IsIr(Head(replay)) => rt["ir"] < Head(replay).id BY <1>4 DEF LineInv, IrLine
  <2>3. /\ rt'["ir"] >= rt["ir"] /\ rt'["ir"] <= issued'
        /\ \A d : /\ IsIr(d) /\ rt["ir"] < d.id
                  /\ (IsIr(Head(replay)) => Head(replay).id < d.id)
                  => rt'["ir"] < d.id
    BY <1>1, <2>1, <2>2, LineInstall
  <2>4. ASSUME NEW c \in RangeOf(replay') \cup RangeOf(ring), IsIr(c)
        PROVE  rt'["ir"] < c.id
    <3>1. rt["ir"] < c.id BY <1>4, <2>4 DEF LineInv, IrLine
    <3>2. IsIr(Head(replay)) => Head(replay).id < c.id
      BY <1>4, <1>5, <2>4 DEF IrBefore, LineInv, IrLine
    <3> QED BY <2>3, <2>4, <3>1, <3>2
  <2>5. ASSUME NEW c \in SlotSet(held), IsIr(c), IsIr(Head(replay))
        PROVE  Head(replay).id < c.id
    <3>1. c = held /\ c.id = issued /\ Lives("held", c)
      BY <2>5 DEF SlotSet, IsIr, CInv, HInv, SlotKinds, Lives
    <3>2. Head(replay).id \in 1..issued /\ Head(replay).id # c.id
      BY <2>1, <2>5, <3>1 DEF CInv, HInv, Bounded, Apart, IsIr, IsStructural
    <3> QED BY <3>1, <3>2, Facts
  <2>6. ASSUME NEW c \in SlotSet(held), IsIr(c)
        PROVE  rt'["ir"] < c.id
    <3>1. rt["ir"] < c.id BY <2>6 DEF LineInv, IrLine
    <3> QED BY <2>3, <2>5, <2>6, <3>1
  <2> QED BY <1>1, <1>3, <1>5, <1>6, <1>7, <1>8, <1>9, <2>3, <2>4, <2>6 DEF LineInv, IrLine
<1> QED BY <1>10, <1>11

(* A step of a drain: nothing is recovered, the front gives up its         *)
(* command, installed or not, and takes one from the ring at most.         *)
LEMMA LineDrain ==
  ASSUME CInv, LineInv, phase = "active", replay = << >>, issued' = issued,
         UNCHANGED <<phase, replay, staged, held, failures>>,
         IrSorted(ring'), RangeOf(ring') \subseteq RangeOf(ring),
         Front' \subseteq Front \cup RangeOf(ring), IrBefore(Front', RangeOf(ring')),
         \/ rt' = rt
         \/ \E c \in Command : \E p :
              /\ Install(c) /\ Lives(p, c) /\ p # "held"
              /\ IsIr(c) => rt["ir"] < c.id
              /\ \A d \in Front' \cup RangeOf(ring') : IsIr(c) /\ IsIr(d) => c.id < d.id
  PROVE  LineInv' /\ rt'["ir"] >= rt["ir"]
<1>1. staged = << >> /\ RangeOf(<< >>) = {} /\ IrSorted(<< >>)
  BY DEF LineInv, RecoveredShape, RangeOf, IrSorted
<1>2. RecoveredShape' BY <1>1 DEF RecoveredShape
<1>3. \A d \in Front' \cup RangeOf(ring') \cup SlotSet(held) : IsIr(d) => rt["ir"] < d.id
  BY DEF LineInv, IrLine
<1>4. rt["ir"] \in Nat
  <2>1. rt \in [Resources -> Nat] BY DEF CInv, IInv, TypeOK
  <2> QED BY <2>1 DEF Resources
<1>5. /\ rt'["ir"] >= rt["ir"] /\ rt'["ir"] <= issued'
      /\ \A d \in Front' \cup RangeOf(ring') \cup SlotSet(held) : IsIr(d) => rt'["ir"] < d.id
  <2>1. CASE rt' = rt BY <1>3, <1>4, <2>1 DEF LineInv
  <2>2. ASSUME NEW c \in Command, NEW p, Install(c), Lives(p, c), p # "held",
               IsIr(c) => rt["ir"] < c.id,
               \A d \in Front' \cup RangeOf(ring') : IsIr(c) /\ IsIr(d) => c.id < d.id
        PROVE  /\ rt'["ir"] >= rt["ir"] /\ rt'["ir"] <= issued'
               /\ \A d \in Front' \cup RangeOf(ring') \cup SlotSet(held) :
                    IsIr(d) => rt'["ir"] < d.id
    <3>1. /\ rt'["ir"] >= rt["ir"] /\ rt'["ir"] <= issued'
          /\ \A d : IsIr(d) /\ rt["ir"] < d.id /\ (IsIr(c) => c.id < d.id) => rt'["ir"] < d.id
      BY <2>2, LineInstall
    <3>2. ASSUME NEW d \in SlotSet(held), IsIr(d), IsIr(c) PROVE c.id < d.id
      <4>1. d = held /\ d.id = issued /\ Lives("held", d)
        BY <3>2 DEF SlotSet, IsIr, CInv, HInv, SlotKinds, Lives
      <4>2. c.id \in 1..issued /\ c.id # d.id
        BY <2>2, <3>2, <4>1 DEF CInv, HInv, Bounded, Apart, IsIr, IsStructural
      <4> QED BY <4>1, <4>2, Facts
    <3> QED BY <1>3, <2>2, <3>1, <3>2
  <2> QED BY <2>1, <2>2
<1>6. IrLine' BY <1>1, <1>5 DEF IrLine
<1> QED BY <1>2, <1>5, <1>6 DEF LineInv

(* The parked command is older than the ring.                              *)
LEMMA LineBeginDrain ==
  ASSUME CInv, LineInv, BeginDrain
  PROVE  LineInv' /\ rt'["ir"] >= rt["ir"]
<1>1. /\ phase = "active" /\ replay = << >> /\ issued' = issued /\ ring' = ring
      /\ UNCHANGED <<phase, replay, staged, held, failures>>
      /\ parked' = NoCmd /\ drain'.candidate = NoCmd
  BY DEF BeginDrain, mainVars, faultVars
<1>2. Front' = {} BY <1>1 DEF Front, SlotSet
<1>3. rt' = rt \/ (parked # NoCmd /\ Install(parked)) BY DEF BeginDrain
<1>4. ASSUME parked # NoCmd
      PROVE  /\ parked \in Command /\ Lives("parked", parked)
             /\ IsIr(parked) => rt["ir"] < parked.id
             /\ \A d \in RangeOf(ring) : IsIr(parked) /\ IsIr(d) => parked.id < d.id
  BY <1>4, Facts DEF Slot, Lives, LineInv, IrLine, IrBefore, Front, SlotSet
<1>5. IrSorted(ring') /\ IrBefore(Front', RangeOf(ring'))
  BY <1>1, <1>2 DEF LineInv, IrLine, IrBefore
<1>6. \/ rt' = rt
      \/ \E c \in Command : \E p :
           /\ Install(c) /\ Lives(p, c) /\ p # "held"
           /\ IsIr(c) => rt["ir"] < c.id
           /\ \A d \in Front' \cup RangeOf(ring') : IsIr(c) /\ IsIr(d) => c.id < d.id
  BY <1>1, <1>2, <1>3, <1>4
<1> QED BY <1>1, <1>2, <1>5, <1>6, LineDrain

(* What a pop leaves in the ring, and the head it takes.                   *)
LEMMA LinePopped ==
  ASSUME CInv, LineInv, PopHead
  PROVE  /\ IrSorted(ring') /\ RangeOf(ring') \subseteq RangeOf(ring)
         /\ Head(ring) \in RangeOf(ring) /\ IrBefore({Head(ring)}, RangeOf(ring'))
         /\ replay = << >>
<1>1. ring \in Seq(Command) /\ ring # << >> /\ ring' = Tail(ring) /\ drain.on
  BY Facts DEF PopHead, CanPop
<1>2. Head(ring) \in RangeOf(ring) /\ RangeOf(ring') \subseteq RangeOf(ring)
  BY <1>1, TailRange
<1>3. IrSorted(ring') /\ IrBefore({Head(ring)}, RangeOf(ring'))
  BY <1>1, IrTail DEF LineInv, IrLine
<1>4. replay = << >> BY <1>1 DEF LineInv, RecoveredShape
<1> QED BY <1>2, <1>3, <1>4

(* A pop installs a candidate older than the head it makes way for.        *)
LEMMA LinePop ==
  ASSUME CInv, LineInv, PopLight \/ PopFirst \/ PopSuperseding \/ PopFlushing
  PROVE  LineInv' /\ rt'["ir"] >= rt["ir"]
<1>1. /\ PopHead /\ issued' = issued
      /\ UNCHANGED <<phase, replay, staged, held, failures, parked>>
  BY DEF PopLight, PopFirst, PopSuperseding, PopFlushing, mainVars, faultVars
<1>2. /\ IrSorted(ring') /\ RangeOf(ring') \subseteq RangeOf(ring)
      /\ Head(ring) \in RangeOf(ring) /\ IrBefore({Head(ring)}, RangeOf(ring'))
      /\ replay = << >>
  BY <1>1, LinePopped
<1>3. /\ Lives("ring", Head(ring)) /\ Head(ring) \in Command /\ Head(ring) # NoCmd
      /\ phase = "active" /\ parked = NoCmd
  BY <1>1, PopRange
<1>4. CASE PopLight
  <2>1. drain'.candidate = drain.candidate BY <1>4, Facts DEF PopLight, Drain
  <2>2. Front' = Front BY <1>1, <2>1 DEF Front
  <2>3. IrBefore(Front', RangeOf(ring')) BY <1>2, <2>2 DEF LineInv, IrLine, IrBefore
  <2>4. Install(Head(ring)) /\ ~IsIr(Head(ring))
    BY <1>4 DEF PopLight, IsIr, IsStructural
  <2>5. \/ rt' = rt
        \/ \E c \in Command : \E p :
             /\ Install(c) /\ Lives(p, c) /\ p # "held"
             /\ IsIr(c) => rt["ir"] < c.id
             /\ \A d \in Front' \cup RangeOf(ring') : IsIr(c) /\ IsIr(d) => c.id < d.id
    BY <1>3, <2>4
  <2> QED BY <1>1, <1>2, <1>3, <2>2, <2>3, <2>5, LineDrain
<1>5. CASE PopFirst \/ PopSuperseding \/ PopFlushing
  <2>1. drain'.candidate = Head(ring)
    BY <1>5, Facts DEF PopFirst, PopSuperseding, PopFlushing, Drain
  <2>2. Front' = {Head(ring)} BY <1>1, <1>3, <2>1 DEF Front, SlotSet
  <2>3. rt' = rt \/ (drain.candidate # NoCmd /\ Install(drain.candidate))
    BY <1>5 DEF PopFirst, PopSuperseding, PopFlushing
  <2>4. ASSUME drain.candidate # NoCmd
        PROVE  /\ drain.candidate \in Command /\ Lives("candidate", drain.candidate)
               /\ IsIr(drain.candidate) => rt["ir"] < drain.candidate.id
               /\ \A d \in RangeOf(ring) :
                    IsIr(drain.candidate) /\ IsIr(d) => drain.candidate.id < d.id
    BY <2>4, Facts DEF Slot, Lives, LineInv, IrLine, IrBefore, Front, SlotSet
  <2>5. \/ rt' = rt
        \/ \E c \in Command : \E p :
             /\ Install(c) /\ Lives(p, c) /\ p # "held"
             /\ IsIr(c) => rt["ir"] < c.id
             /\ \A d \in Front' \cup RangeOf(ring') : IsIr(c) /\ IsIr(d) => c.id < d.id
    BY <1>2, <2>2, <2>3, <2>4
  <2>6. IrBefore(Front', RangeOf(ring')) /\ Front' \subseteq Front \cup RangeOf(ring)
    BY <1>2, <2>2
  <2> QED BY <1>1, <1>2, <1>3, <2>5, <2>6, LineDrain
<1> QED BY <1>4, <1>5

(* The candidate is older than what stays in the ring.                     *)
LEMMA LineEndDrain ==
  ASSUME CInv, LineInv, EndDrain \/ EndDrainParking
  PROVE  LineInv' /\ rt'["ir"] >= rt["ir"]
<1>1. /\ drain.on /\ issued' = issued /\ ring' = ring /\ drain'.candidate = NoCmd
      /\ UNCHANGED <<phase, replay, staged, held, failures>>
  BY DEF EndDrain, EndDrainParking, mainVars, faultVars, IdleDrain
<1>2. phase = "active" /\ parked = NoCmd /\ replay = << >>
  BY <1>1 DEF CInv, IInv, Ledger, DrainShape, LineInv, RecoveredShape
<1>3. \/ Front' = {} /\ (rt' = rt \/ (drain.candidate # NoCmd /\ Install(drain.candidate)))
      \/ Front' = Front /\ rt' = rt
  <2>1. CASE EndDrain
    <3>1. parked' = NoCmd BY <1>2, <2>1 DEF EndDrain
    <3> QED BY <1>1, <2>1, <3>1 DEF EndDrain, Front, SlotSet
  <2>2. CASE EndDrainParking
    <3>1. parked' = drain.candidate /\ rt' = rt BY <2>2 DEF EndDrainParking
    <3> QED BY <1>1, <1>2, <3>1 DEF Front, SlotSet
  <2> QED BY <2>1, <2>2
<1>4. ASSUME drain.candidate # NoCmd
      PROVE  /\ drain.candidate \in Command /\ Lives("candidate", drain.candidate)
             /\ IsIr(drain.candidate) => rt["ir"] < drain.candidate.id
             /\ \A d \in RangeOf(ring) :
                  IsIr(drain.candidate) /\ IsIr(d) => drain.candidate.id < d.id
  BY <1>4, Facts DEF Slot, Lives, LineInv, IrLine, IrBefore, Front, SlotSet
<1>5. IrSorted(ring') /\ IrBefore(Front', RangeOf(ring')) /\ Front' \subseteq Front
  BY <1>1, <1>3 DEF LineInv, IrLine, IrBefore
<1>6. \/ rt' = rt
      \/ \E c \in Command : \E p :
           /\ Install(c) /\ Lives(p, c) /\ p # "held"
           /\ IsIr(c) => rt["ir"] < c.id
           /\ \A d \in Front' \cup RangeOf(ring') : IsIr(c) /\ IsIr(d) => c.id < d.id
  BY <1>1, <1>3, <1>4
<1> QED BY <1>1, <1>2, <1>5, <1>6, LineDrain

(* The audio thread stops, or a processor is built: commands change place, *)
(* none is installed.                                                      *)
LEMMA LineStops ==
  ASSUME CInv, LineInv, Panic \/ Deactivate \/ FinishActivate
  PROVE  LineInv' /\ rt' = rt
<1>1. rt' = rt /\ issued' = issued /\ UNCHANGED <<ring, held, failures>>
  BY DEF Panic, Deactivate, FinishActivate, mainVars, histVars, faultVars
<1>2. RangeOf(<< >>) = {} /\ IrSorted(<< >>) BY DEF RangeOf, IrSorted
<1>3. /\ parked' = parked \/ parked' = NoCmd
      /\ drain'.candidate = drain.candidate \/ drain'.candidate = NoCmd
      /\ drain'.on => drain.on
      /\ \/ staged' = staged /\ (replay' = replay \/ replay' = << >>)
         \/ staged' = << >> /\ replay' = staged
  BY DEF Panic, Deactivate, FinishActivate, IdleDrain
<1>4. Front' \subseteq Front BY <1>3 DEF Front, SlotSet
<1>5. IrLine' BY <1>1, <1>2, <1>3, <1>4 DEF LineInv, IrLine, IrBefore
<1>6. RecoveredShape'
  <2>1. CASE Panic
    <3>1. /\ phase \in {"active", "replaying"}
          /\ staged' = staged /\ parked' = parked /\ drain' = IdleDrain /\ phase' = "poisoned"
          /\ replay' = replay \/ replay' = << >>
      BY <2>1 DEF Panic, Alive
    <3> QED BY <1>1, <3>1 DEF LineInv, RecoveredShape, IdleDrain
  <2>2. CASE Deactivate
    <3>1. phase' = "inactive" /\ replay' = << >> /\ staged' = staged BY <2>2 DEF Deactivate
    <3> QED BY <1>1, <3>1 DEF LineInv, RecoveredShape
  <2>3. CASE FinishActivate
    <3>1. /\ phase = "activating" /\ phase' = "active" /\ replay' = staged /\ staged' = << >>
          /\ parked' = parked /\ drain' = drain
      BY <2>3 DEF FinishActivate
    <3>2. parked = NoCmd /\ ~drain.on
      BY <3>1 DEF CInv, IInv, Ledger, ParkedShape, DrainShape
    <3> QED BY <1>1, <3>1, <3>2 DEF LineInv, RecoveredShape
  <2> QED BY <2>1, <2>2, <2>3
<1> QED BY <1>1, <1>5, <1>6 DEF LineInv

(* The one failed activation finds nothing recovered before it.            *)
LEMMA LineFails ==
  ASSUME CInv, LineInv, ActivateFails, MaxFailures <= 1
  PROVE  LineInv' /\ rt' = rt
<1>1. /\ failures < MaxFailures /\ failures' = failures + 1 /\ phase = "inactive"
      /\ ring' = << >> /\ staged' = Restage(ring, staged)
      /\ UNCHANGED <<held, phase, parked, drain, replay, rt, issued>>
  BY DEF ActivateFails, audioVars
<1>2. failures = 0
  BY <1>1, ChannelAssumption DEF CInv, IInv, TypeOK
<1>3. staged = << >> /\ replay = << >> BY <1>2 DEF LineInv, RecoveredShape
<1>4. RangeOf(<< >>) = {} /\ IrSorted(<< >>) /\ << >> \in Seq(Slot)
  BY DEF RangeOf, IrSorted
<1>5. parked = NoCmd /\ drain.candidate = NoCmd
  BY <1>1 DEF CInv, IInv, Ledger, ParkedShape, DrainShape
<1>6. IrSorted(staged') BY <1>1, <1>3, Facts, IrRestage DEF LineInv, IrLine
<1>7. \A c \in RangeOf(staged') : IsIr(c) => c \in RangeOf(ring)
  BY <1>1, <1>3, <1>4, Facts, RestageRange DEF IsIr
<1>8. Front' = {} BY <1>1, <1>5 DEF Front, SlotSet
<1>9. IrLine' BY <1>1, <1>3, <1>4, <1>6, <1>7, <1>8 DEF LineInv, IrLine, IrBefore
<1>10. RecoveredShape'
  <2>1. failures' # 0 BY <1>1, <1>2
  <2> QED BY <1>1, <1>3, <2>1 DEF RecoveredShape
<1> QED BY <1>1, <1>9, <1>10 DEF LineInv

(* The line holds at first and through every step.                         *)
LEMMA LineInit == Init => LineInv
<1> SUFFICES ASSUME Init PROVE LineInv OBVIOUS
<1>1. RangeOf(<< >>) = {} /\ IrSorted(<< >>) BY DEF RangeOf, IrSorted
<1>2. Front = {} /\ SlotSet(held) = {} BY DEF Init, Front, SlotSet, IdleDrain
<1>3. rt["ir"] <= issued BY DEF Init, Resources
<1> QED BY <1>1, <1>2, <1>3 DEF Init, LineInv, RecoveredShape, IrLine, IrBefore

LEMMA LineStep ==
  ASSUME MaxFailures <= 1
  PROVE  CInv /\ LineInv /\ [Next]_vars => LineInv' /\ rt'["ir"] >= rt["ir"]
<1> SUFFICES ASSUME CInv, LineInv, [Next]_vars PROVE LineInv' /\ rt'["ir"] >= rt["ir"]
  OBVIOUS
<1>1. rt' = rt => rt'["ir"] >= rt["ir"]
  <2>1. rt \in [Resources -> Nat] BY DEF CInv, IInv, TypeOK
  <2>2. rt["ir"] \in Nat BY <2>1 DEF Resources
  <2> QED BY <2>2
<1>2. CASE MainNext BY <1>1, <1>2, LineMain
<1>3. CASE DrainNext
  BY <1>3, LineReplay, LineBeginDrain, LinePop, LineEndDrain DEF DrainNext
<1>4. CASE Panic BY <1>1, <1>4, LineStops
<1>5. CASE LifecycleNext BY <1>1, <1>5, LineMain, LineStops, LineFails DEF LifecycleNext
<1>6. CASE UNCHANGED vars
  BY <1>1, <1>6
  DEF vars, mainVars, audioVars, faultVars, LineInv, RecoveredShape, IrLine, Front
<1> QED BY <1>2, <1>3, <1>4, <1>5, <1>6 DEF Next

(* With at most one failed activation no step puts an older impulse        *)
(* response over a newer one: deferral, coalescing, parking and replay     *)
(* keep the order in which the responses were chosen.                      *)
THEOREM IrIsNeverStale ==
  ASSUME MaxFailures <= 1
  PROVE  Spec => NoStaleIr
<1>1. Init => LineInv BY LineInit
<1>2. CInv /\ LineInv /\ [Next]_vars => LineInv' BY LineStep
<1>3. CInv /\ LineInv /\ [Next]_vars => [rt'["ir"] >= rt["ir"]]_vars BY LineStep
<1> QED BY <1>1, <1>2, <1>3, HomesInvariant, PTL DEF Spec, NoStaleIr

=============================================================================
