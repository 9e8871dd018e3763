--------------------------- MODULE ParamSyncProofs ---------------------------
(***************************************************************************)
(* Proofs about ParamSync, for every set of values and every bound.        *)
(*                                                                         *)
(* Both properties speak of moments at which no GUI callback is under way. *)
(* What carries them through one is the order of its atomic operations: a  *)
(* store is followed by the flag that echoes it and by the bump that makes *)
(* the processor read it.                                                  *)
(***************************************************************************)
EXTENDS ParamSync, TLAPS

FlagNames == {"begin", "changed", "end"}
Snapshot == [Params -> Values]
Op ==
  [op : {"store"}, param : Params, value : Values]
    \cup [op : {"flag"}, param : Params, flag : FlagNames] \cup {Bump}
Call ==
  [kind : Kinds \cup {"none"}, events : HostEvents, slots : Seq(Params \X FlagNames),
   next : {"echo", "sync", "events"}, read : Nat]

Shapes ==
  /\ gui \in Seq(Op) /\ call \in Call
  /\ ring \in Seq(Snapshot) /\ in_flight \in Snapshot \cup {None}
  /\ generation \in Nat /\ seen \in Nat
  /\ call.kind = "main_flush" => ~active
  /\ active \in BOOLEAN

(* The rest of a callback still sets the flag, still bumps.                *)
EchoComes(s, p) ==
  \E i \in 1..Len(s) : s[i].op = "flag" /\ s[i].param = p /\ s[i].flag = "changed"
BumpComes(s) == \E i \in 1..Len(s) : s[i].op = "bump"

(* A store is followed by both.                                            *)
Followed(s) ==
  \A i \in 1..Len(s) : s[i].op = "store" =>
    /\ \E j \in i + 1..Len(s) :
         s[j].op = "flag" /\ s[j].param = s[i].param /\ s[j].flag = "changed"
    /\ \E j \in i + 1..Len(s) : s[j].op = "bump"

EchoIsDue ==
  \A p \in Continuous : told[p] = shared[p] \/ "changed" \in flags[p] \/ EchoComes(gui, p)
SyncIsDue ==
  active /\ agreed = "yes" => rt = shared \/ seen < generation \/ BumpComes(gui)

IInv == TypeOK /\ Shapes /\ Followed(gui) /\ EchoIsDue /\ SyncIsDue

-----------------------------------------------------------------------------
(* Lemmas about callbacks.                                                 *)

LEMMA TailFacts ==
  ASSUME NEW s \in Seq(Op), s # << >>
  PROVE  /\ Len(s) \in Nat /\ Len(s) >= 1 /\ Head(s) = s[1] /\ Head(s) \in Op
         /\ Len(Tail(s)) = Len(s) - 1 /\ Tail(s) \in Seq(Op)
         /\ \A i \in 1..Len(s) - 1 : Tail(s)[i] = s[i + 1]
OBVIOUS

LEMMA FollowedTail ==
  ASSUME NEW s \in Seq(Op), s # << >>, Followed(s)
  PROVE  Followed(Tail(s))
<1>1. /\ Len(s) \in Nat /\ Len(Tail(s)) = Len(s) - 1
      /\ \A i \in 1..Len(s) - 1 : Tail(s)[i] = s[i + 1]
  BY TailFacts
<1>2. SUFFICES ASSUME NEW i \in 1..Len(Tail(s)), Tail(s)[i].op = "store"
               PROVE  /\ \E j \in i + 1..Len(Tail(s)) :
                           /\ Tail(s)[j].op = "flag" /\ Tail(s)[j].param = Tail(s)[i].param
                           /\ Tail(s)[j].flag = "changed"
                      /\ \E j \in i + 1..Len(Tail(s)) : Tail(s)[j].op = "bump"
  BY DEF Followed
<1>3. i + 1 \in 1..Len(s) /\ s[i + 1].op = "store" /\ Tail(s)[i] = s[i + 1] BY <1>1, <1>2
<1>4. PICK j \in (i + 1) + 1..Len(s) :
        s[j].op = "flag" /\ s[j].param = s[i + 1].param /\ s[j].flag = "changed"
  BY <1>3 DEF Followed
<1>5. PICK k \in (i + 1) + 1..Len(s) : s[k].op = "bump" BY <1>3 DEF Followed
<1>6. /\ j - 1 \in i + 1..Len(Tail(s)) /\ Tail(s)[j - 1] = s[j]
      /\ k - 1 \in i + 1..Len(Tail(s)) /\ Tail(s)[k - 1] = s[k]
  BY <1>1, <1>4, <1>5
<1> QED BY <1>3, <1>4, <1>5, <1>6

(* The operation a callback starts with is done; what it promised stays.   *)
LEMMA HeadStore ==
  ASSUME NEW s \in Seq(Op), s # << >>, Followed(s), Head(s).op = "store"
  PROVE  EchoComes(Tail(s), Head(s).param) /\ BumpComes(Tail(s))
<1>1. /\ Len(s) \in Nat /\ Len(s) >= 1 /\ Head(s) = s[1] /\ Len(Tail(s)) = Len(s) - 1
      /\ \A i \in 1..Len(s) - 1 : Tail(s)[i] = s[i + 1]
  BY TailFacts
<1>2. PICK j \in 1 + 1..Len(s) :
        s[j].op = "flag" /\ s[j].param = s[1].param /\ s[j].flag = "changed"
  BY <1>1 DEF Followed
<1>3. PICK k \in 1 + 1..Len(s) : s[k].op = "bump" BY <1>1 DEF Followed
<1>4. /\ j - 1 \in 1..Len(Tail(s)) /\ Tail(s)[j - 1] = s[j]
      /\ k - 1 \in 1..Len(Tail(s)) /\ Tail(s)[k - 1] = s[k]
  BY <1>1, <1>2, <1>3
<1> QED BY <1>1, <1>2, <1>3, <1>4 DEF EchoComes, BumpComes

LEMMA EchoStays ==
  ASSUME NEW s \in Seq(Op), s # << >>, NEW p, EchoComes(s, p)
  PROVE  \/ EchoComes(Tail(s), p)
         \/ Head(s).op = "flag" /\ Head(s).param = p /\ Head(s).flag = "changed"
<1>1. /\ Len(s) \in Nat /\ Len(s) >= 1 /\ Head(s) = s[1] /\ Len(Tail(s)) = Len(s) - 1
      /\ \A i \in 1..Len(s) - 1 : Tail(s)[i] = s[i + 1]
  BY TailFacts
<1>2. PICK i \in 1..Len(s) : s[i].op = "flag" /\ s[i].param = p /\ s[i].flag = "changed"
  BY DEF EchoComes
<1>3. CASE i = 1 BY <1>1, <1>2, <1>3
<1>4. CASE i # 1
  <2>1. i - 1 \in 1..Len(Tail(s)) /\ Tail(s)[i - 1] = s[i] BY <1>1, <1>4
  <2> QED BY <1>2, <2>1 DEF EchoComes
<1> QED BY <1>3, <1>4

LEMMA BumpStays ==
  ASSUME NEW s \in Seq(Op), s # << >>, BumpComes(s)
  PROVE  BumpComes(Tail(s)) \/ Head(s).op = "bump"
<1>1. /\ Len(s) \in Nat /\ Len(s) >= 1 /\ Head(s) = s[1] /\ Len(Tail(s)) = Len(s) - 1
      /\ \A i \in 1..Len(s) - 1 : Tail(s)[i] = s[i + 1]
  BY TailFacts
<1>2. PICK i \in 1..Len(s) : s[i].op = "bump" BY DEF BumpComes
<1>3. CASE i = 1 BY <1>1, <1>2, <1>3
<1>4. CASE i # 1
  <2>1. i - 1 \in 1..Len(Tail(s)) /\ Tail(s)[i - 1] = s[i] BY <1>1, <1>4
  <2> QED BY <1>2, <2>1 DEF BumpComes
<1> QED BY <1>3, <1>4

(* Every callback of the GUI keeps the order.                              *)
LEMMA CallbacksAreFollowed ==
  ASSUME NEW p \in Params, NEW v \in Values, NEW f \in FlagNames
  PROVE  /\ <<Flag(p, f)>> \in Seq(Op) /\ Followed(<<Flag(p, f)>>)
         /\ SliderMoved(p, v) \in Seq(Op) /\ Followed(SliderMoved(p, v))
         /\ Chosen(p, v) \in Seq(Op) /\ Followed(Chosen(p, v))
<1>1. /\ \A g \in FlagNames : Flag(p, g) \in Op /\ Flag(p, g).op = "flag"
                              /\ Flag(p, g).param = p /\ Flag(p, g).flag = g
      /\ Store(p, v) \in Op /\ Store(p, v).op = "store" /\ Store(p, v).param = p
      /\ Bump \in Op /\ Bump.op = "bump"
      /\ FlagNames = {"begin", "changed", "end"}
  BY DEF Op, Flag, Store, Bump, FlagNames
<1>2. <<Flag(p, f)>> \in Seq(Op) /\ Followed(<<Flag(p, f)>>) BY <1>1 DEF Followed
<1>3. SliderMoved(p, v) \in Seq(Op) /\ Followed(SliderMoved(p, v))
  BY <1>1 DEF Followed, SliderMoved
<1>4. Chosen(p, v) \in Seq(Op) /\ Followed(Chosen(p, v))
  BY <1>1 DEF Followed, Chosen
<1> QED BY <1>2, <1>3, <1>4

LEMMA SlotsType == Slots \in Seq(Params \X FlagNames)
BY DEF Slots, Params, Continuous, Discrete, FlagNames

LEMMA InitInv == Init => IInv
<1> SUFFICES ASSUME Init PROVE IInv OBVIOUS
<1> USE DEF Init
<1>1. Defaults \in Snapshot BY ParamAssumption DEF Defaults, Snapshot
<1>2. NoCall \in Call BY DEF NoCall, Call, HostEvents
<1>3. ring = << >> /\ Len(ring) = 0 /\ RingCap \in Nat BY ParamAssumption
<1>4. TypeOK BY <1>1, <1>3 DEF TypeOK, Snapshot, NoCall
<1>5. Shapes
  <2>1. << >> \in Seq(Op) /\ << >> \in Seq(Snapshot) OBVIOUS
  <2>2. call.kind = "none" BY DEF NoCall
  <2> QED BY <1>2, <2>1, <2>2 DEF Shapes
<1>6. Followed(gui) BY DEF Followed
<1>7. EchoIsDue /\ SyncIsDue BY DEF EchoIsDue, SyncIsDue
<1> QED BY <1>4, <1>5, <1>6, <1>7 DEF IInv

-----------------------------------------------------------------------------
(* The GUI.                                                                *)

LEMMA CallbackInv ==
  ASSUME IInv, NEW ops \in Seq(Op), Followed(ops), GuiCallback(ops)
  PROVE  IInv'
<1>1. /\ gui = << >> /\ gui' = ops
      /\ UNCHANGED <<shared, generation, flags, lifeVars, rtVars, mainVars, ring, call, hostVars>>
  BY DEF GuiCallback
<1>2. TypeOK' BY <1>1 DEF IInv, TypeOK, rtVars, mainVars, hostVars
<1>3. Shapes' BY <1>1 DEF IInv, Shapes, lifeVars, rtVars, mainVars
<1>4. ~BumpComes(gui) /\ \A p : ~EchoComes(gui, p) BY <1>1 DEF BumpComes, EchoComes
<1>5. EchoIsDue' BY <1>1, <1>4 DEF IInv, EchoIsDue, hostVars
<1>6. SyncIsDue' BY <1>1, <1>4 DEF IInv, SyncIsDue, lifeVars, rtVars
<1> QED BY <1>1, <1>2, <1>3, <1>5, <1>6 DEF IInv

LEMMA BeginCallbackInv ==
  ASSUME IInv,
         \/ \E p \in Continuous :
              GestureBegin(p) \/ GestureEnd(p) \/ \E v \in Values : GainChanged(p, v)
         \/ \E p \in Discrete, v \in Values : DiscreteChanged(p, v)
  PROVE  IInv'
<1>1. Continuous \subseteq Params /\ Discrete \subseteq Params BY DEF Params
<1>2. "begin" \in FlagNames /\ "end" \in FlagNames /\ 0 \in Values
  BY ParamAssumption DEF FlagNames
<1>3. ASSUME NEW p \in Continuous, GestureBegin(p) PROVE IInv'
  <2>1. <<Flag(p, "begin")>> \in Seq(Op) /\ Followed(<<Flag(p, "begin")>>)
    BY <1>1, <1>2, CallbacksAreFollowed
  <2> QED BY <1>3, <2>1, CallbackInv DEF GestureBegin
<1>4. ASSUME NEW p \in Continuous, GestureEnd(p) PROVE IInv'
  <2>1. <<Flag(p, "end")>> \in Seq(Op) /\ Followed(<<Flag(p, "end")>>)
    BY <1>1, <1>2, CallbacksAreFollowed
  <2> QED BY <1>4, <2>1, CallbackInv DEF GestureEnd
<1>5. ASSUME NEW p \in Continuous, NEW v \in Values, GainChanged(p, v) PROVE IInv'
  <2>1. SliderMoved(p, v) \in Seq(Op) /\ Followed(SliderMoved(p, v))
    BY <1>1, <1>2, CallbacksAreFollowed
  <2> QED BY <1>5, <2>1, CallbackInv DEF GainChanged
<1>6. ASSUME NEW p \in Discrete, NEW v \in Values, DiscreteChanged(p, v) PROVE IInv'
  <2>1. Chosen(p, v) \in Seq(Op) /\ Followed(Chosen(p, v))
    BY <1>1, <1>2, CallbacksAreFollowed
  <2> QED BY <1>6, <2>1, CallbackInv DEF DiscreteChanged
<1> QED BY <1>3, <1>4, <1>5, <1>6

(* One atomic operation.                                                   *)
LEMMA GuiStepInv ==
  ASSUME IInv, GuiStep
  PROVE  IInv'
<1> DEFINE o == Head(gui)
<1>1. /\ gui # << >> /\ gui' = Tail(gui)
      /\ shared' = IF o.op = "store" THEN [shared EXCEPT ![o.param] = o.value] ELSE shared
      /\ flags' = IF o.op = "flag" THEN [flags EXCEPT ![o.param] = @ \cup {o.flag}] ELSE flags
      /\ generation' = IF o.op = "bump" THEN generation + 1 ELSE generation
      /\ UNCHANGED <<lifeVars, rtVars, mainVars, ring, call, hostVars>>
  BY DEF GuiStep
<1>2. gui \in Seq(Op) /\ generation \in Nat /\ seen \in Nat /\ call.read \in Nat
  BY DEF IInv, Shapes, Call
<1>3. gui' \in Seq(Op) /\ o \in Op /\ Followed(gui')
  BY <1>1, <1>2, TailFacts, FollowedTail DEF IInv
<1>4. o.op = "store" => EchoComes(gui', o.param) /\ BumpComes(gui')
  BY <1>1, <1>2, HeadStore DEF IInv
<1>5. /\ \A p : EchoComes(gui, p) =>
            EchoComes(gui', p) \/ (o.op = "flag" /\ o.param = p /\ o.flag = "changed")
      /\ BumpComes(gui) => BumpComes(gui') \/ o.op = "bump"
  BY <1>1, <1>2, EchoStays, BumpStays
<1> HIDE DEF o
<1>6. /\ o.op = "store" => o.param \in Params /\ o.value \in Values
      /\ o.op = "flag" => o.param \in Params /\ o.flag \in FlagNames
  BY <1>3 DEF Op, Bump
<1>7. /\ shared \in [Params -> Values] /\ flags \in [Params -> SUBSET FlagNames]
      /\ seen <= generation /\ call.read <= generation
  BY DEF IInv, TypeOK, FlagNames
<1>8. shared' \in [Params -> Values] /\ flags' \in [Params -> SUBSET FlagNames]
  BY <1>1, <1>6, <1>7
<1>9. TypeOK'
  <2>1. seen <= generation' /\ call.read <= generation' BY <1>1, <1>2, <1>7
  <2>2. /\ rt \in [Params -> Values] /\ main \in [Params -> Values]
        /\ told \in [Params -> Values] /\ touched \subseteq Params /\ Len(ring) <= RingCap
    BY DEF IInv, TypeOK
  <2> QED BY <1>1, <1>8, <2>1, <2>2 DEF TypeOK, FlagNames, rtVars, mainVars, hostVars
<1>10. Shapes'
  <2>1. generation' \in Nat BY <1>1, <1>2
  <2> QED BY <1>1, <1>3, <2>1 DEF IInv, Shapes, lifeVars, rtVars, mainVars
<1>11. EchoIsDue'
  <2> SUFFICES ASSUME NEW p \in Continuous
               PROVE  told'[p] = shared'[p] \/ "changed" \in flags'[p] \/ EchoComes(gui', p)
    BY DEF EchoIsDue
  <2>1. told' = told BY <1>1 DEF hostVars
  <2>2. p \in Params BY DEF Params
  <2>3. flags[p] \subseteq flags'[p] BY <1>1, <1>7, <2>2
  <2>4. told[p] = shared[p] \/ "changed" \in flags[p] \/ EchoComes(gui, p)
    BY DEF IInv, EchoIsDue
  <2>5. CASE "changed" \in flags[p] BY <2>3, <2>5
  <2>6. CASE EchoComes(gui, p)
    <3>1. CASE o.op = "flag" /\ o.param = p /\ o.flag = "changed"
      <4>1. "changed" \in flags'[p] BY <1>1, <1>7, <2>2, <3>1
      <4> QED BY <4>1
    <3> QED BY <1>5, <2>6, <3>1
  <2>7. CASE told[p] = shared[p]
    <3>1. CASE o.op = "store" /\ o.param = p BY <1>4, <3>1
    <3>2. CASE ~(o.op = "store" /\ o.param = p)
      <4>1. shared'[p] = shared[p] BY <1>1, <1>7, <2>2, <3>2
      <4> QED BY <2>1, <2>7, <4>1
    <3> QED BY <3>1, <3>2
  <2> QED BY <2>4, <2>5, <2>6, <2>7
<1>12. SyncIsDue'
  <2> SUFFICES ASSUME active', agreed' = "yes"
               PROVE  rt' = shared' \/ seen' < generation' \/ BumpComes(gui')
    BY DEF SyncIsDue
  <2>1. UNCHANGED <<active, agreed, rt, seen>> BY <1>1 DEF lifeVars, rtVars
  <2>2. rt = shared \/ seen < generation \/ BumpComes(gui)
    BY <2>1 DEF IInv, SyncIsDue
  <2>3. CASE o.op = "store" BY <1>4, <2>3
  <2>4. CASE o.op = "bump" BY <1>1, <1>2, <1>7, <2>1, <2>4
  <2>5. CASE o.op \notin {"store", "bump"}
    <3>1. shared' = shared /\ generation' = generation BY <1>1, <2>5
    <3> QED BY <1>5, <2>1, <2>2, <2>5, <3>1
  <2> QED BY <2>3, <2>4, <2>5
<1> QED BY <1>3, <1>9, <1>10, <1>11, <1>12 DEF IInv

-----------------------------------------------------------------------------
(* The callbacks of the host.                                              *)

LEMMA CallType ==
  ASSUME IInv
  PROVE  /\ call.kind \in Kinds \cup {"none"} /\ call.events \in HostEvents
         /\ call.slots \in Seq(Params \X FlagNames) /\ call.read \in Nat
         /\ call.next \in {"echo", "sync", "events"}
         /\ call = [kind |-> call.kind, events |-> call.events, slots |-> call.slots,
                    next |-> call.next, read |-> call.read]
         /\ NoCall \in Call /\ NoCall.kind = "none" /\ NoCall.read = 0
<1>1. call \in Call BY DEF IInv, Shapes
<1>2. << >> \in HostEvents /\ << >> \in Seq(Params \X FlagNames) BY DEF HostEvents
<1>3. NoCall \in Call /\ NoCall.kind = "none" /\ NoCall.read = 0 BY <1>2 DEF NoCall, Call
<1> QED BY <1>1, <1>3 DEF Call

(* What the proofs of the handlers use of the invariant.                   *)
LEMMA ValueTypes ==
  ASSUME IInv
  PROVE  /\ shared \in Snapshot /\ rt \in Snapshot /\ main \in Snapshot /\ told \in Snapshot
         /\ flags \in [Params -> SUBSET FlagNames] /\ touched \subseteq Params
         /\ ring \in Seq(Snapshot) /\ Len(ring) <= RingCap /\ RingCap \in Nat
         /\ in_flight \in Snapshot \cup {None}
         /\ generation \in Nat /\ seen \in Nat /\ call.read \in Nat
         /\ seen <= generation /\ call.read <= generation
BY CallType, ParamAssumption DEF IInv, TypeOK, Shapes, Snapshot, FlagNames

LEMMA StartCallInv ==
  ASSUME IInv, NEW kind \in Kinds, NEW es \in HostEvents, StartCall(kind, es)
  PROVE  IInv'
<1>1. /\ call = NoCall /\ (kind = "main_flush" <=> ~active)
      /\ UNCHANGED <<shared, generation, flags, guiVars, lifeVars, rtVars, mainVars, ring,
                     told, touched>>
  BY DEF StartCall
<1>2. PICK slots \in {<< >>, Slots} :
        call' = [NoCall EXCEPT !.kind = kind, !.events = es, !.slots = slots]
  BY DEF StartCall
<1>3. slots \in Seq(Params \X FlagNames)
  <2>1. << >> \in Seq(Params \X FlagNames) OBVIOUS
  <2> QED BY <1>2, <2>1, SlotsType
<1>4. call' = [kind |-> kind, events |-> es, slots |-> slots, next |-> "echo", read |-> 0]
  BY <1>2 DEF NoCall
<1>5. call' \in Call /\ call'.kind = kind /\ call'.read = 0 BY <1>3, <1>4 DEF Call
<1>6. TypeOK' BY <1>1, <1>5, ValueTypes DEF TypeOK, Snapshot, FlagNames, rtVars, mainVars
<1>7. Shapes' BY <1>1, <1>5 DEF IInv, Shapes, guiVars, lifeVars, rtVars, mainVars
<1>8. Followed(gui') /\ EchoIsDue' /\ SyncIsDue'
  BY <1>1 DEF IInv, EchoIsDue, SyncIsDue, guiVars, lifeVars, rtVars
<1> QED BY <1>6, <1>7, <1>8 DEF IInv

(* One flag becomes an event, or stays.                                    *)
LEMMA EchoSlotInv ==
  ASSUME IInv, EchoSlot
  PROVE  IInv'
<1> DEFINE p == Head(call.slots)[1]
           f == Head(call.slots)[2]
<1>1. /\ call.slots # << >>
      /\ UNCHANGED <<shared, generation, guiVars, lifeVars, rtVars, mainVars, ring, host_count>>
      /\ \/ call' = [call EXCEPT !.slots = Tail(@)] \/ call' = [call EXCEPT !.slots = << >>]
      /\ \/ UNCHANGED <<flags, told, touched>>
         \/ /\ flags' = [flags EXCEPT ![p] = @ \ {f}]
            /\ told' = IF f = "changed" THEN [told EXCEPT ![p] = Decoded(p, shared[p])]
                                        ELSE told
            /\ touched' \in {touched \cup {p}, touched \ {p}, touched}
  BY DEF EchoSlot, Retained
<1>2. Head(call.slots) \in Params \X FlagNames /\ Tail(call.slots) \in Seq(Params \X FlagNames)
  BY <1>1, CallType
<1>3. p \in Params /\ f \in FlagNames BY <1>2
<1> HIDE DEF p, f
<1>4. /\ call' \in Call /\ call'.kind = call.kind /\ call'.read = call.read
  <2>1. << >> \in Seq(Params \X FlagNames) OBVIOUS
  <2>2. PICK rest \in {Tail(call.slots), << >>} : call' = [call EXCEPT !.slots = rest] BY <1>1
  <2>3. rest \in Seq(Params \X FlagNames) BY <1>2, <2>1, <2>2
  <2>4. call \in Call BY DEF IInv, Shapes
  <2> QED BY <2>2, <2>3, <2>4 DEF Call
<1>5. told' \in Snapshot /\ flags' \in [Params -> SUBSET FlagNames] /\ touched' \subseteq Params
  <2>1. Decoded(p, shared[p]) \in Values BY <1>3, ValueTypes, ParamAssumption DEF Decoded, Snapshot
  <2> QED BY <1>1, <1>3, <2>1, ValueTypes DEF Snapshot
<1>6. TypeOK' BY <1>1, <1>4, <1>5, ValueTypes DEF TypeOK, Snapshot, FlagNames, rtVars, mainVars
<1>7. Shapes' BY <1>1, <1>4 DEF IInv, Shapes, guiVars, lifeVars, rtVars, mainVars
<1>8. EchoIsDue'
  <2> SUFFICES ASSUME NEW q \in Continuous
               PROVE  told'[q] = shared'[q] \/ "changed" \in flags'[q] \/ EchoComes(gui', q)
    BY DEF EchoIsDue
  <2>1. shared' = shared /\ gui' = gui BY <1>1 DEF guiVars
  <2>2. told[q] = shared[q] \/ "changed" \in flags[q] \/ EchoComes(gui, q)
    BY DEF IInv, EchoIsDue
  <2>3. q \in Params /\ q \notin Discrete BY DEF Params, Continuous, Discrete
  <2>4. CASE UNCHANGED <<flags, told, touched>> BY <2>1, <2>2, <2>4
  <2>5. CASE /\ flags' = [flags EXCEPT ![p] = @ \ {f}]
             /\ told' = IF f = "changed" THEN [told EXCEPT ![p] = Decoded(p, shared[p])]
                                         ELSE told
    <3>1. CASE p = q /\ f = "changed"
      <4>1. told'[q] = shared[q] BY <2>3, <2>5, <3>1, ValueTypes DEF Decoded, Snapshot
      <4> QED BY <2>1, <4>1
    <3>2. CASE ~(p = q /\ f = "changed")
      <4>1. told'[q] = told[q] /\ ("changed" \in flags[q] => "changed" \in flags'[q])
        BY <2>3, <2>5, <3>2, ValueTypes DEF Snapshot
      <4> QED BY <2>1, <2>2, <4>1
    <3> QED BY <3>1, <3>2
  <2> QED BY <1>1, <2>4, <2>5
<1>9. Followed(gui') /\ SyncIsDue'
  BY <1>1 DEF IInv, SyncIsDue, guiVars, lifeVars, rtVars
<1> QED BY <1>6, <1>7, <1>8, <1>9 DEF IInv

(* The generation is read, or the callback goes on.                        *)
LEMMA LoadType ==
  ASSUME IInv, LoadGeneration, generation' \in Nat, call.read <= generation'
  PROVE  /\ call' \in Call /\ call'.kind \in {call.kind, "none"}
         /\ call'.read \in Nat /\ call'.read <= generation'
<1>1. \/ call' = [call EXCEPT !.next = "sync", !.read = generation']
      \/ call' = NoCall
      \/ call' = [call EXCEPT !.next = "events"]
  BY DEF LoadGeneration, Return
<1>2. call \in Call BY DEF IInv, Shapes
<1>3. CASE call' = NoCall BY <1>3, CallType
<1>4. CASE call' = [call EXCEPT !.next = "sync", !.read = generation']
  <2>1. PICK n \in Nat : n = generation' OBVIOUS
  <2>2. call' = [call EXCEPT !.next = "sync", !.read = n] BY <1>4, <2>1
  <2>3. call' \in Call /\ call'.kind = call.kind /\ call'.read = n BY <1>2, <2>2 DEF Call
  <2> QED BY <2>1, <2>3
<1>5. CASE call' = [call EXCEPT !.next = "events"] BY <1>2, <1>5 DEF Call
<1> QED BY <1>1, <1>3, <1>4, <1>5

(* An event writes both sides and is what the host said.                   *)
LEMMA EventsAgree ==
  ASSUME IInv, ApplyEvents
  PROVE  /\ rt' \in Snapshot /\ shared' \in Snapshot /\ told' \in Snapshot
         /\ rt = shared => rt' = shared'
         /\ \A p \in Params : told[p] = shared[p] => told'[p] = shared'[p]
<1>1. CASE call.events = << >> BY <1>1, ValueTypes DEF ApplyEvents
<1>2. CASE call.events # << >>
  <2> DEFINE e == call.events[1]
  <2>1. e.param \in Params /\ e.value \in Values
    <3>1. PICK q \in Params, v \in Values : call.events = <<[param |-> q, value |-> v]>>
      BY <1>2, CallType DEF HostEvents
    <3> QED BY <3>1
  <2>2. /\ rt' = [rt EXCEPT ![e.param] = e.value]
        /\ shared' = [shared EXCEPT ![e.param] = e.value]
        /\ told' = [told EXCEPT ![e.param] = e.value]
    BY <1>2 DEF ApplyEvents
  <2> HIDE DEF e
  <2> QED BY <2>1, <2>2, ValueTypes DEF Snapshot
<1> QED BY <1>1, <1>2

(* A step that keeps or adds the justification of both properties.         *)
LEMMA DueStays ==
  ASSUME IInv, UNCHANGED <<flags, gui>>, generation' \in Nat, generation <= generation',
         active' = active, seen' = seen,
         agreed' = "yes" => agreed = "yes" /\ (rt = shared => rt' = shared'),
         \A p \in Params : told[p] = shared[p] => told'[p] = shared'[p]
  PROVE  Followed(gui') /\ EchoIsDue' /\ SyncIsDue'
<1>1. Continuous \subseteq Params BY DEF Params
<1>2. Followed(gui') BY DEF IInv
<1>3. EchoIsDue' BY <1>1 DEF IInv, EchoIsDue
<1>4. SyncIsDue' BY ValueTypes DEF IInv, SyncIsDue
<1> QED BY <1>2, <1>3, <1>4

LEMMA DrainInv ==
  ASSUME IInv, DrainSnapshots
  PROVE  IInv'
<1>1. /\ ring' = << >> /\ rt' = IF ring = << >> THEN rt ELSE ring[Len(ring)]
      /\ agreed' = IF ring = << >> /\ agreed = "yes" THEN "yes" ELSE "no"
      /\ LoadGeneration
      /\ UNCHANGED <<generation, shared, flags, guiVars, lifeVars, seen, mainVars, hostVars>>
  BY DEF DrainSnapshots
<1>2. /\ call' \in Call /\ call'.kind \in {call.kind, "none"}
      /\ call'.read \in Nat /\ call'.read <= generation'
  BY <1>1, LoadType, ValueTypes
<1>3. rt' \in Snapshot /\ ring' \in Seq(Snapshot) /\ Len(ring') <= RingCap
  BY <1>1, ValueTypes
<1>4. TypeOK' BY <1>1, <1>2, <1>3, ValueTypes DEF TypeOK, Snapshot, FlagNames, mainVars, hostVars
<1>5. Shapes' BY <1>1, <1>2, <1>3 DEF IInv, Shapes, guiVars, lifeVars, mainVars
<1>6. Followed(gui') /\ EchoIsDue' /\ SyncIsDue'
  BY <1>1, DueStays, ValueTypes DEF guiVars, lifeVars, hostVars
<1> QED BY <1>4, <1>5, <1>6 DEF IInv

LEMMA FlushInv ==
  ASSUME IInv, FlushEvents
  PROVE  IInv'
<1>1. /\ ApplyEvents /\ LoadGeneration
      /\ generation' = generation + Len(call.events)
      /\ UNCHANGED <<flags, guiVars, lifeVars, seen, agreed, mainVars, ring, touched>>
  BY DEF FlushEvents
<1>2. Len(call.events) \in Nat
  <2>1. \/ call.events = << >>
        \/ \E q \in Params, v \in Values : call.events = <<[param |-> q, value |-> v]>>
    BY CallType DEF HostEvents
  <2> QED BY <2>1
<1>3. generation' \in Nat /\ generation <= generation' BY <1>1, <1>2, ValueTypes
<1>4. /\ call' \in Call /\ call'.kind \in {call.kind, "none"}
      /\ call'.read \in Nat /\ call'.read <= generation'
  BY <1>1, <1>3, LoadType, ValueTypes
<1>5. /\ rt' \in Snapshot /\ shared' \in Snapshot /\ told' \in Snapshot
      /\ rt = shared => rt' = shared'
      /\ \A p \in Params : told[p] = shared[p] => told'[p] = shared'[p]
  BY <1>1, EventsAgree
<1>6. TypeOK' BY <1>1, <1>3, <1>4, <1>5, ValueTypes DEF TypeOK, Snapshot, FlagNames, mainVars
<1>7. Shapes' BY <1>1, <1>3, <1>4 DEF IInv, Shapes, guiVars, lifeVars, mainVars
<1>8. Followed(gui') /\ EchoIsDue' /\ SyncIsDue'
  BY <1>1, <1>3, <1>5, DueStays DEF guiVars, lifeVars
<1> QED BY <1>6, <1>7, <1>8 DEF IInv

LEMMA SyncInv ==
  ASSUME IInv, SyncParams
  PROVE  IInv'
<1>1. /\ rt' = shared /\ seen' = call.read
      /\ call' = NoCall \/ call' = [call EXCEPT !.next = "events", !.read = 0]
      /\ UNCHANGED <<shared, generation, flags, guiVars, lifeVars, mainVars, ring, hostVars>>
  BY DEF SyncParams, Return
<1>2. /\ call' \in Call /\ call'.kind \in {call.kind, "none"} /\ call'.read = 0
  <2>1. call \in Call BY DEF IInv, Shapes
  <2>2. CASE call' = NoCall BY <2>2, CallType
  <2>3. CASE call' = [call EXCEPT !.next = "events", !.read = 0] BY <2>1, <2>3 DEF Call
  <2> QED BY <1>1, <2>2, <2>3
<1>3. TypeOK' BY <1>1, <1>2, ValueTypes DEF TypeOK, Snapshot, FlagNames, mainVars, hostVars
<1>4. Shapes' BY <1>1, <1>2, ValueTypes DEF IInv, Shapes, guiVars, lifeVars, mainVars
<1>5. Followed(gui') /\ EchoIsDue' BY <1>1 DEF IInv, EchoIsDue, guiVars, hostVars
<1>6. SyncIsDue' BY <1>1 DEF SyncIsDue
<1> QED BY <1>3, <1>4, <1>5, <1>6 DEF IInv

LEMMA EventsInv ==
  ASSUME IInv, ProcessEvents
  PROVE  IInv'
<1>1. /\ ApplyEvents /\ call' = NoCall
      /\ UNCHANGED <<generation, flags, guiVars, lifeVars, seen, agreed, mainVars, ring, touched>>
  BY DEF ProcessEvents, Return
<1>2. call' \in Call /\ call'.kind = "none" /\ call'.read = 0 BY <1>1, CallType
<1>3. /\ rt' \in Snapshot /\ shared' \in Snapshot /\ told' \in Snapshot
      /\ rt = shared => rt' = shared'
      /\ \A p \in Params : told[p] = shared[p] => told'[p] = shared'[p]
  BY <1>1, EventsAgree
<1>4. TypeOK' BY <1>1, <1>2, <1>3, ValueTypes DEF TypeOK, Snapshot, FlagNames, mainVars
<1>5. Shapes' BY <1>1, <1>2 DEF IInv, Shapes, guiVars, lifeVars, mainVars
<1>6. Followed(gui') /\ EchoIsDue' /\ SyncIsDue'
  BY <1>1, <1>3, DueStays, ValueTypes DEF guiVars, lifeVars
<1> QED BY <1>4, <1>5, <1>6 DEF IInv

(* flush() of the main thread: there is no processor.                      *)
LEMMA MainFlushInv ==
  ASSUME IInv, MainFlush
  PROVE  IInv'
<1>1. /\ call' = NoCall /\ ~active
      /\ UNCHANGED <<flags, guiVars, lifeVars, rtVars, touched>>
      /\ \/ UNCHANGED <<main, shared, told, ring, in_flight, generation>>
         \/ /\ call.events # << >>
            /\ main' = [main EXCEPT ![call.events[1].param] = call.events[1].value]
            /\ shared' = [shared EXCEPT ![call.events[1].param] = call.events[1].value]
            /\ told' = [told EXCEPT ![call.events[1].param] = call.events[1].value]
            /\ \/ HasRoom /\ ring' = Append(ring, main') /\ UNCHANGED <<in_flight, generation>>
               \/ in_flight' = main' /\ generation' = generation + 1 /\ UNCHANGED ring
  BY DEF MainFlush, At, Return, IInv, Shapes
<1>2. call' \in Call /\ call'.kind = "none" /\ call'.read = 0 BY <1>1, CallType
<1>3. /\ main' \in Snapshot /\ shared' \in Snapshot /\ told' \in Snapshot
      /\ \A p \in Params : told[p] = shared[p] => told'[p] = shared'[p]
  <2>1. CASE call.events = << >> BY <1>1, <2>1, ValueTypes
  <2>2. CASE call.events # << >>
    <3> DEFINE e == call.events[1]
    <3>1. e.param \in Params /\ e.value \in Values
      <4>1. PICK q \in Params, v \in Values : call.events = <<[param |-> q, value |-> v]>>
        BY <2>2, CallType DEF HostEvents
      <4> QED BY <4>1
    <3> HIDE DEF e
    <3>2. \/ UNCHANGED <<main, shared, told>>
          \/ /\ main' = [main EXCEPT ![e.param] = e.value]
             /\ shared' = [shared EXCEPT ![e.param] = e.value]
             /\ told' = [told EXCEPT ![e.param] = e.value]
      BY <1>1 DEF e
    <3> QED BY <3>1, <3>2, ValueTypes DEF Snapshot
  <2> QED BY <2>1, <2>2
<1>4. /\ ring' \in Seq(Snapshot) /\ Len(ring') <= RingCap
      /\ in_flight' \in Snapshot \cup {None}
      /\ generation' \in Nat /\ generation <= generation'
  <2>1. CASE HasRoom /\ ring' = Append(ring, main') /\ UNCHANGED <<in_flight, generation>>
    <3>1. Append(ring, main') \in Seq(Snapshot) /\ Len(Append(ring, main')) = Len(ring) + 1
      BY <1>3, ValueTypes
    <3>2. Len(ring) < RingCap /\ Len(ring) \in Nat BY <2>1, ValueTypes DEF HasRoom
    <3> QED BY <2>1, <3>1, <3>2, ValueTypes
  <2>2. CASE in_flight' = main' /\ generation' = generation + 1 /\ UNCHANGED ring
    BY <1>3, <2>2, ValueTypes
  <2>3. CASE UNCHANGED <<main, shared, told, ring, in_flight, generation>>
    BY <2>3, ValueTypes
  <2> QED BY <1>1, <2>1, <2>2, <2>3
<1>5. TypeOK' BY <1>1, <1>2, <1>3, <1>4, ValueTypes DEF TypeOK, Snapshot, FlagNames, rtVars
<1>6. Shapes' BY <1>1, <1>2, <1>4 DEF IInv, Shapes, guiVars, lifeVars, rtVars
<1>7. Followed(gui') BY <1>1 DEF IInv, guiVars
<1>8. EchoIsDue'
  <2>1. Continuous \subseteq Params BY DEF Params
  <2> QED BY <1>1, <1>3, <2>1 DEF IInv, EchoIsDue, guiVars
<1>9. SyncIsDue' BY <1>1 DEF SyncIsDue, lifeVars
<1> QED BY <1>5, <1>6, <1>7, <1>8, <1>9 DEF IInv

-----------------------------------------------------------------------------
(* The main thread outside a callback.                                     *)

LEMMA RetryInv ==
  ASSUME IInv, RetryInFlight
  PROVE  IInv'
<1>1. /\ in_flight # None
      /\ UNCHANGED <<shared, flags, guiVars, active, rtVars, main, call, hostVars>>
      /\ \/ /\ HasRoom /\ ring' = Append(ring, in_flight) /\ in_flight' = None
            /\ generation' = generation
         \/ generation' = generation + 1 /\ UNCHANGED <<ring, in_flight>>
  BY DEF RetryInFlight
<1>2. /\ ring' \in Seq(Snapshot) /\ Len(ring') <= RingCap
      /\ in_flight' \in Snapshot \cup {None}
      /\ generation' \in Nat /\ generation <= generation'
  <2>1. CASE HasRoom /\ ring' = Append(ring, in_flight) /\ in_flight' = None
             /\ generation' = generation
    <3>1. in_flight \in Snapshot BY <1>1, ValueTypes
    <3>2. Append(ring, in_flight) \in Seq(Snapshot)
          /\ Len(Append(ring, in_flight)) = Len(ring) + 1
      BY <3>1, ValueTypes
    <3>3. Len(ring) < RingCap /\ Len(ring) \in Nat BY <2>1, ValueTypes DEF HasRoom
    <3> QED BY <2>1, <3>2, <3>3, ValueTypes
  <2>2. CASE generation' = generation + 1 /\ UNCHANGED <<ring, in_flight>>
    BY <2>2, ValueTypes
  <2> QED BY <1>1, <2>1, <2>2
<1>3. TypeOK' BY <1>1, <1>2, ValueTypes DEF TypeOK, Snapshot, FlagNames, rtVars, hostVars
<1>4. Shapes' BY <1>1, <1>2 DEF IInv, Shapes, guiVars, rtVars
<1>5. Followed(gui') /\ EchoIsDue' /\ SyncIsDue'
  BY <1>1, <1>2, DueStays DEF guiVars, rtVars, hostVars
<1> QED BY <1>3, <1>4, <1>5 DEF IInv

LEMMA LifeInv ==
  ASSUME IInv, Save \/ Activate \/ Deactivate
  PROVE  IInv'
<1>1. /\ UNCHANGED <<shared, generation, flags, guiVars, in_flight, ring, call, hostVars>>
      /\ main' \in {main, shared} /\ active' \in BOOLEAN
      /\ \/ UNCHANGED <<active, rtVars>>
         \/ call = NoCall /\ rt' \in Snapshot /\ seen' = 0 /\ agreed' = "new"
  <2>1. CASE Save BY <2>1 DEF Save, IInv, Shapes
  <2>2. CASE Activate
    <3>1. rt' \in Snapshot
      BY <2>2, ValueTypes, ParamAssumption DEF Activate, Snapshot, Defaults
    <3> QED BY <2>2, <3>1 DEF Activate, Live, mainVars
  <2>3. CASE Deactivate
    <3>1. rt' \in Snapshot BY <2>3, ParamAssumption DEF Deactivate, Snapshot, Defaults
    <3> QED BY <2>3, <3>1 DEF Deactivate, Live, mainVars
  <2> QED BY <2>1, <2>2, <2>3
<1>2. rt' \in Snapshot /\ main' \in Snapshot /\ seen' \in Nat /\ seen' <= generation
  BY <1>1, ValueTypes DEF rtVars
<1>3. TypeOK' BY <1>1, <1>2, ValueTypes DEF TypeOK, Snapshot, FlagNames, hostVars
<1>4. Shapes' BY <1>1, <1>2, CallType DEF IInv, Shapes, guiVars
<1>5. Followed(gui') /\ EchoIsDue' BY <1>1 DEF IInv, EchoIsDue, guiVars, hostVars
<1>6. SyncIsDue' BY <1>1 DEF IInv, SyncIsDue, guiVars, rtVars
<1> QED BY <1>3, <1>4, <1>5, <1>6 DEF IInv

LEMMA NextInv == IInv /\ [Next]_vars => IInv'
<1> SUFFICES ASSUME IInv, [Next]_vars PROVE IInv' OBVIOUS
<1>1. CASE GuiNext BY <1>1, BeginCallbackInv, GuiStepInv DEF GuiNext
<1>2. CASE CallStep
  BY <1>2, EchoSlotInv, DrainInv, FlushInv, SyncInv, EventsInv, MainFlushInv DEF CallStep
<1>3. CASE MainNext BY <1>3, RetryInv, LifeInv DEF MainNext
<1>4. CASE \E kind \in Kinds, es \in HostEvents : StartCall(kind, es) BY <1>4, StartCallInv
<1>5. CASE UNCHANGED vars
  BY <1>5 DEF vars, guiVars, lifeVars, rtVars, mainVars, hostVars, IInv, TypeOK, Shapes,
              EchoIsDue, SyncIsDue
<1> QED BY <1>1, <1>2, <1>3, <1>4, <1>5 DEF Next

-----------------------------------------------------------------------------
(* The inductive invariant: what a GUI callback still owes, and to whom.   *)
THEOREM ParamInvariant == Spec => []IInv
BY InitInv, NextInv, PTL DEF Spec

(* Every value is one of the values, no snapshot overfills the ring and no *)
(* processor has seen a generation that was not bumped.                    *)
THEOREM TypesHold == Spec => []TypeOK
<1>1. IInv => TypeOK BY DEF IInv
<1> QED BY <1>1, ParamInvariant, PTL

(* The generation handshake loses no value (processor/events.rs:87).       *)
THEOREM SyncLosesNothing == Spec => []SyncedAgrees
<1>1. ASSUME IInv PROVE SyncedAgrees
  <2> SUFFICES ASSUME Settled, active, agreed = "yes" PROVE rt = shared BY DEF SyncedAgrees
  <2>1. gui = << >> /\ seen = generation BY DEF Settled
  <2>2. ~BumpComes(gui) BY <2>1 DEF BumpComes
  <2>3. generation \in Nat BY <1>1, ValueTypes
  <2> QED BY <1>1, <2>1, <2>2, <2>3 DEF IInv, SyncIsDue
<1> QED BY <1>1, ParamInvariant, PTL

(* The echo tells the host the published value (plugin/shared.rs:1286).    *)
THEOREM EchoTellsShared == Spec => []ToldIsShared
<1>1. ASSUME IInv PROVE ToldIsShared
  <2> SUFFICES ASSUME gui = << >>, NEW p \in Continuous, flags[p] = {}
               PROVE  told[p] = shared[p]
    BY DEF ToldIsShared
  <2>1. ~EchoComes(gui, p) BY DEF EchoComes
  <2> QED BY <1>1, <2>1 DEF IInv, EchoIsDue
<1> QED BY <1>1, ParamInvariant, PTL
=============================================================================
