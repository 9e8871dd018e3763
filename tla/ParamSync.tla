----------------------------- MODULE ParamSync -----------------------------
(***************************************************************************)
(* The value of a parameter lives in four places: the shared atomics that  *)
(* the host reads (get_value), the processor's parameters, the main        *)
(* thread's parameters, and the host's own idea of it.  The GUI writes the *)
(* atomics, bumps a generation and sets gesture flags, one atomic at a     *)
(* time; a callback of the host (process or flush on the audio thread,     *)
(* flush on the main thread while inactive) turns the flags into output    *)
(* events, drains snapshots, synchronises on the generation and applies    *)
(* its input events.                                                       *)
(*                                                                         *)
(* Two parameters stand for the eight: a gain (continuous, stored as float *)
(* bits, read by activate()) and the bypass (discrete, stored as an        *)
(* integer, left at its default by activate()).                            *)
(***************************************************************************)
EXTENDS Integers, Sequences, FiniteSets, TLC

CONSTANTS
  Values,       \* values of a parameter; 0 is the default of each
  RingCap,      \* snapshots the command ring has room for
  MaxGui,       \* bound: callbacks of the GUI
  MaxHost,      \* bound: parameter events of the host
  MaxLife,      \* bound: activations, deactivations, saves and failed retries
  None

Continuous == {"gain"}
Discrete == {"bypass"}
Params == Continuous \cup Discrete

ASSUME ParamAssumption ==
  /\ 0 \in Values /\ None \notin [Params -> Values] /\ None \notin Values
  /\ RingCap \in Nat \ {0} /\ {MaxGui, MaxHost, MaxLife} \subseteq Nat

VARIABLES
  shared,       \* ui_to_rt: the published value of each parameter
  generation,   \* gui_param_generation
  flags,        \* gesture_flags: subset of {"begin", "changed", "end"} each
  gui,          \* what the running GUI callback has still to do
  held,         \* the slider the user holds, or None
  active,       \* a processor exists
  rt, seen,     \* its parameters and last_seen_generation
  main,         \* params of the main thread
  ring,         \* parameter snapshots in the command ring
  in_flight,    \* in_flight_params
  call,         \* the callback under way (see NoCall)
  told,         \* the last value of each parameter that crossed the interface
  touched,      \* parameters with a gesture open in the host
  agreed,       \* history: "new" until the processor has run, then whether it
                \* was synchronised after the last snapshot ("yes", "no")
  gui_count, host_count, life_count

guiVars == <<gui, held, gui_count>>
rtVars == <<rt, seen, agreed>>
mainVars == <<main, in_flight>>
lifeVars == <<active, life_count>>
hostVars == <<told, touched, host_count>>
vars == <<shared, generation, flags, guiVars, lifeVars, rtVars, mainVars, ring, call, hostVars>>

Defaults == [p \in Params |-> 0]

(* A callback: who makes it, the input events it was given, the gesture    *)
(* slots still to look at, what comes next, the generation it has read.    *)
NoCall == [kind |-> "none", events |-> << >>, slots |-> << >>, next |-> "echo", read |-> 0]

Init ==
  /\ shared = Defaults /\ generation = 0 /\ flags = [p \in Params |-> {}]
  /\ gui = << >> /\ held = None /\ gui_count = 0
  /\ active = FALSE /\ life_count = 0
  /\ rt = Defaults /\ seen = 0 /\ agreed = "new"
  /\ main = Defaults /\ in_flight = None /\ ring = << >>
  /\ call = NoCall
  /\ told = Defaults /\ touched = {} /\ host_count = 0

------------------------------------------------------------------------------
(* The GUI thread.  A callback is a list of atomic operations.             *)

Store(p, v) == [op |-> "store", param |-> p, value |-> v]
Flag(p, f) == [op |-> "flag", param |-> p, flag |-> f]
Bump == [op |-> "bump"]

SliderMovedBumpFirst(p, v) == <<Bump, Store(p, v), Flag(p, "changed")>>
SliderMoved(p, v) == <<Store(p, v), Bump, Flag(p, "changed")>>
Chosen(p, v) ==
  <<Store(p, v), Flag(p, "begin"), Flag(p, "changed"), Flag(p, "end"), Bump>>

GuiCallback(ops) ==
  /\ gui = << >> /\ gui_count < MaxGui
  /\ gui_count' = gui_count + 1 /\ gui' = ops
  /\ UNCHANGED <<shared, generation, flags, lifeVars, rtVars, mainVars, ring, call, hostVars>>

GestureBegin(p) == held = None /\ held' = p /\ GuiCallback(<<Flag(p, "begin")>>)
GainChanged(p, v) == held = p /\ UNCHANGED held /\ GuiCallback(SliderMoved(p, v))
GestureEnd(p) == held = p /\ held' = None /\ GuiCallback(<<Flag(p, "end")>>)
DiscreteChanged(p, v) == UNCHANGED held /\ GuiCallback(Chosen(p, v))

GuiStep ==
  /\ gui # << >>
  /\ LET o == Head(gui)
     IN /\ shared' = IF o.op = "store" THEN [shared EXCEPT ![o.param] = o.value] ELSE shared
        /\ flags' = IF o.op = "flag" THEN [flags EXCEPT ![o.param] = @ \cup {o.flag}] ELSE flags
        /\ generation' = IF o.op = "bump" THEN generation + 1 ELSE generation
  /\ gui' = Tail(gui)
  /\ UNCHANGED <<held, gui_count, lifeVars, rtVars, mainVars, ring, call, hostVars>>

------------------------------------------------------------------------------
(* A callback of the host: write_gui_events() comes first in all three.    *)

Slots ==
  <<<<"gain", "begin">>, <<"gain", "changed">>, <<"gain", "end">>,
    <<"bypass", "begin">>, <<"bypass", "changed">>, <<"bypass", "end">>>>

Kinds == {"process", "flush", "main_flush"}
HostEvents == {<< >>} \cup {<<[param |-> p, value |-> v]>> : p \in Params, v \in Values}

(* The host calls process() or flush() of a processor, and flush() of the  *)
(* main thread only without one.  Without a flag the echo is skipped.      *)
StartCall(kind, es) ==
  /\ call = NoCall
  /\ kind = "main_flush" <=> ~active
  /\ host_count + Len(es) <= MaxHost
  /\ host_count' = host_count + Len(es)
  /\ call' = [NoCall EXCEPT !.kind = kind, !.events = es,
                            !.slots = IF \A p \in Params : flags[p] = {} THEN << >> ELSE Slots]
  /\ UNCHANGED <<shared, generation, flags, guiVars, lifeVars, rtVars, mainVars, ring,
                 told, touched>>

(* The value of an output event is decoded as float bits: the integer of a *)
(* discrete parameter becomes a denormal, which is its first value.        *)
Decoded(p, bits) == IF p \in Discrete THEN 0 ELSE bits

(* One slot: take the flag and push its event; a full queue puts the flag  *)
(* back and ends the echo.                                                 *)
RetainedNever(p, f) == [flags EXCEPT ![p] = @ \ {f}]
Retained(p, f) == flags
EchoSlot ==
  /\ call.kind # "none" /\ call.slots # << >>
  /\ LET p == Head(call.slots)[1]
         f == Head(call.slots)[2]
     IN IF f \notin flags[p]
        THEN /\ call' = [call EXCEPT !.slots = Tail(@)]
             /\ UNCHANGED <<flags, told, touched>>
        ELSE \/ /\ flags' = [flags EXCEPT ![p] = @ \ {f}]
                /\ told' = IF f = "changed" THEN [told EXCEPT ![p] = Decoded(p, shared[p])]
                                            ELSE told
                /\ touched' = CASE f = "begin" -> touched \cup {p}
                                [] f = "end" -> touched \ {p}
                                [] OTHER -> touched
                /\ call' = [call EXCEPT !.slots = Tail(@)]
             \/ /\ flags' = Retained(p, f)
                /\ call' = [call EXCEPT !.slots = << >>]
                /\ UNCHANGED <<told, touched>>
  /\ UNCHANGED <<shared, generation, guiVars, lifeVars, rtVars, mainVars, ring, host_count>>

At(kinds, next) == call.kind \in kinds /\ call.slots = << >> /\ call.next = next
Return == call' = NoCall

(* One Acquire load of the generation; the parameters are read after it,   *)
(* and only when it moved.                                                 *)
LoadGeneration ==
  IF generation' # seen THEN call' = [call EXCEPT !.next = "sync", !.read = generation']
  ELSE IF call.kind = "flush" THEN Return ELSE call' = [call EXCEPT !.next = "events"]

(* process_events(): the snapshots in the ring, the last one wins.         *)
DrainSnapshots ==
  /\ At({"process"}, "echo")
  /\ ring' = << >>
  /\ rt' = IF ring = << >> THEN rt ELSE ring[Len(ring)]
  /\ agreed' = IF ring = << >> /\ agreed = "yes" THEN "yes" ELSE "no"
  /\ UNCHANGED generation /\ LoadGeneration
  /\ UNCHANGED <<shared, flags, guiVars, lifeVars, seen, mainVars, hostVars>>

(* An event on the audio thread writes the processor's value and the       *)
(* atomic.                                                                 *)
ApplyEvents ==
  IF call.events = << >> THEN UNCHANGED <<rt, shared, told>>
  ELSE LET e == call.events[1]
       IN /\ rt' = [rt EXCEPT ![e.param] = e.value]
          /\ shared' = [shared EXCEPT ![e.param] = e.value]
          /\ told' = [told EXCEPT ![e.param] = e.value]

(* flush() of the audio thread: events first, then a bump of its own.      *)
FlushEvents ==
  /\ At({"flush"}, "echo")
  /\ ApplyEvents
  /\ generation' = generation + Len(call.events)
  /\ LoadGeneration
  /\ UNCHANGED <<flags, guiVars, lifeVars, seen, agreed, mainVars, ring, touched, host_count>>

SyncParams ==
  /\ At({"process", "flush"}, "sync")
  /\ rt' = shared /\ seen' = call.read /\ agreed' = "yes"
  /\ IF call.kind = "flush" THEN Return ELSE call' = [call EXCEPT !.next = "events", !.read = 0]
  /\ UNCHANGED <<shared, generation, flags, guiVars, lifeVars, mainVars, ring, hostVars>>

(* process_dsp_audio(): the events of the block.                           *)
ProcessEvents ==
  /\ At({"process"}, "events")
  /\ ApplyEvents
  /\ Return
  /\ UNCHANGED <<generation, flags, guiVars, lifeVars, seen, agreed, mainVars, ring, touched,
                 host_count>>

HasRoomForOneMore == Len(ring) <= RingCap
HasRoom == Len(ring) < RingCap

(* flush() of the main thread: its own parameters, the atomics, and a      *)
(* snapshot of all its parameters; a full ring keeps the snapshot.         *)
MainFlush ==
  /\ At({"main_flush"}, "echo")
  /\ IF call.events = << >>
     THEN UNCHANGED <<main, shared, told, ring, in_flight, generation>>
     ELSE LET e == call.events[1]
          IN /\ main' = [main EXCEPT ![e.param] = e.value]
             /\ shared' = [shared EXCEPT ![e.param] = e.value]
             /\ told' = [told EXCEPT ![e.param] = e.value]
             /\ IF HasRoom
                THEN ring' = Append(ring, main') /\ UNCHANGED <<in_flight, generation>>
                ELSE in_flight' = main' /\ generation' = generation + 1 /\ UNCHANGED ring
  /\ Return
  /\ UNCHANGED <<flags, guiVars, lifeVars, rtVars, touched, host_count>>

------------------------------------------------------------------------------
(* The main thread outside a callback.                                     *)

(* housekeeping: flush_in_flight_params().                                 *)
RetryInFlight ==
  /\ in_flight # None /\ call.kind # "main_flush"
  /\ IF HasRoom
     THEN /\ ring' = Append(ring, in_flight) /\ in_flight' = None
          /\ UNCHANGED <<generation, life_count>>
     ELSE /\ life_count < MaxLife /\ life_count' = life_count + 1
          /\ generation' = generation + 1
          /\ UNCHANGED <<ring, in_flight>>
  /\ UNCHANGED <<shared, flags, guiVars, active, rtVars, main, call, hostVars>>

Live == call = NoCall /\ life_count < MaxLife /\ life_count' = life_count + 1

(* save(): snapshot_params() first.                                        *)
Save ==
  /\ life_count < MaxLife /\ life_count' = life_count + 1 /\ call.kind # "main_flush"
  /\ main # shared
  /\ main' = shared
  /\ UNCHANGED <<shared, generation, flags, guiVars, active, rtVars, in_flight, ring,
                 call, hostVars>>

(* A new processor takes the gains from the atomics, the rest of its       *)
(* parameters are the defaults and it has seen no generation.              *)
Activate ==
  /\ ~active /\ Live
  /\ active' = TRUE
  /\ rt' = [p \in Params |-> IF p \in Continuous THEN shared[p] ELSE Defaults[p]]
  /\ seen' = 0 /\ agreed' = "new"
  /\ UNCHANGED <<shared, generation, flags, guiVars, mainVars, ring, call, hostVars>>

Deactivate ==
  /\ active /\ Live
  /\ active' = FALSE
  /\ rt' = Defaults /\ seen' = 0
  /\ agreed' = "new"
  /\ UNCHANGED <<shared, generation, flags, guiVars, mainVars, ring, call, hostVars>>

GuiNext ==
  \/ \E p \in Continuous :
       GestureBegin(p) \/ GestureEnd(p) \/ \E v \in Values : GainChanged(p, v)
  \/ \E p \in Discrete, v \in Values : DiscreteChanged(p, v)
  \/ GuiStep

CallStep ==
  \/ EchoSlot \/ DrainSnapshots \/ FlushEvents \/ SyncParams
  \/ ProcessEvents \/ MainFlush

MainNext == RetryInFlight \/ Save \/ Activate \/ Deactivate

Next ==
  \/ GuiNext \/ CallStep \/ MainNext
  \/ \E kind \in Kinds, es \in HostEvents : StartCall(kind, es)

Spec == Init /\ [][Next]_vars

------------------------------------------------------------------------------
(* Properties.                                                             *)

TypeOK ==
  /\ {shared, rt, main, told} \subseteq [Params -> Values]
  /\ flags \in [Params -> SUBSET {"begin", "changed", "end"}]
  /\ touched \subseteq Params
  /\ Len(ring) <= RingCap
  /\ seen <= generation /\ call.read <= generation

(* Nothing of the GUI is under way and the processor has seen it all.      *)
Settled == gui = << >> /\ call = NoCall /\ (active => seen = generation)

(* The generation handshake loses no value: once a processor has been      *)
(* synchronised, and no snapshot was applied since, it plays what is       *)
(* published whenever it has seen the last generation, in spite of host    *)
(* events that write the same atomics in the middle of a GUI callback.     *)
SyncedAgrees == Settled /\ active /\ agreed = "yes" => rt = shared

(* The echo is fail-closed: when no flag is left, the last value of a      *)
(* continuous parameter that crossed the interface, in either direction,   *)
(* is the published one, however often the output queue was full.          *)
ToldIsShared ==
  gui = << >> /\ call = NoCall =>
    \A p \in Continuous : flags[p] = {} => told[p] = shared[p]

------------------------------------------------------------------------------
(* Statements of the repository that the code does not keep.               *)

(* processor/mod.rs, activate(): the parameters left at their defaults     *)
(* "will be synced on the first process events call (SPSC drain or GUI     *)
(* generation guard)". Without a GUI change in the session the generation  *)
(* is still 0, and a snapshot of the main thread may be older than what    *)
(* is published.                                                           *)
PublishedIsPlayed ==
  Settled /\ active /\ agreed # "new" /\ ring = << >> /\ in_flight = None =>
    rt = shared

(* shared.rs, write_gui_events(): "the legal order begin -> value -> end   *)
(* is preserved for every parameter: an end is never emitted before its    *)
(* begin (or value)". The flags are taken one by one while the GUI sets    *)
(* them: a begin that comes after its end stays open in the host.          *)
GesturesClose ==
  gui = << >> /\ call = NoCall =>
    \A p \in Params : flags[p] = {} /\ held # p => p \notin touched

(* shared.rs, write_gui_events(): "repeated value writes for the same      *)
(* param_id coalesce into the latest atomic value".  The latest value of a *)
(* discrete parameter is decoded as float bits.                            *)
DiscreteIsTold ==
  gui = << >> /\ call = NoCall =>
    \A p \in Discrete : flags[p] = {} => told[p] = shared[p]

=============================================================================
