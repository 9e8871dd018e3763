--------------------------- MODULE BlockScheduler ---------------------------
(***************************************************************************)
(* One audio block of the processor: the host's parameter events of the    *)
(* callback are scheduled, the block is cut into sub-blocks at the events  *)
(* that need an exact boundary, gain events are fused into a sub-block as  *)
(* steps of its ramp, and every sub-block is rendered by one of four legs: *)
(* wet, dry (bypassed), crossfade, or the tail drain of a closed gate.     *)
(*                                                                         *)
(* Audio is abstracted to what decides how a sample sounds: the side it is *)
(* on (or ramps to), the two gains and the gate threshold in force at it.  *)
(* Times are sample offsets in the block; gains, modulations and gate      *)
(* thresholds are small integers whose sum stands for the effective value. *)
(***************************************************************************)
EXTENDS Integers, Sequences, FiniteSets, FiniteSetsExt

CONSTANTS
  MaxFrames,      \* max_frames_count of the activation
  FuseLimit,      \* MAX_RESAMP_BUF: longest sub-block rendered in one go
  MaxGainSteps,   \* MAX_GAIN_STEPS (64)
  MaxEvents,      \* MAX_SCHEDULED_EVENTS (4096)
  XfadeSamples,   \* BYPASS_XFADE_SAMPLES (64)
  FrameCounts,    \* the block lengths the host uses, oversize ones included
  HostEvents,     \* what an event can say: [param, value, is_mod]; the
                  \* modulation of any other parameter is ignored
  Times,          \* the time stamps the host gives its events
  BadPorts,       \* may the host pass a port pair whose channels cannot be read?
  MaxCalls,       \* bound: calls of the host and the GUI in a behaviour
  NoFactor        \* PendingRestartOs::None

Gains == {"in_gain", "out_gain"}
Modulated == Gains \cup {"gate"}
Params == Modulated \cup {"bypass", "oversample"}

ASSUME BlockAssumption ==
  /\ {MaxFrames, FuseLimit, MaxGainSteps, MaxEvents, XfadeSamples} \subseteq Nat \ {0}
  /\ FrameCounts \cup Times \cup {MaxCalls} \subseteq Nat
  /\ \A e \in HostEvents :
       /\ DOMAIN e = {"param", "value", "is_mod"} /\ e.is_mod \in BOOLEAN
       /\ e.param \in IF e.is_mod THEN Modulated ELSE Params
       /\ e.value \in IF e.param = "bypass" THEN BOOLEAN ELSE Int
  /\ NoFactor \notin Int /\ BadPorts \in BOOLEAN

VARIABLES
  phase,        \* "idle", "slice" (rendering), "leftover" (defensive tail), "done"
  frames,       \* frames_count of the port pair
  events,       \* scheduled_events, [time, param, value, is_mod]
  event_idx,    \* first event not applied yet
  slice_base,   \* start of the slice in the block
  block_offset, \* start of the next sub-block in the slice
  rt,           \* parameters of the processor (see RtState)
  xfade,        \* BypassCrossfader: [target, remaining], active iff remaining # 0
  anomaly,      \* RT_STATUS_EVENT_TIMING_ANOMALY raised in this block
  asked,        \* request_restart() sent and not yet honoured by the host
  running_os,   \* factor the chain was built with at activation
  calls,        \* calls so far
  (* history of the block *)
  start,        \* rt when the block began to apply events
  heard         \* what every rendered sample was rendered with

vars == <<phase, frames, events, event_idx, slice_base, block_offset, rt, xfade,
          anomaly, asked, running_os, calls, start, heard>>

(* params, mod_*: base values and modulations; target: the smoothers';     *)
(* gate: the cached threshold, stale while dirty; pending: the shared      *)
(* pending_restart_os_factor.                                              *)
InitialParams == [p \in Params |-> IF p = "bypass" THEN FALSE ELSE 0]
InitialRt ==
  [params |-> InitialParams, mods |-> [p \in Modulated |-> 0],
   target |-> [p \in Gains |-> 0], gate |-> 0, dirty |-> TRUE, pending |-> NoFactor]

Effective(s, p) == s.params[p] + s.mods[p]

(* apply_scheduled_event. With jump the smoother takes the target at once; *)
(* without it the target is only returned, for the ramp of the sub-block.  *)
Apply(s, e, jump) ==
  LET p == e.param
      t == IF e.is_mod THEN [s EXCEPT !.mods[p] = e.value]
                       ELSE [s EXCEPT !.params[p] = e.value]
  IN CASE p \in Gains -> IF jump THEN [t EXCEPT !.target[p] = Effective(t, p)] ELSE t
       [] p = "gate"  -> [t EXCEPT !.dirty = TRUE]
       [] p = "oversample" /\ e.value # s.params[p] -> [t EXCEPT !.pending = e.value]
       [] OTHER       -> t

(* The events i..j-1 of es, one after the other.                           *)
ApplyAll(s, es, i, j, jump) ==
  LET before[k \in i..j] ==
        IF k = i THEN s ELSE Apply(before[k - 1], es[k - 1], jump)
  IN before[j]

(* `if self.gate_dirty { ... }`, repeated wherever events were applied.    *)
Refresh(s) ==
  IF s.dirty THEN [s EXCEPT !.gate = Effective(s, "gate"), !.dirty = FALSE] ELSE s

(* BypassCrossfader::trigger.                                              *)
Trigger(x, bypass) ==
  IF x.target = bypass THEN x ELSE [target |-> bypass, remaining |-> XfadeSamples]

Boundary(e) == e.param \notin Gains

------------------------------------------------------------------------------
(* The cut of a slice into sub-blocks.                                     *)

SliceLen == Min({frames - slice_base, MaxFrames})
SliceEnd == slice_base + SliceLen
Current == slice_base + block_offset
Sorted == \A i \in 1..Len(events) - 1 : events[i].time <= events[i + 1].time

AtOrAfter(t) == {k \in DOMAIN events : events[k].time >= t}
Boundaries == {k \in DOMAIN events : Boundary(events[k])}

(* The first event of S from i on, or one past the last event.             *)
FirstFrom(i, S) == Min({j \in S : j >= i} \cup {Len(events) + 1})

(* Gain events may share a sub-block only while their ramp is rendered by  *)
(* the wet leg in one go.                                                  *)
FuseInCrossfade(s, x) ==
  Sorted /\ SliceLen <= FuseLimit /\ ~s.params["bypass"]
Fuse(s, x) ==
  Sorted /\ SliceLen <= FuseLimit /\ x.remaining = 0 /\ ~s.params["bypass"]

(* The event that ends the sub-block starting at Current: without fusion   *)
(* the next event, with it the next boundary or one gain too many.         *)
SubEnd(i, fuse) ==
  LET stop == FirstFrom(i, AtOrAfter(SliceEnd))
      ahead == {j \in i..stop - 1 : events[j].time >= Current}
      gains(j) == Cardinality({k \in ahead : k <= j /\ ~Boundary(events[k])})
      cuts == {j \in ahead : ~fuse \/ Boundary(events[j]) \/ gains(j) > MaxGainSteps}
  IN IF cuts = {} THEN SliceLen ELSE events[Min(cuts)].time - slice_base

(* The fused gain events i..j-1 as steps of the ramp: GainStep.  There is  *)
(* room for MaxGainSteps; SubEnd is to see that no more are fused.         *)
Steps(s, i, j) ==
  [k \in 1..Min({j - i, MaxGainSteps}) |->
     LET e == events[i + k - 1]
     IN [offset |-> e.time - Current, param |-> e.param,
         target |-> Effective(ApplyAll(s, events, i, i + k, FALSE), e.param)]]

------------------------------------------------------------------------------
(* The legs. process_sub_block feeds long sub-blocks through in chunks and *)
(* without steps; only its wet leg reads them.                             *)

Leg(s, x) ==
  IF x.remaining > 0 THEN "crossfade" ELSE IF s.params["bypass"] THEN "dry" ELSE "wet"

StepsUsed(s, x, n, steps) ==
  IF n <= FuseLimit /\ Leg(s, x) = "wet" THEN steps ELSE <<>>

(* apply_gain_ramp_with_steps over n samples: the target in force at an    *)
(* offset, and the one the smoother is left with.                          *)
LastTarget(s, steps, p, passed) ==
  IF passed = {} THEN s.target[p] ELSE steps[Max(passed)].target
InForce(s, steps, p, o) ==
  LastTarget(s, steps, p, {k \in DOMAIN steps : steps[k].param = p /\ steps[k].offset <= o})
RampLeaves(s, steps, p) ==
  LastTarget(s, steps, p, {k \in DOMAIN steps : steps[k].param = p})

(* The input ramp always runs; when the gate is closed the output ramp     *)
(* runs over the drained tail only, and with no tail the steps are         *)
(* committed without a sample (drain_tail_into).                           *)
TailDrainForgets(s, steps) == s.target["out_gain"]
TailDrain(s, steps) == RampLeaves(s, steps, "out_gain")
AfterRamp(s, steps, closed) ==
  [s EXCEPT !.target = [p \in Gains |->
     IF p = "out_gain" /\ closed THEN TailDrain(s, steps) ELSE RampLeaves(s, steps, p)]]

(* The crossfade consumes its samples; past them the target side is pure.  *)
AfterXfadeUnbounded(x, n) == [x EXCEPT !.remaining = x.remaining - n]
AfterXfade(x, n) == [x EXCEPT !.remaining = Max({0, x.remaining - n})]

(* The side heard: the crossfade blends towards its target.                *)
Side(s, x) == IF Leg(s, x) = "crossfade" THEN x.target ELSE s.params["bypass"]

Sample(s, x, steps, o, closed) ==
  [dry |-> Side(s, x),
   in_gain |-> InForce(s, steps, "in_gain", o),
   out_gain |-> InForce(s, steps, "out_gain", o),
   gate |-> s.gate, closed |-> closed]

------------------------------------------------------------------------------
Init ==
  /\ phase = "idle" /\ frames = 0 /\ events = <<>> /\ event_idx = 1
  /\ slice_base = 0 /\ block_offset = 0
  /\ rt = InitialRt /\ xfade = [target |-> FALSE, remaining |-> 0]
  /\ anomaly = FALSE /\ asked = FALSE /\ running_os = 0 /\ calls = 0
  /\ start = InitialRt /\ heard = <<>>

(* schedule_input_events: the parameter events of the callback in delivery *)
(* order, at most MaxEvents of them.                                       *)
TimedEvents ==
  {[time |-> t, param |-> e.param, value |-> e.value, is_mod |-> e.is_mod] :
     e \in HostEvents, t \in Times}

Call == calls < MaxCalls /\ calls' = calls + 1

(* process_dsp_audio up to the first sub-block. A port pair without frames *)
(* or without f32 channels renders nothing and leaves every event over;    *)
(* one whose channels cannot be read is FailBlock.                         *)
BeginBlock(n, es, usable) ==
  /\ phase = "idle" /\ Call
  /\ frames' = n /\ events' = es /\ event_idx' = 1
  /\ slice_base' = 0 /\ block_offset' = 0
  /\ anomaly' = FALSE /\ heard' = <<>>
  /\ IF n = 0 \/ ~usable
     THEN /\ phase' = "leftover"
          /\ rt' = rt /\ xfade' = xfade
     ELSE /\ phase' = "slice"
          /\ rt' = Refresh(rt) /\ xfade' = Trigger(xfade, rt.params["bypass"])
  /\ start' = rt'
  /\ UNCHANGED <<asked, running_os>>

(* Events whose time has passed: clamped to Current and reported. The      *)
(* steps of one iteration share LateEnd, the first event not late.         *)
LateEnd == FirstFrom(event_idx, AtOrAfter(Current))
AfterLate ==
  IF LateEnd = event_idx THEN rt
  ELSE Refresh(ApplyAll(rt, events, event_idx, LateEnd, TRUE))
XfadeAfterLate ==
  IF LateEnd = event_idx THEN xfade ELSE Trigger(xfade, AfterLate.params["bypass"])

(* One iteration of the loop of process_wet_sub_blocks: late events, the   *)
(* cut, the fused gains, the rendered sub-block, the events at its end.    *)
SubBlock ==
  /\ phase = "slice" /\ block_offset < SliceLen
  /\ LET i == LateEnd
         x == XfadeAfterLate
         fuse == Fuse(AfterLate, x)
         end == SubEnd(i, fuse)
         n == end - block_offset
         j == IF fuse /\ n > 0
              THEN FirstFrom(i, AtOrAfter(slice_base + end) \cup Boundaries)
              ELSE i
         s == ApplyAll(AfterLate, events, i, j, FALSE)
         steps == StepsUsed(s, x, n, Steps(AfterLate, i, j))
         due == IF end < SliceLen
                THEN FirstFrom(j, {k \in DOMAIN events : events[k].time # slice_base + end})
                ELSE j
     IN \E closed \in BOOLEAN :
          /\ closed => n > 0 /\ Leg(s, x) # "dry"
          /\ rt' = Refresh(ApplyAll(IF n > 0 THEN AfterRamp(s, steps, closed) ELSE s,
                                    events, j, due, TRUE))
          /\ xfade' = Trigger(AfterXfade(x, n), rt'.params["bypass"])
          /\ heard' = [o \in 0..Current + n - 1 |->
                         IF o < Current THEN heard[o]
                         ELSE Sample(s, x, steps, o - Current, closed)]
          /\ anomaly' = (anomaly \/ i > event_idx)
          /\ event_idx' = due
          /\ block_offset' = end
  /\ UNCHANGED <<phase, frames, events, slice_base, asked, running_os, calls, start>>

(* Whatever no slice applied, at the end of the block and reported.        *)
LeftoversApplied == Refresh(ApplyAll(rt, events, event_idx, Len(events) + 1, TRUE))
ApplyLeftoversSilently ==
  /\ rt' = LeftoversApplied
  /\ xfade' = Trigger(xfade, rt'.params["bypass"])
  /\ event_idx' = Len(events) + 1
  /\ UNCHANGED anomaly
ApplyLeftovers ==
  LET left == event_idx <= Len(events)
  IN /\ rt' = IF left THEN LeftoversApplied ELSE rt
     /\ xfade' = IF left THEN Trigger(xfade, rt'.params["bypass"]) ELSE xfade
     /\ anomaly' = (anomaly \/ left)
     /\ event_idx' = Len(events) + 1

(* The end of a slice of an oversize block, and of the last slice.         *)
NextSlice ==
  /\ phase = "slice" /\ block_offset = SliceLen /\ SliceEnd < frames
  /\ slice_base' = SliceEnd /\ block_offset' = 0
  /\ UNCHANGED <<phase, frames, events, event_idx, rt, xfade, anomaly, asked, running_os, calls,
                 start, heard>>

LastSlice ==
  /\ phase = "slice" /\ block_offset = SliceLen /\ SliceEnd >= frames
  /\ phase' = "leftover"
  /\ ApplyLeftovers
  /\ UNCHANGED <<frames, events, slice_base, block_offset, asked, running_os, calls, start, heard>>

(* The block boundary is the one place that asks for a restart: when the   *)
(* events of this block left another factor pending.                       *)
AskForRestart == asked' = (asked \/ (rt'.pending # start.pending /\ rt'.pending # NoFactor))

EndBlock ==
  /\ phase = "leftover"
  /\ phase' = "done"
  /\ ApplyLeftovers
  /\ AskForRestart
  /\ UNCHANGED <<frames, events, slice_base, block_offset, running_os, calls, start, heard>>

(* process_dry_contained_block: every event in delivery order, no          *)
(* crossfade trigger, nothing rendered by the pipeline.                    *)
DryBlock(es) ==
  /\ phase = "idle" /\ Call
  /\ phase' = "done"
  /\ frames' = 0 /\ events' = es /\ event_idx' = Len(es) + 1
  /\ slice_base' = 0 /\ block_offset' = 0 /\ anomaly' = FALSE /\ heard' = <<>>
  /\ start' = rt
  /\ rt' = Refresh(ApplyAll(rt, es, 1, Len(es) + 1, TRUE))
  /\ AskForRestart
  /\ UNCHANGED <<xfade, running_os>>

(* The channels of the port pair cannot be read: channels()? returns an    *)
(* error from the callback. The pipeline meets it before the first event,  *)
(* and the scheduled events are lost. The dry leg has applied them all by  *)
(* then, and nobody asks for the restart they may call for.                *)
FailBlock ==
  /\ phase = "idle" /\ BadPorts /\ Call
  /\ UNCHANGED <<phase, frames, events, event_idx, slice_base, block_offset, rt, xfade, anomaly,
                 asked, running_os, start, heard>>

FailDryBlock(es) ==
  /\ phase = "idle" /\ BadPorts /\ Call
  /\ rt' = Refresh(ApplyAll(rt, es, 1, Len(es) + 1, TRUE))
  /\ UNCHANGED <<phase, frames, events, event_idx, slice_base, block_offset, xfade, anomaly,
                 asked, running_os, start, heard>>

(* The callback returns; the next one starts from scratch.                 *)
Return ==
  /\ phase = "done"
  /\ phase' = "idle" /\ frames' = 0 /\ events' = <<>> /\ event_idx' = 1
  /\ slice_base' = 0 /\ block_offset' = 0 /\ anomaly' = FALSE /\ heard' = <<>>
  /\ start' = InitialRt
  /\ UNCHANGED <<rt, xfade, asked, running_os, calls>>

------------------------------------------------------------------------------
(* Between blocks.                                                         *)

(* process_events: a value of the GUI (sync_params_from_gui) or of a       *)
(* snapshot from the ring (apply_params_from_spsc) reaches the processor.  *)
SyncParam(e) ==
  /\ phase = "idle" /\ ~e.is_mod /\ Call
  /\ rt' = Apply(rt, e, TRUE)
  /\ UNCHANGED <<phase, frames, events, event_idx, slice_base, block_offset, xfade, anomaly,
                 asked, running_os, start, heard>>

(* The host's reset(): smoothers snap to their target, the crossfader to   *)
(* the bypass state, the modulations and the gate cache are cleared.       *)
Reset ==
  /\ phase = "idle" /\ Call
  /\ rt' = [rt EXCEPT !.mods = [p \in Modulated |-> 0], !.dirty = TRUE]
  /\ xfade' = [target |-> rt.params["bypass"], remaining |-> 0]
  /\ UNCHANGED <<phase, frames, events, event_idx, slice_base, block_offset, anomaly, asked,
                 running_os, start, heard>>

(* The host honours the request: deactivate() and activate(), which takes  *)
(* the pending factor and builds a processor from the published gains; the *)
(* other parameters start at their defaults, until they are synchronised.  *)
Restart ==
  /\ phase = "idle" /\ asked
  /\ running_os' = IF rt.pending # NoFactor THEN rt.pending ELSE rt.params["oversample"]
  /\ rt' = [params |-> [p \in Params |-> IF p \in Gains THEN rt.params[p]
                                   ELSE IF p = "oversample" THEN running_os'
                                   ELSE InitialParams[p]],
            mods |-> [p \in Modulated |-> 0],
            target |-> [p \in Gains |-> rt.params[p]],
            gate |-> 0, dirty |-> TRUE, pending |-> NoFactor]
  /\ xfade' = [target |-> FALSE, remaining |-> 0]
  /\ asked' = FALSE
  /\ UNCHANGED <<phase, frames, events, event_idx, slice_base, block_offset, anomaly, calls,
                 start, heard>>

Next ==
  \/ \E k \in 0..MaxEvents : \E es \in [1..k -> TimedEvents] :
       \/ DryBlock(es) \/ FailDryBlock(es)
       \/ \E n \in FrameCounts, usable \in BOOLEAN : BeginBlock(n, es, usable)
  \/ FailBlock
  \/ SubBlock \/ NextSlice \/ LastSlice \/ EndBlock \/ Return
  \/ \E e \in HostEvents : SyncParam(e)
  \/ Reset \/ Restart

Spec == Init /\ [][Next]_vars

------------------------------------------------------------------------------
(* Properties.                                                             *)

TypeOK ==
  /\ phase \in {"idle", "slice", "leftover", "done"}
  /\ event_idx \in 1..Len(events) + 1
  /\ block_offset \in 0..SliceLen /\ slice_base \in 0..frames
  /\ heard # <<>> => DOMAIN heard = 0..Current - 1
  /\ xfade.remaining \in 0..XfadeSamples

(* The reference the fused, sliced and chunked rendering has to match: the *)
(* values in force at sample o when every event takes effect at its time.  *)
AutomatedAt(o) ==
  LET s == ApplyAll(start, events, 1, FirstFrom(1, AtOrAfter(o + 1)), TRUE)
      g == Refresh(s).gate
  IN [dry |-> s.params["bypass"], in_gain |-> s.target["in_gain"],
      out_gain |-> s.target["out_gain"], gate |-> g]

(* Sample accuracy: with the events in time order, every sample is         *)
(* rendered with exactly the gains, gate threshold and bypass side         *)
(* automated at it, however the block is cut into slices, sub-blocks and   *)
(* steps (the output gain of a closed gate's silence excepted).            *)
SampleAccurate ==
  phase = "done" /\ Sorted =>
    \A o \in DOMAIN heard :
      LET h == heard[o]
          a == AutomatedAt(o)
      IN /\ h.dry = a.dry /\ h.gate = a.gate /\ h.in_gain = a.in_gain
         /\ h.closed \/ h.out_gain = a.out_gain

(* A block that rendered rendered each of its samples, and when it ends    *)
(* without an error every event has been applied once, in delivery order:  *)
(* the parameters, the modulations, the smoother targets, the gate         *)
(* threshold, the factor asked for and the side the crossfader goes to are *)
(* those of the list (an error loses them: FailBlock).                     *)
EventsAllApplied ==
  phase = "done" =>
    LET end == Refresh(ApplyAll(start, events, 1, Len(events) + 1, TRUE))
    IN /\ heard # <<>> => DOMAIN heard = 0..frames - 1
       /\ \A f \in {"params", "mods", "target", "pending"} : rt[f] = end[f]
       /\ rt.dirty => start.dirty /\ events = <<>>
       /\ ~rt.dirty => rt.gate = end.gate
       /\ heard # <<>> => xfade.target = rt.params["bypass"]

(* RT_STATUS_EVENT_TIMING_ANOMALY tells the truth: the pipeline reports a  *)
(* block exactly when some event could not take effect at its own time.    *)
AnomalyIsTrue ==
  phase = "done" /\ heard # <<>> =>
    (anomaly <=> ~Sorted \/ \E i \in 1..Len(events) : events[i].time >= frames)

------------------------------------------------------------------------------
(* Statements of the repository that the code does not keep.               *)

(* shared.rs, pending_restart_os_factor: "Set by the audio thread (via     *)
(* host.request_restart()) when oversampling changes during active         *)
(* processing". A factor that comes from the GUI or a snapshot is pending  *)
(* before process_dsp_audio reads pending_before, so no block ever asks.   *)
PendingIsAsked == phase = "idle" /\ rt.pending # NoFactor => asked

(* processor/mod.rs, reset(): "Reset target: a freshly-initialized         *)
(* instance with the same configuration". The smoothers snap to a target   *)
(* that includes the modulation, which is zeroed after it.                 *)
TargetsAreEffective ==
  phase = "idle" => \A p \in Gains : rt.target[p] = Effective(rt, p)

=============================================================================
