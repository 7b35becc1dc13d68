---------------------------- MODULE ThermalAlarm ----------------------------
(***************************************************************************)
(* The hotspot alarm of the Crow server's thermal proxy                    *)
(* (crow_server/src/features/thermal/ThermalProxy.cpp,                     *)
(* maybePublishThermalEvent): each completed frame is compared with a      *)
(* baseline learned from normal frames, a hot component is followed from   *)
(* frame to frame, and a hotspot is reported once, over MQTT and to the    *)
(* motors and the laser, until it is gone.                                 *)
(*                                                                         *)
(* Of the analysis of the pixels only its outcome is modelled, and any     *)
(* outcome is possible.  Events or the actuation are enabled, the window   *)
(* of the baseline has a length and the region of interest does not        *)
(* change; frames come with the range of their values, and none has the id *)
(* of the last attempt.                                                    *)
(***************************************************************************)
EXTENDS Integers, Sequences

CONSTANTS Signals,          \* values of the signal of a frame
          HotspotThreshold, \* hotspot_threshold_max_value
          BaselineEnabled, BaselineMargin, BaselineGuard, BaselineMinSamples,
          ConsecutiveFrames,
          ClearFrames,
          MaxSamples,       \* bound: samples of a window
          MaxCount          \* bound: counters are not told apart above it

ASSUME AlarmConstants ==
    /\ Signals \subseteq Nat /\ HotspotThreshold \in Nat
    /\ BaselineEnabled \in BOOLEAN
    /\ BaselineMargin \in Nat /\ BaselineGuard \in Nat
    /\ BaselineMinSamples \in Nat \ {0} /\ MaxSamples \in Nat
    /\ ConsecutiveFrames \in Nat \ {0} /\ ClearFrames \in Nat \ {0}
    /\ MaxCount \in Nat /\ MaxCount >= 2 /\ MaxCount >= ConsecutiveFrames

VARIABLES baseline_normal_samples, \* values of the window, oldest first
          tracker,                 \* persistFrames, missFrames
          consecutive_hits,
          hotspot_active,
          active_clear_miss_frames,
          cooling,   \* was the last attempt less than cooldown_ms ago?
          dispatch,  \* is the thread between the two locked sections?
          calm,      \* history: frames since one that could be analysed hit
          episode    \* history: has a hotspot been reported that is not gone?

alarmVars == <<baseline_normal_samples, tracker, consecutive_hits, hotspot_active,
               active_clear_miss_frames, cooling, dispatch, calm, episode>>

\* What the analysis says of a frame: whether it could be analysed, its signal,
\* whether the hot area is large enough, whether a component is good enough to be
\* the best one, whether that one is near the one before, whether it has new pixels.
Frames ==
    {f \in [analysed : BOOLEAN, signal : Signals, large : BOOLEAN,
            best : BOOLEAN, matched : BOOLEAN, grown : BOOLEAN] :
        /\ f.best \/ f.large => f.analysed
        /\ f.matched \/ f.grown => f.best}

Component(f) == f.analysed /\ f.best

NoTrack == [persist |-> 0, miss |-> 0]

AlarmTypeOK ==
    /\ baseline_normal_samples \in Seq(Signals)
    /\ Len(baseline_normal_samples) <= MaxSamples
    /\ tracker \in [persist : 0..MaxCount, miss : 0..(ClearFrames-1)]
    /\ consecutive_hits \in 0..ConsecutiveFrames
    /\ hotspot_active \in BOOLEAN
    /\ active_clear_miss_frames \in 0..(ClearFrames-1)
    /\ cooling \in BOOLEAN /\ dispatch \in BOOLEAN
    /\ calm \in 0..ClearFrames /\ episode \in BOOLEAN

AlarmInit ==
    /\ baseline_normal_samples = <<>> /\ tracker = NoTrack
    /\ consecutive_hits = 0
    /\ hotspot_active = FALSE /\ active_clear_miss_frames = 0
    /\ cooling = FALSE /\ dispatch = FALSE
    /\ calm = 0 /\ episode = FALSE

-----------------------------------------------------------------------------
(* Thresholds, by the signals that reach them.                             *)

UpTo(bound, n) == IF n < bound THEN n ELSE bound

\* baseline_ready
Ready(samples) == BaselineEnabled /\ Len(samples) >= BaselineMinSamples

\* The signal is not below computeThermalAdaptiveThresholdLocked.
Hot(signal, samples) ==
    /\ signal >= HotspotThreshold
    /\ Ready(samples) =>
           \A i \in DOMAIN samples : signal >= samples[i] + BaselineMargin

\* Mutant: frames are normal up to the threshold, without the guard.
Normal_unguarded(signal, samples) == ~Hot(signal, samples)

\* The signal is below computeThermalClearThreshold.
Normal(signal, samples) ==
    \/ signal < HotspotThreshold
    \/ /\ Ready(samples)
       /\ \E i \in DOMAIN samples :
              signal + BaselineGuard < samples[i] + BaselineMargin

-----------------------------------------------------------------------------
(* One frame, under state_mutex.                                           *)

\* updateThermalEventTrackerState.  Misses do not take back what was counted
\* until there are ClearFrames of them.
Tracked(f) ==
    IF ~f.analysed THEN tracker
    ELSE IF f.best
    THEN [persist |-> IF f.matched THEN UpTo(MaxCount, tracker.persist + 1) ELSE 1,
          miss |-> 0]
    ELSE IF tracker.persist = 0 THEN tracker
    ELSE IF tracker.miss + 1 >= ClearFrames THEN NoTrack
    ELSE [tracker EXCEPT !.miss = @ + 1]

\* candidate_miss_frames
Misses(f) ==
    IF f.analysed /\ ~f.best /\ tracker.persist > 0 /\ tracker.miss + 1 >= ClearFrames
    THEN ClearFrames
    ELSE Tracked(f).miss

\* can_learn_baseline
Learns(f, samples) ==
    /\ BaselineEnabled /\ ~hotspot_active
    /\ Normal(f.signal, samples)
    /\ ~(f.analysed /\ f.large) /\ ~Component(f)

Hit(f, samples) ==
    /\ Hot(f.signal, samples)
    /\ f.analysed => f.large /\ f.best /\ (f.grown \/ Tracked(f).persist > 1)

Hits(f, hit) ==
    IF ~hit THEN 0
    ELSE UpTo(ConsecutiveFrames,
              IF f.analysed THEN Tracked(f).persist ELSE consecutive_hits + 1)

\* Mutant: a frame that is hot again does not start the count anew.
ClearMisses_kept(f, hit, samples) ==
    IF hotspot_active /\ ~hit /\ Normal(f.signal, samples) /\ ~Component(f)
    THEN IF active_clear_miss_frames + 1 > Misses(f)
         THEN active_clear_miss_frames + 1 ELSE Misses(f)
    ELSE active_clear_miss_frames

\* updateThermalHotspotClearState, before the comparison with ClearFrames.
ClearMisses(f, hit, samples) ==
    IF hotspot_active /\ ~hit /\ Normal(f.signal, samples) /\ ~Component(f)
    THEN IF active_clear_miss_frames + 1 > Misses(f)
         THEN active_clear_miss_frames + 1 ELSE Misses(f)
    ELSE 0

\* Mutant: only the frame that completes the count raises the alarm.
Due_once(hits, samples) ==
    /\ hits >= ConsecutiveFrames /\ consecutive_hits < ConsecutiveFrames
    /\ BaselineEnabled => Ready(samples)
    /\ ~cooling

\* should_dispatch, for a hotspot that is not active.
Due(hits, samples) ==
    /\ hits >= ConsecutiveFrames
    /\ BaselineEnabled => Ready(samples)
    /\ ~cooling

\* The samples left when the oldest ones are older than the window.
Pruned(n) == SubSeq(baseline_normal_samples, n + 1, Len(baseline_normal_samples))

\* The first locked section of maybePublishThermalEvent, for the frame f.
Observe(f, n) ==
    LET samples == IF Learns(f, Pruned(n)) THEN Append(Pruned(n), f.signal)
                                           ELSE Pruned(n)
        hit == Hit(f, samples)
        misses == ClearMisses(f, hit, samples)
    IN
    /\ ~dispatch
    /\ Len(samples) <= MaxSamples
    /\ baseline_normal_samples' = samples
    /\ tracker' = Tracked(f)
    /\ consecutive_hits' = Hits(f, hit)
    /\ hotspot_active' = (hotspot_active /\ misses < ClearFrames)
    /\ active_clear_miss_frames' = IF misses < ClearFrames THEN misses ELSE 0
    /\ dispatch' = (~hotspot_active' /\ Due(Hits(f, hit), samples))
    /\ cooling' = (cooling \/ dispatch')
    /\ calm' = IF f.analysed /\ hit THEN 0 ELSE UpTo(ClearFrames, calm + 1)
    /\ episode' = (episode /\ calm' < ClearFrames)

ObserveFrame ==
    \E f \in Frames : \E n \in 0..Len(baseline_normal_samples) : Observe(f, n)

\* Publishing is done without the lock.  One channel that worked is enough:
\* mark_hotspot_active.
DispatchOk ==
    /\ dispatch /\ dispatch' = FALSE
    /\ hotspot_active' = TRUE /\ active_clear_miss_frames' = 0
    /\ episode' = TRUE
    /\ UNCHANGED <<baseline_normal_samples, tracker, consecutive_hits, cooling, calm>>

\* No enabled channel worked: the next attempt is made after the cooldown.
DispatchFails ==
    /\ dispatch /\ dispatch' = FALSE
    /\ UNCHANGED <<baseline_normal_samples, tracker, consecutive_hits, hotspot_active,
                   active_clear_miss_frames, cooling, calm, episode>>

\* cooldown_ms have passed since the last attempt.
CooldownEnds ==
    /\ cooling /\ cooling' = FALSE
    /\ UNCHANGED <<baseline_normal_samples, tracker, consecutive_hits, hotspot_active,
                   active_clear_miss_frames, dispatch, calm, episode>>

\* clearThermalFrameTrackers, when the receiver thread begins.
ClearTrackers ==
    /\ baseline_normal_samples' = <<>> /\ tracker' = NoTrack
    /\ consecutive_hits' = 0
    /\ hotspot_active' = FALSE /\ active_clear_miss_frames' = 0
    /\ cooling' = FALSE
    /\ UNCHANGED <<dispatch, calm, episode>>

-----------------------------------------------------------------------------
\* The baseline does not creep up: with a guard at least as wide as the margin,
\* as by default, no hotspot however slow in its rise is learned as normal, and
\* a signal that exceeds the configured threshold by the margin always counts.
BaselineStaysNormal ==
    BaselineGuard >= BaselineMargin =>
        \A signal \in Signals :
            signal >= HotspotThreshold + BaselineMargin =>
                Hot(signal, baseline_normal_samples)
=============================================================================
