------------------------- MODULE ThermalProxyProofs -------------------------
(***************************************************************************)
(* Proofs about the thermal proxy, for any set of connections, any signals *)
(* and thresholds and any number of frames.                                *)
(*                                                                         *)
(* First its receiver by itself (ThermalReceiver).  IInv is inductive:     *)
(* receiver_thread_started is written under receiver_mutex when a thread   *)
(* is spawned and by the thread as the last thing it does.  The properties *)
(* about stops need to know, besides, when a stop can be pending:          *)
(* AlwaysOnInv and SpacedInv.  Then the proxy: it implements its receiver, *)
(* its baseline does not creep up, and a hotspot is not reported again     *)
(* before it was gone.                                                     *)
(***************************************************************************)
EXTENDS ThermalProxy, SequenceTheorems, TLAPS

\* Ensure keeps the flag true to the thread.
LEMMA EnsureKeeps ==
    ASSUME IInv, Ensure, UNCHANGED running
    PROVE  /\ threadStarted' /\ thread' \in Alive
           /\ stopRequested' \in BOOLEAN /\ threadStarted' \in BOOLEAN
           /\ running' => thread' \in {"loop", "receiving", "closed"}
           /\ thread' # thread => thread \in Ended
  BY DEF IInv, TypeOK, FlagIsThread, Ensure, Alive, Ended

-----------------------------------------------------------------------------
LEMMA InitIInv == Init => IInv
<1> SUFFICES ASSUME Init PROVE IInv
    OBVIOUS
<1>1. CASE alwaysOn
    BY <1>1 DEF Init, IInv, TypeOK, FlagIsThread, Alive, Ended
<1>2. CASE ~alwaysOn
    BY <1>2 DEF Init, IInv, TypeOK, FlagIsThread, Alive, Ended
<1> QED
    BY <1>1, <1>2

LEMMA NextIInv == IInv /\ [Next]_vars => IInv'
<1> SUFFICES ASSUME IInv, [Next]_vars PROVE IInv'
    OBVIOUS
<1> USE DEF IInv, server, receiver, handlers
<1>1. ASSUME NEW c \in Clients, OpenEnsures(c) PROVE IInv'
  <2>1. TypeOK'
      BY <1>1, EnsureKeeps DEF OpenEnsures, TypeOK
  <2>2. FlagIsThread'
      BY <1>1, EnsureKeeps DEF OpenEnsures, FlagIsThread
  <2> QED
      BY <2>1, <2>2
<1>2. ASSUME NEW c \in Clients, OpenInserts(c) PROVE IInv'
    BY <1>2 DEF OpenInserts, TypeOK, FlagIsThread
<1>3. ASSUME NEW c \in Clients, CloseErases(c) PROVE IInv'
    BY <1>3 DEF CloseErases, TypeOK, FlagIsThread
<1>4. ASSUME NEW c \in Clients, CloseStops(c) PROVE IInv'
    BY <1>4 DEF CloseStops, RequestStopIfIdle, TypeOK, FlagIsThread
<1>5. CASE StartRoute
  <2>1. TypeOK'
      BY <1>5, EnsureKeeps DEF StartRoute, TypeOK
  <2>2. FlagIsThread'
      BY <1>5, EnsureKeeps DEF StartRoute, FlagIsThread
  <2> QED
      BY <2>1, <2>2
<1>6. CASE StopRoute
    BY <1>6 DEF StopRoute, RequestStopIfIdle, TypeOK, FlagIsThread
<1>7. CASE ShutdownStops
    BY <1>7 DEF ShutdownStops, TypeOK, FlagIsThread
<1>8. CASE ShutdownJoins
    BY <1>8 DEF ShutdownJoins, TypeOK, FlagIsThread, Alive, Ended
<1>9. CASE Thread
  <2> USE DEF TypeOK, FlagIsThread, Alive, Ended
  <2>1. CASE SetupFails \/ SetupBinds
      BY <2>1 DEF SetupFails, SetupBinds
  <2>2. CASE CheckStop
      BY <2>2 DEF CheckStop
  <2>3. CASE Receive \/ ReceiveFails
      BY <2>3 DEF Receive, ReceiveFails
  <2>4. CASE Report
      BY <2>4 DEF Report
  <2>5. CASE Finish
      BY <2>5 DEF Finish
  <2> QED
      BY <1>9, <2>1, <2>2, <2>3, <2>4, <2>5 DEF Thread
<1>10. CASE UNCHANGED vars
    BY <1>10 DEF vars, TypeOK, FlagIsThread
<1> QED
    BY <1>1, <1>2, <1>3, <1>4, <1>5, <1>6, <1>7, <1>8, <1>9, <1>10 DEF Next, Handler

\* The flags are true to the thread, whatever handlers overlap: a handler that
\* finds receiver_thread_started set finds a thread that has not ended.
THEOREM IInvHolds == Spec => []IInv
  BY InitIInv, NextIInv, PTL DEF Spec

-----------------------------------------------------------------------------
\* A receiver is spawned only when the one before it has ended: two are never
\* bound to the port.
THEOREM OneThreadHolds == Spec => OneThread
<1>1. ASSUME IInv, [Next]_vars
      PROVE  [thread' # thread /\ thread' = "setup" => thread \in Ended]_vars
  <2>1. ASSUME NEW c \in Clients, OpenEnsures(c)
        PROVE  thread' # thread => thread \in Ended
      BY <1>1, <2>1, EnsureKeeps DEF OpenEnsures
  <2>2. ASSUME StartRoute PROVE thread' # thread => thread \in Ended
      BY <1>1, <2>2, EnsureKeeps DEF StartRoute
  <2>3. ASSUME Thread PROVE thread' # "setup"
      BY <2>3 DEF Thread, SetupFails, SetupBinds, CheckStop, Receive, ReceiveFails,
                  Report, Finish
  <2> QED
      BY <1>1, <2>1, <2>2, <2>3
         DEF Next, Handler, OpenInserts, CloseErases, CloseStops, StopRoute,
             ShutdownStops, ShutdownJoins, receiver, vars
<1> QED
    BY <1>1, IInvHolds, PTL DEF Spec, OneThread

-----------------------------------------------------------------------------
\* Before shutdown no stop is pending in a server that monitors on its own,
\* and its thread is not on its way out of the loop.
AlwaysOnInv == alwaysOn /\ phase = "serving" => ~stopRequested /\ thread # "closed"

LEMMA NextAlwaysOn == IInv /\ AlwaysOnInv /\ [Next]_vars => AlwaysOnInv'
<1> SUFFICES ASSUME IInv, AlwaysOnInv, [Next]_vars, alwaysOn', phase' = "serving"
             PROVE  ~stopRequested' /\ thread' # "closed"
    BY DEF AlwaysOnInv
<1> USE DEF AlwaysOnInv, server, receiver, handlers
<1>1. ASSUME NEW c \in Clients, OpenEnsures(c) \/ OpenInserts(c) \/ CloseErases(c)
      PROVE  ~stopRequested' /\ thread' # "closed"
  <2>1. alwaysOn /\ phase = "serving" /\ ~stopRequested /\ thread # "closed"
      BY <1>1 DEF OpenEnsures, OpenInserts, CloseErases
  <2>2. CASE OpenEnsures(c)
      BY <2>1, <2>2 DEF OpenEnsures, Ensure
  <2>3. CASE OpenInserts(c) \/ CloseErases(c)
      BY <2>1, <2>3 DEF OpenInserts, CloseErases
  <2> QED
      BY <1>1, <2>2, <2>3
<1>2. ASSUME NEW c \in Clients, CloseStops(c)
      PROVE  ~stopRequested' /\ thread' # "closed"
  <2>1. alwaysOn /\ phase = "serving" /\ ~stopRequested /\ thread # "closed"
      BY <1>2 DEF CloseStops
  <2>2. ~(stopRequested \/ (~alwaysOn /\ clients = {}))
      BY <2>1
  <2> QED
      BY <1>2, <2>1, <2>2 DEF CloseStops, RequestStopIfIdle
<1>3. CASE StartRoute
    BY <1>3 DEF StartRoute, Ensure
<1>4. CASE StopRoute
  <2>1. alwaysOn /\ phase = "serving" /\ ~stopRequested /\ thread # "closed"
      BY <1>4 DEF StopRoute
  <2>2. ~(stopRequested \/ (~alwaysOn /\ clients = {}))
      BY <2>1
  <2> QED
      BY <1>4, <2>1, <2>2 DEF StopRoute, RequestStopIfIdle
<1>5. CASE ShutdownStops \/ ShutdownJoins
    BY <1>5 DEF ShutdownStops, ShutdownJoins
<1>6. CASE Thread
  <2>1. alwaysOn /\ phase = "serving" /\ ~stopRequested /\ thread # "closed"
      BY <1>6 DEF Thread, SetupFails, SetupBinds, CheckStop, Receive, ReceiveFails,
                  Report, Finish
  <2> QED
      BY <1>6, <2>1 DEF Thread, SetupFails, SetupBinds, CheckStop, Receive,
                        ReceiveFails, Report, Finish
<1>7. CASE UNCHANGED vars
    BY <1>7 DEF vars
<1> QED
    BY <1>1, <1>2, <1>3, <1>4, <1>5, <1>6, <1>7 DEF Next, Handler

\* Once it runs, the receiver of a server that monitors on its own is not taken
\* down before shutdown.
THEOREM KeptAlwaysOnHolds == Spec => KeptAlwaysOn
<1>1. Init => AlwaysOnInv
    BY DEF Init, AlwaysOnInv
<1>2. ASSUME IInv, AlwaysOnInv, [Next]_vars
      PROVE  [alwaysOn /\ phase = "serving" /\ running => running']_vars
  <2> SUFFICES ASSUME alwaysOn, phase = "serving", running, ~UNCHANGED vars
               PROVE  running'
      OBVIOUS
  <2>1. thread \in {"loop", "receiving"}
      BY <1>2 DEF AlwaysOnInv, IInv, FlagIsThread
  <2>2. CASE Thread
      BY <2>1, <2>2 DEF Thread, SetupFails, SetupBinds, CheckStop, Receive,
                        ReceiveFails, Report, Finish
  <2>3. CASE Handler
      BY <2>3 DEF Handler, OpenEnsures, OpenInserts, CloseErases, CloseStops,
                  StartRoute, StopRoute, ShutdownStops, ShutdownJoins, receiver
  <2> QED
      BY <1>2, <2>2, <2>3 DEF Next
<1> QED
    BY <1>1, <1>2, NextAlwaysOn, IInvHolds, PTL DEF Spec, KeptAlwaysOn

-----------------------------------------------------------------------------
\* Where stops and openings do not overlap, nobody is between the two locks of
\* onopen while another is between those of onclose, and no stop is pending
\* under a client, connected or about to be.
SpacedInv ==
    spaced /\ phase = "serving" =>
        /\ Opening = {} \/ Closing = {}
        /\ clients # {} \/ Opening # {} => ~(stopRequested /\ threadStarted)

LEMMA NextSpaced == IInv /\ SpacedInv /\ [Next]_vars => SpacedInv'
<1> SUFFICES ASSUME IInv, SpacedInv, [Next]_vars, spaced', phase' = "serving"
             PROVE  /\ Opening' = {} \/ Closing' = {}
                    /\ clients' # {} \/ Opening' # {} =>
                           ~(stopRequested' /\ threadStarted')
    BY DEF SpacedInv
<1> DEFINE Goal == /\ Opening' = {} \/ Closing' = {}
                   /\ clients' # {} \/ Opening' # {} =>
                          ~(stopRequested' /\ threadStarted')
<1> USE DEF server, receiver, handlers
<1>0. conn \in [Clients -> {"closed", "opening", "open", "closing"}]
    BY DEF IInv, TypeOK
<1>1. ASSUME NEW c \in Clients, OpenEnsures(c) PROVE Goal
  <2>1. Closing' = {}
      BY <1>0, <1>1 DEF OpenEnsures, MayStart, Closing
  <2>2. ~(stopRequested' /\ threadStarted')
      BY <1>1 DEF OpenEnsures, MayStart, Ensure
  <2> QED
      BY <2>1, <2>2
<1>2. ASSUME NEW c \in Clients, OpenInserts(c) PROVE Goal
  <2>1. Opening' \subseteq Opening /\ Closing' = Closing /\ c \in Opening
      BY <1>0, <1>2 DEF OpenInserts, Opening, Closing
  <2> QED
      BY <1>2, <2>1 DEF OpenInserts, SpacedInv
<1>3. ASSUME NEW c \in Clients, CloseErases(c) PROVE Goal
  <2>1. Opening = {} /\ Opening' = {}
      BY <1>0, <1>3 DEF CloseErases, MayStop, Opening
  <2> QED
      BY <1>3, <2>1 DEF CloseErases, SpacedInv
<1>4. ASSUME NEW c \in Clients, CloseStops(c) PROVE Goal
  <2>1. Opening' = {}
      BY <1>0, <1>4 DEF CloseStops, MayStop, Opening
  <2>2. clients' # {} => ~(stopRequested' /\ threadStarted')
      BY <1>4 DEF CloseStops, RequestStopIfIdle, SpacedInv
  <2> QED
      BY <2>1, <2>2
<1>5. CASE StartRoute
  <2>1. ~(stopRequested' /\ threadStarted') /\ UNCHANGED <<Opening, Closing>>
      BY <1>5 DEF StartRoute, MayStart, Ensure, Opening, Closing
  <2> QED
      BY <1>5, <2>1 DEF StartRoute, SpacedInv
<1>6. CASE StopRoute
  <2>1. Opening = {} /\ Opening' = {}
      BY <1>6 DEF StopRoute, MayStop, Opening
  <2>2. clients' # {} => ~(stopRequested' /\ threadStarted')
      BY <1>6 DEF StopRoute, RequestStopIfIdle, SpacedInv
  <2> QED
      BY <2>1, <2>2
<1>7. CASE ShutdownStops \/ ShutdownJoins
    BY <1>7 DEF ShutdownStops, ShutdownJoins
<1>8. CASE Thread
  <2>1. UNCHANGED <<spaced, phase, clients, stopRequested, Opening, Closing>>
      BY <1>8 DEF Thread, SetupFails, SetupBinds, CheckStop, Receive, ReceiveFails,
                  Report, Finish, Opening, Closing
  <2>2. threadStarted' => threadStarted
      BY <1>8 DEF Thread, SetupFails, SetupBinds, CheckStop, Receive, ReceiveFails,
                  Report, Finish
  <2> QED
      BY <2>1, <2>2 DEF SpacedInv
<1>9. CASE UNCHANGED vars
    BY <1>9 DEF vars, SpacedInv, Opening, Closing
<1> QED
    BY <1>1, <1>2, <1>3, <1>4, <1>5, <1>6, <1>7, <1>8, <1>9 DEF Next, Handler

\* Where stops do not overlap with openings, the receiver a client found is
\* there to stay.
THEOREM NoStopUnderClientHolds == Spec => []NoStopUnderClient
<1>1. Init => SpacedInv
    BY DEF Init, SpacedInv, Opening, Closing
<1>2. SpacedInv => NoStopUnderClient
    BY DEF SpacedInv, NoStopUnderClient
<1> QED
    BY <1>1, <1>2, NextSpaced, IInvHolds, PTL DEF Spec

-----------------------------------------------------------------------------
(* The alarm of the proxy.                                                 *)

USE AlarmConstants DEF AlarmConstants

-----------------------------------------------------------------------------
(* To the receiver the alarm makes no difference.                          *)

LEMMA ReceiverSteps == [ProxyNext]_proxyVars => [Next]_vars
<1> SUFFICES ASSUME [ProxyNext]_proxyVars PROVE [Next]_vars
    OBVIOUS
<1>1. CASE ProxyThread
  <2>1. CASE BindsAndClears
      BY <2>1 DEF BindsAndClears, Next, Thread
  <2>2. CASE ReceivesFrame
      BY <2>2 DEF ReceivesFrame, Next, Thread
  <2>3. CASE Alarms \/ AlarmFails
      BY <2>3 DEF Alarms, AlarmFails, Next, Thread
  <2>4. CASE OtherTurn
      BY <2>4 DEF OtherTurn, Next, Thread
  <2> QED
      BY <1>1, <2>1, <2>2, <2>3, <2>4 DEF ProxyThread
<1>2. CASE Handler /\ UNCHANGED alarmVars
    BY <1>2 DEF Next
<1>3. CASE CooldownEnds /\ UNCHANGED vars
    BY <1>3
<1>4. CASE UNCHANGED proxyVars
    BY <1>4 DEF proxyVars
<1> QED
    BY <1>1, <1>2, <1>3, <1>4 DEF ProxyNext

\* The proxy implements the receiver, with its fairness: a frame that takes two
\* locked sections, with the alarm between them, is one turn of the loop.
\* Whatever holds of the receiver holds of the proxy.
THEOREM ReceiverImplemented == ProxySpec => Spec
<1>1. ProxyInit => Init
    BY DEF ProxyInit
<1>2. ProxyFairness => Fairness
    BY PTL DEF ProxyFairness
<1> QED
    BY <1>1, <1>2, ReceiverSteps, PTL DEF ProxySpec, Spec

-----------------------------------------------------------------------------
(* One frame.                                                              *)

\* The oldest samples are dropped; which values the rest may have is kept.
LEMMA PrunedType ==
    ASSUME NEW S, baseline_normal_samples \in Seq(S),
           NEW n \in 0..Len(baseline_normal_samples)
    PROVE  Pruned(n) \in Seq(S)
<1> DEFINE s == baseline_normal_samples
<1>1. Len(s) \in Nat /\ \A i \in (n+1)..Len(s) : s[i] \in S
    OBVIOUS
<1> QED
    BY <1>1, SubSeqProperties DEF Pruned

LEMMA ObserveTracker ==
    ASSUME AlarmTypeOK, NEW f \in Frames
    PROVE  /\ Tracked(f) \in [persist : 0..MaxCount, miss : 0..(ClearFrames-1)]
           /\ Tracked(f).miss <= tracker.miss + 1
           /\ Misses(f) \in 0..ClearFrames /\ Misses(f) <= tracker.miss + 1
           /\ Component(f) => Tracked(f).miss = 0
<1> USE DEF AlarmTypeOK
<1>0. /\ tracker.persist \in 0..MaxCount /\ tracker.miss \in 0..(ClearFrames-1)
      /\ UpTo(MaxCount, tracker.persist + 1) \in 0..MaxCount
    BY DEF UpTo
<1>1. CASE ~f.analysed
    BY <1>0, <1>1 DEF Tracked, Misses, Component
<1>2. CASE f.analysed /\ f.best
    BY <1>0, <1>2 DEF Tracked, Misses, Component
<1>3. CASE f.analysed /\ ~f.best
  <2>1. CASE tracker.persist = 0
      BY <1>0, <1>3, <2>1 DEF Tracked, Misses, Component
  <2>2. CASE tracker.persist # 0 /\ tracker.miss + 1 >= ClearFrames
      BY <1>0, <1>3, <2>2 DEF Tracked, Misses, Component, NoTrack
  <2>3. CASE tracker.persist # 0 /\ ~(tracker.miss + 1 >= ClearFrames)
    <3>1. Tracked(f) = [tracker EXCEPT !.miss = tracker.miss + 1]
        BY <1>3, <2>3 DEF Tracked
    <3>2. tracker.miss + 1 \in 0..(ClearFrames-1)
        BY <1>0, <2>3
    <3>3. /\ Tracked(f) \in [persist : 0..MaxCount, miss : 0..(ClearFrames-1)]
          /\ Tracked(f).miss = tracker.miss + 1
        BY <3>1, <3>2
    <3>4. Misses(f) = Tracked(f).miss
        BY <2>3 DEF Misses
    <3> QED
        BY <1>3, <3>2, <3>3, <3>4 DEF Component
  <2> QED
      BY <2>1, <2>2, <2>3
<1> QED
    BY <1>1, <1>2, <1>3 DEF Frames

LEMMA ObserveHits ==
    ASSUME AlarmTypeOK, NEW f \in Frames, NEW hit \in BOOLEAN
    PROVE  Hits(f, hit) \in 0..ConsecutiveFrames
<1>1. Tracked(f).persist \in Nat
    BY ObserveTracker
<1> QED
    BY <1>1 DEF AlarmTypeOK, Hits, UpTo

LEMMA ObserveMisses ==
    ASSUME AlarmTypeOK, NEW f \in Frames, NEW hit, NEW samples
    PROVE  /\ ClearMisses(f, hit, samples) \in Nat
           /\ ClearMisses(f, hit, samples) # 0 => hotspot_active /\ ~hit
           /\ \/ ClearMisses(f, hit, samples) <= active_clear_miss_frames + 1
              \/ ClearMisses(f, hit, samples) <= tracker.miss + 1
  BY ObserveTracker DEF AlarmTypeOK, ClearMisses

\* What a frame does to the state, as the invariants need it.
LEMMA ObserveKeepsType ==
    ASSUME AlarmTypeOK, ObserveFrame
    PROVE  AlarmTypeOK'
<1> PICK f \in Frames, n \in 0..Len(baseline_normal_samples) : Observe(f, n)
    BY DEF ObserveFrame
<1> DEFINE samples == IF Learns(f, Pruned(n)) THEN Append(Pruned(n), f.signal)
                                              ELSE Pruned(n)
           hit == Hit(f, samples)
           misses == ClearMisses(f, hit, samples)
<1>1. samples \in Seq(Signals) /\ Len(samples) <= MaxSamples
  <2>1. Pruned(n) \in Seq(Signals) /\ f.signal \in Signals
      BY PrunedType DEF AlarmTypeOK, Frames
  <2> QED
      BY <2>1 DEF Observe
<1>2. hit \in BOOLEAN /\ Learns(f, Pruned(n)) \in BOOLEAN
    BY DEF Hit, Learns, Hot
<1>3. Tracked(f) \in [persist : 0..MaxCount, miss : 0..(ClearFrames-1)]
    BY ObserveTracker
<1>4. Hits(f, hit) \in 0..ConsecutiveFrames
    BY <1>2, ObserveHits
<1>5. misses \in Nat
    BY ObserveMisses
<1>6. (hotspot_active /\ misses < ClearFrames) \in BOOLEAN
      /\ (IF misses < ClearFrames THEN misses ELSE 0) \in 0..(ClearFrames-1)
    BY <1>5
<1>7. calm' \in 0..ClearFrames
    BY DEF Observe, AlarmTypeOK, UpTo
<1>8. episode' \in BOOLEAN
    BY DEF Observe, AlarmTypeOK
<1>9. dispatch' \in BOOLEAN /\ cooling' \in BOOLEAN
    BY DEF Observe, AlarmTypeOK, Due
<1>10. /\ baseline_normal_samples' = samples
       /\ tracker' = Tracked(f)
       /\ consecutive_hits' = Hits(f, hit)
       /\ hotspot_active' = (hotspot_active /\ misses < ClearFrames)
       /\ active_clear_miss_frames' = IF misses < ClearFrames THEN misses ELSE 0
    BY DEF Observe
<1> HIDE DEF samples, hit, misses
<1> QED
    BY <1>1, <1>3, <1>4, <1>6, <1>7, <1>8, <1>9, <1>10 DEF AlarmTypeOK

\* What an alarm that has just begun to learn starts with.
LEMMA ClearedType ==
    /\ <<>> \in Seq(Signals) /\ Len(<<>>) <= MaxSamples
    /\ NoTrack \in [persist : 0..MaxCount, miss : 0..(ClearFrames-1)]
    /\ 0 \in 0..(ClearFrames-1) /\ 0 \in 0..ConsecutiveFrames /\ 0 \in 0..ClearFrames
<1>1. <<>> \in Seq(Signals) /\ Len(<<>>) = 0
    OBVIOUS
<1>2. NoTrack \in [persist : 0..MaxCount, miss : 0..(ClearFrames-1)]
    BY DEF NoTrack
<1> QED
    BY <1>1, <1>2

LEMMA AlarmStepType == AlarmTypeOK /\ [ProxyNext]_proxyVars => AlarmTypeOK'
<1> SUFFICES ASSUME AlarmTypeOK, [ProxyNext]_proxyVars PROVE AlarmTypeOK'
    OBVIOUS
<1>1. CASE BindsAndClears
    BY <1>1, ClearedType DEF BindsAndClears, ClearTrackers, AlarmTypeOK
<1>2. CASE ReceivesFrame
    BY <1>2, ObserveKeepsType DEF ReceivesFrame
<1>3. CASE Alarms
    BY <1>3, ClearedType DEF Alarms, DispatchOk, AlarmTypeOK
<1>4. CASE AlarmFails
    BY <1>4 DEF AlarmFails, DispatchFails, AlarmTypeOK
<1>5. CASE CooldownEnds
    BY <1>5 DEF CooldownEnds, AlarmTypeOK
<1>6. CASE UNCHANGED alarmVars
    BY <1>6 DEF alarmVars, AlarmTypeOK
<1>7. UNCHANGED proxyVars => UNCHANGED alarmVars
    BY DEF proxyVars
<1> QED
    BY <1>1, <1>2, <1>3, <1>4, <1>5, <1>6, <1>7 DEF ProxyNext, ProxyThread, OtherTurn

\* The alarm keeps to its counters and windows, whatever frames come.
THEOREM AlarmTypeCorrect == ProxySpec => []AlarmTypeOK
<1>1. ProxyInit => AlarmTypeOK
    BY ClearedType DEF ProxyInit, AlarmInit, AlarmTypeOK
<1> QED
    BY <1>1, AlarmStepType, PTL DEF ProxySpec

-----------------------------------------------------------------------------
(* The baseline.                                                           *)

Low == {s \in Signals : s < HotspotThreshold}

\* With a guard as wide as the margin only signals below the configured
\* threshold have been learned.
LowBaseline == BaselineGuard >= BaselineMargin => baseline_normal_samples \in Seq(Low)

LEMMA ObserveKeepsLow ==
    ASSUME AlarmTypeOK, LowBaseline, ObserveFrame
    PROVE  LowBaseline'
<1> SUFFICES ASSUME BaselineGuard >= BaselineMargin
             PROVE  baseline_normal_samples' \in Seq(Low)
    BY DEF LowBaseline
<1> PICK f \in Frames, n \in 0..Len(baseline_normal_samples) : Observe(f, n)
    BY DEF ObserveFrame
<1>1. Pruned(n) \in Seq(Low)
    BY PrunedType DEF LowBaseline
<1>2. CASE Learns(f, Pruned(n))
  <2>1. f.signal \in Nat /\ f.signal \in Signals
      BY DEF Frames
  <2>2. ASSUME NEW i \in DOMAIN Pruned(n),
               f.signal + BaselineGuard < Pruned(n)[i] + BaselineMargin
        PROVE  f.signal < HotspotThreshold
    <3>1. Pruned(n)[i] \in Low
        BY <1>1
    <3>2. Pruned(n)[i] \in Nat /\ Pruned(n)[i] < HotspotThreshold
        BY <3>1 DEF Low
    <3>3. HotspotThreshold \in Nat /\ BaselineGuard \in Nat /\ BaselineMargin \in Nat
        OBVIOUS
    <3> HIDE DEF Pruned, LowBaseline
    <3> QED
        BY ONLY <2>1, <2>2, <3>2, <3>3, BaselineGuard >= BaselineMargin
  <2>3. f.signal \in Low
      BY <1>2, <2>1, <2>2 DEF Learns, Normal, Low
  <2> QED
      BY <1>1, <1>2, <2>3 DEF Observe
<1>3. CASE ~Learns(f, Pruned(n))
    BY <1>1, <1>3 DEF Observe
<1> QED
    BY <1>2, <1>3

LEMMA LowStep == AlarmTypeOK /\ LowBaseline /\ [ProxyNext]_proxyVars => LowBaseline'
<1> SUFFICES ASSUME AlarmTypeOK, LowBaseline, [ProxyNext]_proxyVars PROVE LowBaseline'
    OBVIOUS
<1>1. CASE ReceivesFrame
    BY <1>1, ObserveKeepsLow DEF ReceivesFrame
<1>2. CASE BindsAndClears
    BY <1>2 DEF BindsAndClears, ClearTrackers, LowBaseline
<1>3. CASE UNCHANGED baseline_normal_samples
    BY <1>3 DEF LowBaseline
<1>4. Alarms \/ AlarmFails \/ CooldownEnds \/ UNCHANGED alarmVars
      => UNCHANGED baseline_normal_samples
    BY DEF Alarms, AlarmFails, DispatchOk, DispatchFails, CooldownEnds, alarmVars
<1>5. UNCHANGED proxyVars => UNCHANGED alarmVars
    BY DEF proxyVars
<1> QED
    BY <1>1, <1>2, <1>3, <1>4, <1>5 DEF ProxyNext, ProxyThread, OtherTurn

\* However slowly a hotspot rises, it is not learned as normal: a signal that
\* exceeds the configured threshold by the margin always counts as hot.
THEOREM BaselineStaysNormalHolds == ProxySpec => []BaselineStaysNormal
<1>1. ProxyInit => LowBaseline
    BY DEF ProxyInit, AlarmInit, LowBaseline
<1>2. ASSUME LowBaseline PROVE BaselineStaysNormal
  <2> SUFFICES ASSUME BaselineGuard >= BaselineMargin, NEW signal \in Signals,
                      signal >= HotspotThreshold + BaselineMargin
               PROVE  Hot(signal, baseline_normal_samples)
      BY DEF BaselineStaysNormal
  <2>1. ASSUME NEW i \in DOMAIN baseline_normal_samples
        PROVE  signal >= baseline_normal_samples[i] + BaselineMargin
    <3>1. baseline_normal_samples[i] \in Low
        BY <1>2 DEF LowBaseline
    <3>2. signal \in Nat /\ BaselineMargin \in Nat /\ HotspotThreshold \in Nat
        OBVIOUS
    <3>3. baseline_normal_samples[i] \in Nat
          /\ baseline_normal_samples[i] < HotspotThreshold
        BY <3>1 DEF Low
    <3> QED
        BY <3>2, <3>3
  <2>2. signal >= HotspotThreshold
      OBVIOUS
  <2> QED
      BY <2>1, <2>2 DEF Hot
<1> QED
    BY <1>1, <1>2, LowStep, AlarmTypeCorrect, PTL DEF ProxySpec

-----------------------------------------------------------------------------
(* One alarm per episode.                                                  *)

\* No counter runs ahead of the frames that were really calm.
MissesAreCalm == tracker.miss <= calm /\ active_clear_miss_frames <= calm

\* A hotspot is active as long as it is not gone, for the server monitors on its
\* own; and the receiver that reported it is still there to see it.
StaysReported ==
    alwaysOn =>
        /\ episode => hotspot_active
        /\ episode \/ dispatch =>
               /\ thread # "setup"
               /\ phase = "serving" => thread \in {"loop", "receiving"}

OnceInv == MissesAreCalm /\ StaysReported

LEMMA ObserveKeepsCount ==
    ASSUME AlarmTypeOK, MissesAreCalm, ObserveFrame
    PROVE  MissesAreCalm' /\ (episode' => episode /\ (hotspot_active => hotspot_active'))
<1> PICK f \in Frames, n \in 0..Len(baseline_normal_samples) : Observe(f, n)
    BY DEF ObserveFrame
<1> DEFINE samples == IF Learns(f, Pruned(n)) THEN Append(Pruned(n), f.signal)
                                              ELSE Pruned(n)
           hit == Hit(f, samples)
           misses == ClearMisses(f, hit, samples)
<1>1. /\ calm \in Nat /\ calm <= ClearFrames /\ tracker.miss \in Nat
      /\ active_clear_miss_frames \in Nat /\ ClearFrames \in Nat \ {0}
    BY DEF AlarmTypeOK
<1>2. /\ Tracked(f).miss \in Nat /\ Tracked(f).miss < ClearFrames
      /\ Tracked(f).miss <= tracker.miss + 1
      /\ Component(f) => Tracked(f).miss = 0
  <2>1. Tracked(f).miss \in 0..(ClearFrames-1)
      BY ObserveTracker
  <2> QED
      BY <1>1, <2>1, ObserveTracker
<1>3. /\ misses \in Nat /\ (misses # 0 => hotspot_active /\ ~hit)
      /\ misses <= calm + 1
    BY <1>1, ObserveMisses DEF MissesAreCalm
<1>4. f.analysed /\ hit => Component(f)
    BY DEF Hit, Component
<1>5. /\ tracker' = Tracked(f)
      /\ hotspot_active' = (hotspot_active /\ misses < ClearFrames)
      /\ active_clear_miss_frames' = IF misses < ClearFrames THEN misses ELSE 0
      /\ calm' = IF f.analysed /\ hit THEN 0 ELSE UpTo(ClearFrames, calm + 1)
      /\ episode' = (episode /\ calm' < ClearFrames)
    BY DEF Observe
<1> HIDE DEF samples, hit, misses
<1>6. CASE f.analysed /\ hit
  <2>1. misses = 0 /\ Tracked(f).miss = 0 /\ calm' = 0
      BY <1>2, <1>3, <1>4, <1>5, <1>6
  <2>2. tracker'.miss = 0 /\ active_clear_miss_frames' = 0
      BY <1>1, <1>5, <2>1
  <2>3. MissesAreCalm' /\ misses < ClearFrames
      BY <1>1, <2>1, <2>2 DEF MissesAreCalm
  <2> QED
      BY <1>5, <2>3
<1>7. CASE ~(f.analysed /\ hit)
  <2>1. calm' = IF calm + 1 < ClearFrames THEN calm + 1 ELSE ClearFrames
      BY <1>1, <1>5, <1>7 DEF UpTo
  <2>2. tracker'.miss <= calm'
      BY <1>1, <1>2, <1>5, <2>1 DEF MissesAreCalm
  <2>3. active_clear_miss_frames' <= calm'
      BY <1>1, <1>3, <1>5, <2>1
  <2>4. calm' < ClearFrames => misses < ClearFrames
      BY <1>1, <1>3, <2>1
  <2> QED
      BY <1>5, <2>2, <2>3, <2>4 DEF MissesAreCalm
<1> QED
    BY <1>6, <1>7

\* What the receiver does keeps the thread that reported a hotspot where it is.
LEMMA ThreadStays ==
    ASSUME AlwaysOnInv, IInv, [Next]_vars, alwaysOn, thread # "setup",
           phase = "serving" => thread \in {"loop", "receiving"}
    PROVE  /\ thread' # "setup"
           /\ phase' = "serving" => thread' \in {"loop", "receiving"}
<1> USE DEF server, receiver, handlers
<1>1. ASSUME NEW c \in Clients, OpenEnsures(c)
      PROVE  UNCHANGED thread /\ phase = "serving" /\ phase' = phase
  <2>1. phase = "serving" /\ phase' = phase
      BY <1>1 DEF OpenEnsures, MayStart
  <2>2. threadStarted
      BY <2>1 DEF IInv, FlagIsThread, Alive
  <2> QED
      BY <1>1, <2>1, <2>2 DEF OpenEnsures, Ensure
<1>2. ASSUME StartRoute PROVE UNCHANGED thread /\ phase = "serving" /\ phase' = phase
  <2>1. phase = "serving" /\ phase' = phase
      BY <1>2 DEF StartRoute, MayStart
  <2>2. threadStarted
      BY <2>1 DEF IInv, FlagIsThread, Alive
  <2> QED
      BY <1>2, <2>1, <2>2 DEF StartRoute, Ensure
<1>3. CASE Thread
    BY <1>3 DEF AlwaysOnInv, Thread, SetupFails, SetupBinds, CheckStop, Receive,
                ReceiveFails, Report, Finish
<1>4. ASSUME NEW c \in Clients, OpenInserts(c) \/ CloseErases(c) \/ CloseStops(c)
      PROVE  UNCHANGED <<thread, phase>>
    BY <1>4 DEF OpenInserts, CloseErases, CloseStops
<1>5. CASE StopRoute
    BY <1>5 DEF StopRoute
<1>6. CASE ShutdownStops \/ ShutdownJoins
    BY <1>6 DEF ShutdownStops, ShutdownJoins
<1>7. CASE UNCHANGED vars
    BY <1>7 DEF vars
<1> QED
    BY <1>1, <1>2, <1>3, <1>4, <1>5, <1>6, <1>7 DEF Next, Handler

LEMMA AlwaysOnStays == [Next]_vars => UNCHANGED alwaysOn
  BY DEF Next, Handler, Thread, OpenEnsures, OpenInserts, CloseErases, CloseStops,
         StartRoute, StopRoute, ShutdownStops, ShutdownJoins, SetupFails, SetupBinds,
         CheckStop, Receive, ReceiveFails, Report, Finish, server, handlers, vars

LEMMA OnceStep ==
    AlarmTypeOK /\ IInv /\ AlwaysOnInv /\ OnceInv /\ [ProxyNext]_proxyVars => OnceInv'
<1> SUFFICES ASSUME AlarmTypeOK, IInv, AlwaysOnInv, OnceInv, [ProxyNext]_proxyVars
             PROVE  OnceInv'
    OBVIOUS
<1>0. [Next]_vars /\ UNCHANGED alwaysOn
    BY ReceiverSteps, AlwaysOnStays
<1>1. CASE BindsAndClears
  <2>1. thread = "setup" /\ UNCHANGED <<dispatch, calm, episode>>
      BY <1>1 DEF BindsAndClears, SetupBinds, ClearTrackers
  <2>2. alwaysOn => ~episode /\ ~dispatch
      BY <2>1 DEF OnceInv, StaysReported
  <2>3. MissesAreCalm'
    <3>1. tracker'.miss = 0 /\ active_clear_miss_frames' = 0 /\ calm' \in Nat
        BY <1>1, <2>1 DEF BindsAndClears, ClearTrackers, NoTrack, AlarmTypeOK
    <3> QED
        BY <3>1 DEF MissesAreCalm
  <2> QED
      BY <1>0, <2>1, <2>2, <2>3 DEF OnceInv, StaysReported
<1>2. CASE ReceivesFrame
  <2>1. MissesAreCalm' /\ (episode' => episode /\ (hotspot_active => hotspot_active'))
      BY <1>2, ObserveKeepsCount DEF ReceivesFrame, OnceInv
  <2>2. thread' \in {"loop", "receiving"}
      BY <1>2 DEF ReceivesFrame, Receive, vars
  <2> QED
      BY <1>0, <2>1, <2>2 DEF OnceInv, StaysReported
<1>3. CASE Alarms
  <2>1. MissesAreCalm'
      BY <1>3 DEF Alarms, DispatchOk, OnceInv, MissesAreCalm, AlarmTypeOK
  <2>2. thread' = "loop" /\ hotspot_active'
      BY <1>3 DEF Alarms, DispatchOk, Receive
  <2> QED
      BY <2>1, <2>2 DEF OnceInv, StaysReported
<1>4. CASE AlarmFails
  <2>1. thread' = "loop" /\ UNCHANGED <<tracker, active_clear_miss_frames, calm,
                                        episode, hotspot_active>>
      BY <1>4 DEF AlarmFails, DispatchFails, Receive
  <2> QED
      BY <1>0, <2>1 DEF OnceInv, MissesAreCalm, StaysReported
<1>5. ASSUME UNCHANGED <<tracker, active_clear_miss_frames, calm, episode,
                         hotspot_active, dispatch>>
      PROVE  OnceInv'
  <2>1. MissesAreCalm'
      BY <1>5 DEF OnceInv, MissesAreCalm
  <2>2. ASSUME alwaysOn', episode' \/ dispatch'
        PROVE  /\ thread' # "setup"
               /\ phase' = "serving" => thread' \in {"loop", "receiving"}
      BY <1>0, <1>5, <2>2, ThreadStays DEF OnceInv, StaysReported
  <2> QED
      BY <1>0, <1>5, <2>1, <2>2 DEF OnceInv, StaysReported
<1>6. CooldownEnds \/ UNCHANGED alarmVars
      => UNCHANGED <<tracker, active_clear_miss_frames, calm, episode,
                     hotspot_active, dispatch>>
    BY DEF CooldownEnds, alarmVars
<1>7. UNCHANGED proxyVars => UNCHANGED alarmVars
    BY DEF proxyVars
<1> QED
    BY <1>1, <1>2, <1>3, <1>4, <1>5, <1>6, <1>7 DEF ProxyNext, ProxyThread, OtherTurn

\* A server that monitors on its own does not report a hotspot again before it
\* was gone for ClearFrames frames, whatever clients and routes do meanwhile.
THEOREM OneAlarmPerEpisodeHolds == ProxySpec => OneAlarmPerEpisode
<1>1. ProxyInit => OnceInv
    BY ClearedType DEF ProxyInit, AlarmInit, OnceInv, MissesAreCalm, StaysReported, NoTrack
<1>2. ProxyInit => IInv /\ AlwaysOnInv
    BY InitIInv DEF ProxyInit, Init, AlwaysOnInv
<1>3. IInv /\ AlwaysOnInv /\ [ProxyNext]_proxyVars => IInv' /\ AlwaysOnInv'
    BY ReceiverSteps, NextIInv, NextAlwaysOn
<1>4. OnceInv => [alwaysOn /\ ~hotspot_active /\ hotspot_active' => ~episode]_proxyVars
    BY DEF OnceInv, StaysReported
<1> QED
    BY <1>1, <1>2, <1>3, <1>4, OnceStep, AlarmTypeCorrect, PTL
       DEF ProxySpec, OneAlarmPerEpisode
=============================================================================
