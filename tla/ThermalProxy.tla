---------------------------- MODULE ThermalProxy ----------------------------
(***************************************************************************)
(* The Crow server's thermal proxy: the receiver thread, started and       *)
(* stopped by the web server's handlers (ThermalReceiver), evaluates each  *)
(* frame that a packet completes (ThermalAlarm).  A thread that begins     *)
(* forgets what the one before it has learned and reported.                *)
(***************************************************************************)
EXTENDS ThermalReceiver, ThermalAlarm

proxyVars == <<vars, alarmVars>>

ProxyInit == Init /\ AlarmInit

\* The socket is bound, the trackers are cleared, the state is reported.
BindsAndClears == SetupBinds /\ ClearTrackers

\* A packet completes a frame.  If the frame raises the alarm, the thread is not
\* back in its loop before the alarm is sent.
ReceivesFrame ==
    /\ thread = "receiving"
    /\ ObserveFrame
    /\ IF dispatch' THEN UNCHANGED vars ELSE Receive

Alarms == DispatchOk /\ Receive
AlarmFails == DispatchFails /\ Receive

\* Any other turn of the loop: no packet, or one that completes no frame.
OtherTurn ==
    /\ ~dispatch
    /\ SetupFails \/ CheckStop \/ Receive \/ ReceiveFails \/ Report \/ Finish
    /\ UNCHANGED alarmVars

ProxyThread == BindsAndClears \/ ReceivesFrame \/ Alarms \/ AlarmFails \/ OtherTurn

ProxyNext ==
    \/ ProxyThread
    \/ Handler /\ UNCHANGED alarmVars
    \/ CooldownEnds /\ UNCHANGED vars

\* The fairness of ThermalReceiver: a turn of the thread ends, be it with an alarm.
\* Besides, time goes on, and a broker that is tried again and again is reached
\* some time.  Nothing is assumed of the camera.
ProxyFairness ==
    /\ Fairness
    /\ WF_proxyVars(CooldownEnds /\ UNCHANGED vars)
    /\ SF_proxyVars(Alarms)

ProxySpec == ProxyInit /\ [][ProxyNext]_proxyVars /\ ProxyFairness

-----------------------------------------------------------------------------
\* A hotspot that is reported by a server that monitors on its own is not reported
\* again before it was gone for ClearFrames frames, whatever clients do: no
\* restart of the receiver makes the alarm forget it.
OneAlarmPerEpisode ==
    [][alwaysOn /\ ~hotspot_active /\ hotspot_active' => ~episode]_proxyVars

Lasts == /\ consecutive_hits >= ConsecutiveFrames
         /\ BaselineEnabled => Ready(baseline_normal_samples)

\* A frame comes in which the hotspot is still there.
StillHot == Lasts /\ Lasts' /\ ReceivesFrame

\* A hotspot that lasts is reported, if frames keep coming, it is followed from
\* one to the next and the baseline stays ready: whatever attempts fail before.
HotspotIsReported ==
    (<>[]Lasts /\ []<><<StillHot>>_proxyVars) => <>[]hotspot_active
=============================================================================
