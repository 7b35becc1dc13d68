---------------------------- MODULE MotorControl ----------------------------
(***************************************************************************)
(* The servo controller of the STM32 board (STM32/SMT_SPI_Slave/Core/Src/  *)
(* motor.c).  A motor is moved in two ways: jogged ("left press") until it *)
(* is released or reaches the end of its range, or driven to a target by a *)
(* set command.  Set commands wait in a queue and run one at a time: the   *)
(* next starts when every motor of the active one has reached its target.  *)
(* Every manual command empties that queue.                                *)
(*                                                                         *)
(* The main loop runs commands and Motor_Update one after the other, so    *)
(* each is one action.  A set command is a function from the motors of its *)
(* mask to angles.  The 20 ms step interval of a motor is the choice of    *)
(* the set "due" in Update.                                                *)
(***************************************************************************)
EXTENDS Integers, Sequences, FiniteSets, TLC

CONSTANTS Motors,      \* the servos, MOTOR_NUM of them
          MaxAngle,    \* MOTOR_ANGLE_MAX; MOTOR_ANGLE_MIN is 0
          Center,      \* the angle set by Motor_Init
          MaxSpeed,    \* MOTOR_SPEED_MAX; MOTOR_SPEED_MIN is 1
          QueueCap,    \* length of s_set_queue
          I2cFails,    \* may an I2C write to the PWM chip fail?
          SetAngles,   \* bound: the angles that set commands ask for
          MaxSets      \* bound: set commands accepted in a behaviour

ASSUME MotorConstants ==
    /\ IsFiniteSet(Motors) /\ Motors # {}
    /\ MaxAngle \in Nat \ {0} /\ Center \in 0..MaxAngle
    /\ MaxSpeed \in Nat \ {0} /\ QueueCap \in Nat \ {0}
    /\ I2cFails \in BOOLEAN /\ MaxSets \in Nat
    /\ SetAngles \subseteq 0..MaxAngle

VARIABLES angle,    \* s_angle: the angle last commanded to the servo
          target,   \* s_target_angle
          moving,   \* s_moving: -1 and 1 while jogged left and right
          speed,    \* s_speed_deg
          pwm,      \* what the PWM chip outputs for the servo
          queue,    \* s_set_queue, oldest first
          active,   \* s_set_active_mask; {} is s_set_queue_active = false
          halted,   \* history: motors stopped since their last command to move
          accepted  \* history: set commands accepted so far

vars == <<angle, target, moving, speed, pwm, queue, active, halted, accepted>>

Angles == 0..MaxAngle
Off == -1                  \* the full-off bit written by pca_release_pwm
SetCommands == UNION {[mask -> SetAngles] : mask \in (SUBSET Motors) \ {{}}}

TypeOK ==
    /\ angle \in [Motors -> Angles]
    /\ target \in [Motors -> Angles]
    /\ moving \in [Motors -> {-1, 0, 1}]
    /\ speed \in [Motors -> 1..MaxSpeed]
    /\ pwm \in [Motors -> Angles \union {Off}]
    /\ queue \in Seq(SetCommands) /\ Len(queue) <= QueueCap
    /\ active \subseteq Motors
    /\ halted \subseteq Motors
    /\ accepted \in 0..MaxSets

\* Motor_Init: when the PWM chip does not answer, main() goes on with the
\* servos not driven.
Init ==
    /\ angle = [m \in Motors |-> Center]
    /\ target = [m \in Motors |-> Center]
    /\ moving = [m \in Motors |-> 0]
    /\ speed = [m \in Motors |-> 1]
    /\ pwm \in {[m \in Motors |-> Center], [m \in Motors |-> Off]}
    /\ queue = <<>>
    /\ active = {}
    /\ halted = Motors
    /\ accepted = 0

Clamp(a) == IF a < 0 THEN 0 ELSE IF a > MaxAngle THEN MaxAngle ELSE a

\* pca_set_pwm and pca_release_pwm ignore the status of the I2C write.
Outputs(m, value) == IF I2cFails THEN {value, pwm[m]} ELSE {value}
Failures == IF I2cFails THEN SUBSET Motors ELSE {{}}
-----------------------------------------------------------------------------
(***************************************************************************)
(* Commands                                                                *)
(***************************************************************************)
\* Mutant: the active set is cancelled and the queue kept.
ClearSetQueue_keepsQueue == queue' = queue /\ active' = {}

\* motor_clear_set_queue
ClearSetQueue == queue' = <<>> /\ active' = {}

\* "motor<N> set <deg>" and "setall": refused when the queue is full.
EnqueueSet(set) ==
    /\ accepted < MaxSets
    /\ Len(queue) < QueueCap
    /\ queue' = Append(queue, set)
    /\ accepted' = accepted + 1
    /\ halted' = halted \ DOMAIN set
    /\ UNCHANGED <<angle, target, moving, speed, pwm, active>>

\* "motor<N> speed <n>"
SetSpeed(m, s) ==
    /\ speed' = [speed EXCEPT ![m] = s]
    /\ UNCHANGED <<angle, target, moving, pwm, queue, active, halted, accepted>>

\* "motor<N> left <delta>" and "motor<N> right <delta>"
MoveRelative(m, delta) ==
    /\ ClearSetQueue
    /\ target' = [target EXCEPT ![m] = Clamp(target[m] + delta)]
    /\ moving' = [moving EXCEPT ![m] = 0]
    /\ halted' = halted \ {m}
    /\ UNCHANGED <<angle, speed, pwm, accepted>>

\* Mutant: a press leaves the set queue alone.
StartMove_keepsQueue(m, dir) ==
    /\ \E out \in Outputs(m, angle[m]) : pwm' = [pwm EXCEPT ![m] = out]
    /\ target' = [target EXCEPT ![m] = angle[m]]
    /\ moving' = [moving EXCEPT ![m] = dir]
    /\ halted' = halted \ {m}
    /\ UNCHANGED <<angle, speed, accepted, queue, active>>

\* Mutant: a press does not drive the servo again.
StartMove_notDriven(m, dir) ==
    /\ ClearSetQueue
    /\ target' = [target EXCEPT ![m] = angle[m]]
    /\ moving' = [moving EXCEPT ![m] = dir]
    /\ halted' = halted \ {m}
    /\ UNCHANGED <<angle, speed, pwm, accepted>>

\* "motor<N> left press" and "motor<N> right press"
StartMove(m, dir) ==
    /\ ClearSetQueue
    /\ \E out \in Outputs(m, angle[m]) : pwm' = [pwm EXCEPT ![m] = out]
    /\ target' = [target EXCEPT ![m] = angle[m]]
    /\ moving' = [moving EXCEPT ![m] = dir]
    /\ halted' = halted \ {m}
    /\ UNCHANGED <<angle, speed, accepted>>

\* Motor_Stop holds the current angle and Motor_Release turns the output off.
Halt(m, output) ==
    /\ ClearSetQueue
    /\ moving' = [moving EXCEPT ![m] = 0]
    /\ target' = [target EXCEPT ![m] = angle[m]]
    /\ \E out \in Outputs(m, output) : pwm' = [pwm EXCEPT ![m] = out]
    /\ halted' = halted \union {m}
    /\ UNCHANGED <<angle, speed, accepted>>

Stop(m) == Halt(m, angle[m])
Release(m) == Halt(m, Off)

\* "stopall"
StopAll ==
    /\ ClearSetQueue
    /\ moving' = [m \in Motors |-> 0]
    /\ target' = angle
    /\ halted' = Motors
    /\ UNCHANGED <<angle, speed, pwm, accepted>>
-----------------------------------------------------------------------------
(***************************************************************************)
(* Motor_Update                                                            *)
(***************************************************************************)
\* motor_start_next_queued_set before the motors are stepped
StartsFirst == active = {} /\ queue # <<>>
Applied(set, f) == [m \in Motors |-> IF m \in DOMAIN set THEN set[m] ELSE f[m]]
Unjogged(set, f) == [m \in Motors |-> IF m \in DOMAIN set THEN 0 ELSE f[m]]

\* The motors with something to do, whose interval may have expired.  A set
\* applied in this call has taken its tick now: its motors wait.
MayStep == {m \in Motors : /\ moving[m] # 0 \/ angle[m] # target[m]
                           /\ StartsFirst => m \notin DOMAIN Head(queue)}

Started == [target |-> IF StartsFirst THEN Applied(Head(queue), target) ELSE target,
            moving |-> IF StartsFirst THEN Unjogged(Head(queue), moving) ELSE moving,
            queue  |-> IF StartsFirst THEN Tail(queue) ELSE queue,
            active |-> IF StartsFirst THEN DOMAIN Head(queue) ELSE active]

\* Mutant: a step towards the target is not cut short at the target.
SetStep_overshoots(m, goal) ==
    IF goal > angle[m] THEN Clamp(angle[m] + speed[m]) ELSE Clamp(angle[m] - speed[m])

\* A set never passes its target.
SetStep(m, goal) ==
    IF goal > angle[m]
    THEN IF angle[m] + speed[m] > goal THEN goal ELSE angle[m] + speed[m]
    ELSE IF angle[m] - speed[m] < goal THEN goal ELSE angle[m] - speed[m]

\* The angle after one step: jogging (dir) goes on to the end of the range.
NextAngle(m, dir, goal) ==
    IF dir # 0 THEN Clamp(angle[m] + dir * speed[m]) ELSE SetStep(m, goal)

\* Jogged motors at the end of their range are released, which also empties
\* the queue.
AtLimit(dir, a) == (dir = -1 /\ a = 0) \/ (dir = 1 /\ a = MaxAngle)

\* Mutant: the set is complete when one of its motors has arrived.
SetComplete_one(mask, a, t, j) == \E m \in mask : j[m] = 0 /\ a[m] = t[m]

\* motor_active_set_complete
SetComplete(mask, a, t, j) == \A m \in mask : j[m] = 0 /\ a[m] = t[m]

Update(due) ==
    LET start == Started
        angle1 == [m \in Motors |-> IF m \in due
                                    THEN NextAngle(m, start.moving[m], start.target[m])
                                    ELSE angle[m]]
        limit == {m \in due : AtLimit(start.moving[m], angle1[m])}
        target1 == [m \in Motors |->
                       IF m \in limit \/ (start.moving[m] # 0 /\ angle1[m] # angle[m])
                       THEN angle1[m] ELSE start.target[m]]
        moving1 == [m \in Motors |-> IF m \in limit THEN 0 ELSE start.moving[m]]
        queue1 == IF limit # {} THEN <<>> ELSE start.queue
        active1 == IF limit # {} THEN {} ELSE start.active
        done == active1 # {} /\ SetComplete(active1, angle1, target1, moving1)
        again == done /\ queue1 # <<>>
    IN  /\ UNCHANGED <<speed, accepted>>
        /\ angle' = angle1
        /\ target' = IF again THEN Applied(Head(queue1), target1) ELSE target1
        /\ moving' = IF again THEN Unjogged(Head(queue1), moving1) ELSE moving1
        /\ queue' = IF again THEN Tail(queue1) ELSE queue1
        /\ active' = IF again THEN DOMAIN Head(queue1)
                     ELSE IF done THEN {} ELSE active1
        /\ \E lost, kept \in Failures :
               pwm' = [m \in Motors |->
                          IF m \in limit \ kept THEN Off
                          ELSE IF angle1[m] # angle[m] /\ m \notin lost THEN angle1[m]
                          ELSE pwm[m]]
        /\ halted' = halted \union limit

UpdateStep == \E due \in SUBSET MayStep : Update(due)
-----------------------------------------------------------------------------
EnqueueStep == \E set \in SetCommands :
                  (Cardinality(DOMAIN set) = 1 \/ DOMAIN set = Motors) /\ EnqueueSet(set)
SpeedStep == \E m \in Motors, s \in 1..MaxSpeed : SetSpeed(m, s)
RelativeStep == \E m \in Motors, delta \in -MaxAngle..MaxAngle : MoveRelative(m, delta)
PressStep == \E m \in Motors, dir \in {-1, 1} : StartMove(m, dir)
StopStep == \E m \in Motors : Stop(m)
ReleaseStep == \E m \in Motors : Release(m)

\* Motor_ParseAndRun, and "stopall" of processUartCommand
Command == \/ EnqueueStep
           \/ SpeedStep
           \/ RelativeStep
           \/ PressStep
           \/ StopStep
           \/ ReleaseStep
           \/ StopAll

Next == UpdateStep \/ Command

Spec == Init /\ [][Next]_vars

(***************************************************************************)
(* The main loop never blocks for good (its UART writes end), so Update    *)
(* keeps running, and the tick goes on, so the step interval of each motor *)
(* keeps expiring.  Motors need not be due in the same call.               *)
(***************************************************************************)
MotorDue(m) == \E due \in SUBSET MayStep : (m \in MayStep => m \in due) /\ Update(due)

FairSpec == /\ Spec
            /\ \A m \in Motors : WF_vars(MotorDue(m))
-----------------------------------------------------------------------------
(***************************************************************************)
(* Properties                                                              *)
(***************************************************************************)
\* A motor that was stopped or released (by a command, or at the end of its
\* range) does not move until a later command asks it to: no set queued
\* before the stop, and no target left over, can start it again.
HaltedStaysPut ==
    [][\A m \in halted \intersect halted' : angle'[m] = angle[m]]_vars

\* The motors of the active set are not being jogged: a press cancels the
\* set, and a set that starts takes over a jogged motor.
ActiveNotJogged == \A m \in active : moving[m] = 0

\* No command and no jog takes a servo out of its range; while the I2C bus works
\* it is driven at the angle the firmware reports ("OK a b c") or not at all,
\* and a jogged servo is driven.
OutputIsReported ==
    \A m \in Motors :
        /\ angle[m] \in 0..MaxAngle
        /\ I2cFails \/ (/\ pwm[m] \in {angle[m], Off}
                        /\ moving[m] # 0 => pwm[m] = angle[m])

\* Queued sets run one at a time and in the order they were accepted: when the
\* next starts, every motor of the previous one has arrived at its target.
NextSetWaits ==
    [][active # {} /\ active' # {} /\ Len(queue') < Len(queue) =>
          /\ \A m \in active : angle'[m] = target[m]
          /\ active' = DOMAIN Head(queue)
          /\ \A m \in active' : target'[m] = Head(queue)[m]
          /\ queue' = Tail(queue)]_vars

\* Every set command accepted with "OK" ends: its motors arrive, or a later
\* manual command (or a jog that ends at the limit) cancels it.
Ended == accepted - Len(queue) - (IF active = {} THEN 0 ELSE 1)
EverySetEnds ==
    \A k \in 1..MaxSets : (accepted >= k) ~> (Ended >= k)
=============================================================================
