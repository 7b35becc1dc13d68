------------------------- MODULE MotorControlProofs -------------------------
(***************************************************************************)
(* Proofs about the servo controller, for any number of motors, angles,    *)
(* speeds and set commands, and whether or not the I2C bus works: which    *)
(* motors a step may move, in what order sets run and what the servos are  *)
(* driven at.                                                              *)
(***************************************************************************)
EXTENDS MotorControl, TLAPS

-----------------------------------------------------------------------------
(* The inductive invariant.                                                *)

Typed ==
    /\ angle \in [Motors -> Angles]
    /\ target \in [Motors -> Angles]
    /\ moving \in [Motors -> {-1, 0, 1}]
    /\ speed \in [Motors -> 1..MaxSpeed]
    /\ pwm \in [Motors -> Angles \union {Off}]
    /\ queue \in Seq(SetCommands)
    /\ active \subseteq Motors /\ halted \subseteq Motors

\* A motor that was stopped has nothing to do, now or in a set that waits.
HaltedIsIdle ==
    \A m \in halted : /\ moving[m] = 0 /\ target[m] = angle[m]
                      /\ m \notin active
                      /\ \A i \in 1..Len(queue) : m \notin DOMAIN queue[i]

Driven ==
    ~I2cFails => \A m \in Motors : /\ pwm[m] \in {angle[m], Off}
                                   /\ moving[m] # 0 => pwm[m] = angle[m]

MInv == Typed /\ HaltedIsIdle /\ ActiveNotJogged /\ Driven

-----------------------------------------------------------------------------
(* What the operators of the model return.                                 *)

LEMMA SetCommandFacts ==
    ASSUME NEW set \in SetCommands
    PROVE  /\ DOMAIN set \subseteq Motors /\ DOMAIN set # {}
           /\ \A m \in DOMAIN set : set[m] \in Angles
<1>1. PICK mask \in (SUBSET Motors) \ {{}} : set \in [mask -> SetAngles]
    BY DEF SetCommands
<1>2. DOMAIN set = mask /\ \A m \in DOMAIN set : set[m] \in SetAngles
    BY <1>1
<1> QED
    BY <1>1, <1>2, MotorConstants DEF Angles

LEMMA ApplyFacts ==
    ASSUME NEW set \in SetCommands, NEW f \in [Motors -> Angles],
           NEW j \in [Motors -> {-1, 0, 1}]
    PROVE  /\ Applied(set, f) \in [Motors -> Angles]
           /\ Unjogged(set, j) \in [Motors -> {-1, 0, 1}]
           /\ \A m \in Motors :
                 /\ m \in DOMAIN set => Applied(set, f)[m] = set[m] /\ Unjogged(set, j)[m] = 0
                 /\ m \notin DOMAIN set => /\ Applied(set, f)[m] = f[m]
                                           /\ Unjogged(set, j)[m] = j[m]
  BY SetCommandFacts DEF Applied, Unjogged

LEMMA ClampRange == \A a \in Int : Clamp(a) \in Angles
  BY MotorConstants DEF Clamp, Angles

LEMMA NextAngleRange ==
    ASSUME Typed, NEW m \in Motors, NEW dir \in {-1, 0, 1}, NEW goal \in Angles
    PROVE  NextAngle(m, dir, goal) \in Angles
<1>1. angle[m] \in 0..MaxAngle /\ speed[m] \in 1..MaxSpeed /\ goal \in 0..MaxAngle
      /\ MaxAngle \in Nat /\ MaxSpeed \in Nat
    BY MotorConstants DEF Typed, Angles
<1>2. CASE dir = 0
    BY <1>1, <1>2 DEF NextAngle, SetStep, Angles
<1>3. CASE dir # 0
  <2>1. angle[m] + dir * speed[m] \in Int
      BY <1>1
  <2> QED
      BY <1>3, <2>1, ClampRange DEF NextAngle
<1> QED
    BY <1>2, <1>3

\* The front of a queue of sets, and what is behind.
LEMMA FrontOfQueue ==
    ASSUME NEW q \in Seq(SetCommands), q # <<>>
    PROVE  /\ Head(q) \in SetCommands /\ Tail(q) \in Seq(SetCommands)
           /\ Len(q) \in Nat /\ Len(Tail(q)) = Len(q) - 1
           /\ Head(q) = q[1] /\ 1 \in 1..Len(q)
           /\ \A i \in 1..Len(Tail(q)) : i + 1 \in 1..Len(q) /\ Tail(q)[i] = q[i + 1]
  OBVIOUS

LEMMA BackOfQueue ==
    ASSUME NEW q \in Seq(SetCommands), NEW set \in SetCommands,
           NEW r, r = Append(q, set)
    PROVE  /\ r \in Seq(SetCommands) /\ Len(r) = Len(q) + 1 /\ Len(q) \in Nat
           /\ \A i \in 1..Len(r) : r[i] = set \/ (i \in 1..Len(q) /\ r[i] = q[i])
<1>1. /\ r \in Seq(SetCommands) /\ Len(r) = Len(q) + 1 /\ Len(q) \in Nat
      /\ r[Len(q) + 1] = set
      /\ \A i \in 1..Len(q) : r[i] = q[i]
    OBVIOUS
<1>2. ASSUME NEW i \in 1..Len(r)
      PROVE  r[i] = set \/ (i \in 1..Len(q) /\ r[i] = q[i])
  <2>1. i \in 1..Len(q) \/ i = Len(q) + 1
      BY <1>1
  <2>2. CASE i \in 1..Len(q)
      BY <1>1, <2>2
  <2>3. CASE i = Len(q) + 1
      BY <1>1, <2>3
  <2> QED
      BY <2>1, <2>2, <2>3
<1> QED
    BY <1>1, <1>2

-----------------------------------------------------------------------------
LEMMA InitMInv == Init => MInv
<1> SUFFICES ASSUME Init PROVE MInv
    OBVIOUS
<1>1. Center \in Angles
    BY MotorConstants DEF Angles
<1>2. speed \in [Motors -> 1..MaxSpeed]
    BY MotorConstants DEF Init
<1>3. Typed
    BY <1>1, <1>2 DEF Init, Typed
<1>4. HaltedIsIdle /\ ActiveNotJogged
    BY DEF Init, HaltedIsIdle, ActiveNotJogged
<1>5. Driven
  <2>1. CASE pwm = [m \in Motors |-> Center]
      BY <2>1 DEF Init, Driven
  <2>2. CASE pwm = [m \in Motors |-> Off]
      BY <2>2 DEF Init, Driven
  <2> QED
      BY <2>1, <2>2 DEF Init
<1> QED
    BY <1>3, <1>4, <1>5 DEF MInv

-----------------------------------------------------------------------------
(* Commands.                                                               *)

\* What a step may do to the motors that stay halted and to the sets.
Orderly ==
    /\ \A m \in halted \intersect halted' : angle'[m] = angle[m]
    /\ active # {} /\ active' # {} /\ Len(queue') < Len(queue) =>
          /\ \A m \in active : angle'[m] = target[m]
          /\ active' = DOMAIN Head(queue)
          /\ \A m \in active' : target'[m] = Head(queue)[m]
          /\ queue' = Tail(queue)

LEMMA EnqueueStepKeeps == MInv /\ EnqueueStep => MInv' /\ Orderly
<1> SUFFICES ASSUME MInv, NEW set \in SetCommands, EnqueueSet(set)
             PROVE  MInv' /\ Orderly
    BY DEF EnqueueStep
<1>1. /\ queue' = Append(queue, set) /\ halted' = halted \ DOMAIN set
      /\ UNCHANGED <<angle, target, moving, speed, pwm, active>>
    BY DEF EnqueueSet
<1>2. /\ queue' \in Seq(SetCommands) /\ Len(queue') = Len(queue) + 1 /\ Len(queue) \in Nat
      /\ \A i \in 1..Len(queue') : queue'[i] = set \/ (i \in 1..Len(queue) /\ queue'[i] = queue[i])
  <2>1. queue \in Seq(SetCommands)
      BY DEF MInv, Typed
  <2> QED
      BY <1>1, <2>1, BackOfQueue
<1>3. Typed'
    BY <1>1, <1>2 DEF MInv, Typed
<1>4. (HaltedIsIdle /\ ActiveNotJogged /\ Driven)'
    BY <1>1, <1>2 DEF MInv, HaltedIsIdle, ActiveNotJogged, Driven
<1>5. Orderly
    BY <1>1, <1>2 DEF Orderly
<1> QED
    BY <1>3, <1>4, <1>5 DEF MInv

LEMMA SpeedStepKeeps == MInv /\ SpeedStep => MInv' /\ Orderly
<1> SUFFICES ASSUME MInv, NEW m \in Motors, NEW s \in 1..MaxSpeed, SetSpeed(m, s)
             PROVE  MInv' /\ Orderly
    BY DEF SpeedStep
<1>1. /\ speed' = [speed EXCEPT ![m] = s]
      /\ UNCHANGED <<angle, target, moving, pwm, queue, active, halted>>
    BY DEF SetSpeed
<1>2. Typed'
    BY <1>1 DEF MInv, Typed
<1>3. (HaltedIsIdle /\ ActiveNotJogged /\ Driven)'
    BY <1>1 DEF MInv, HaltedIsIdle, ActiveNotJogged, Driven
<1>4. Orderly
  <2>1. Len(queue') = Len(queue) /\ Len(queue) \in Nat
      BY <1>1 DEF MInv, Typed
  <2> QED
      BY <1>1, <2>1 DEF Orderly
<1> QED
    BY <1>2, <1>3, <1>4 DEF MInv

\* The commands that move or stop one motor cancel the sets.
LEMMA ManualStep ==
    ASSUME MInv, ClearSetQueue, NEW m \in Motors,
           NEW goal \in Angles, target' = [target EXCEPT ![m] = goal],
           NEW dir \in {-1, 0, 1}, moving' = [moving EXCEPT ![m] = dir],
           NEW out \in Angles \union {Off}, pwm' = [pwm EXCEPT ![m] = out],
           \/ I2cFails
           \/ out \in {angle[m], Off} /\ (dir # 0 => out = angle[m]),
           \/ halted' = halted \ {m}
           \/ halted' = halted \union {m} /\ goal = angle[m] /\ dir = 0,
           UNCHANGED <<angle, speed>>
    PROVE  MInv' /\ Orderly
<1>1. queue' = <<>> /\ active' = {}
    BY DEF ClearSetQueue
<1>2. Typed'
    BY <1>1 DEF MInv, Typed
<1>3. /\ target'[m] = goal /\ moving'[m] = dir /\ pwm'[m] = out
      /\ \A n \in Motors : n # m => /\ target'[n] = target[n]
                                    /\ moving'[n] = moving[n] /\ pwm'[n] = pwm[n]
    BY DEF MInv, Typed
<1>4. HaltedIsIdle'
    BY <1>1, <1>3 DEF MInv, Typed, HaltedIsIdle
<1>5. ActiveNotJogged' /\ Orderly
    BY <1>1 DEF ActiveNotJogged, Orderly
<1>6. Driven'
    BY <1>3 DEF MInv, Driven
<1> QED
    BY <1>2, <1>4, <1>5, <1>6 DEF MInv

LEMMA RelativeStepKeeps == MInv /\ RelativeStep => MInv' /\ Orderly
<1> SUFFICES ASSUME MInv, NEW m \in Motors, NEW delta \in -MaxAngle..MaxAngle,
                    MoveRelative(m, delta)
             PROVE  MInv' /\ Orderly
    BY DEF RelativeStep
<1>1. /\ ClearSetQueue /\ UNCHANGED <<angle, speed, pwm>>
      /\ target' = [target EXCEPT ![m] = Clamp(target[m] + delta)]
      /\ moving' = [moving EXCEPT ![m] = 0] /\ halted' = halted \ {m}
    BY DEF MoveRelative
<1>2. Clamp(target[m] + delta) \in Angles
  <2>1. target[m] + delta \in Int
      BY MotorConstants DEF MInv, Typed, Angles
  <2> QED
      BY <2>1, ClampRange
<1>3. /\ pwm[m] \in Angles \union {Off} /\ pwm' = [pwm EXCEPT ![m] = pwm[m]]
      /\ I2cFails \/ pwm[m] \in {angle[m], Off}
    BY <1>1 DEF MInv, Typed, Driven
<1> QED
    BY <1>1, <1>2, <1>3, ManualStep

LEMMA OutputsRange ==
    ASSUME MInv, NEW m \in Motors, NEW value \in Angles \union {Off},
           NEW out \in Outputs(m, value)
    PROVE  out \in Angles \union {Off} /\ (I2cFails \/ out = value)
  BY DEF Outputs, MInv, Typed

LEMMA PressStepKeeps == MInv /\ PressStep => MInv' /\ Orderly
<1> SUFFICES ASSUME MInv, NEW m \in Motors, NEW dir \in {-1, 1}, StartMove(m, dir)
             PROVE  MInv' /\ Orderly
    BY DEF PressStep
<1>1. /\ ClearSetQueue /\ UNCHANGED <<angle, speed>>
      /\ target' = [target EXCEPT ![m] = angle[m]]
      /\ moving' = [moving EXCEPT ![m] = dir] /\ halted' = halted \ {m}
    BY DEF StartMove
<1>2. PICK out \in Outputs(m, angle[m]) : pwm' = [pwm EXCEPT ![m] = out]
    BY DEF StartMove
<1>3. angle[m] \in Angles
    BY DEF MInv, Typed
<1>4. out \in Angles \union {Off} /\ (I2cFails \/ out = angle[m])
    BY <1>3, OutputsRange
<1> QED
    BY <1>1, <1>2, <1>3, <1>4, ManualStep

LEMMA HaltKeeps ==
    ASSUME MInv, NEW m \in Motors, NEW output \in {angle[m], Off}, Halt(m, output)
    PROVE  MInv' /\ Orderly
<1>1. /\ ClearSetQueue /\ UNCHANGED <<angle, speed>>
      /\ target' = [target EXCEPT ![m] = angle[m]]
      /\ moving' = [moving EXCEPT ![m] = 0] /\ halted' = halted \union {m}
    BY DEF Halt
<1>2. PICK out \in Outputs(m, output) : pwm' = [pwm EXCEPT ![m] = out]
    BY DEF Halt
<1>3. angle[m] \in Angles /\ output \in Angles \union {Off}
    BY DEF MInv, Typed
<1>4. out \in Angles \union {Off} /\ (I2cFails \/ out = output)
    BY <1>3, OutputsRange
<1> QED
    BY <1>1, <1>2, <1>3, <1>4, ManualStep

LEMMA StopAllKeeps == MInv /\ StopAll => MInv' /\ Orderly
<1> SUFFICES ASSUME MInv, StopAll PROVE MInv' /\ Orderly
    OBVIOUS
<1>1. /\ queue' = <<>> /\ active' = {} /\ moving' = [m \in Motors |-> 0]
      /\ target' = angle /\ halted' = Motors /\ UNCHANGED <<angle, speed, pwm>>
    BY DEF StopAll, ClearSetQueue
<1>2. Typed'
    BY <1>1 DEF MInv, Typed
<1> QED
    BY <1>1, <1>2 DEF MInv, HaltedIsIdle, ActiveNotJogged, Driven, Orderly

-----------------------------------------------------------------------------
(* Motor_Update: the values of its LET, by name.                           *)

Angle1(due) == [m \in Motors |-> IF m \in due
                                 THEN NextAngle(m, Started.moving[m], Started.target[m])
                                 ELSE angle[m]]
Limit(due) == {m \in due : AtLimit(Started.moving[m], Angle1(due)[m])}
Target1(due) == [m \in Motors |->
                    IF m \in Limit(due)
                       \/ (Started.moving[m] # 0 /\ Angle1(due)[m] # angle[m])
                    THEN Angle1(due)[m] ELSE Started.target[m]]
Moving1(due) == [m \in Motors |-> IF m \in Limit(due) THEN 0 ELSE Started.moving[m]]
Queue1(due) == IF Limit(due) # {} THEN <<>> ELSE Started.queue
Active1(due) == IF Limit(due) # {} THEN {} ELSE Started.active
Done(due) == /\ Active1(due) # {}
             /\ SetComplete(Active1(due), Angle1(due), Target1(due), Moving1(due))
Again(due) == Done(due) /\ Queue1(due) # <<>>

LEMMA UpdateIs ==
    ASSUME NEW due, Update(due)
    PROVE  /\ speed' = speed /\ angle' = Angle1(due)
           /\ target' = IF Again(due) THEN Applied(Head(Queue1(due)), Target1(due))
                                     ELSE Target1(due)
           /\ moving' = IF Again(due) THEN Unjogged(Head(Queue1(due)), Moving1(due))
                                     ELSE Moving1(due)
           /\ queue' = IF Again(due) THEN Tail(Queue1(due)) ELSE Queue1(due)
           /\ active' = IF Again(due) THEN DOMAIN Head(Queue1(due))
                        ELSE IF Done(due) THEN {} ELSE Active1(due)
           /\ \E lost, kept \in Failures :
                 pwm' = [m \in Motors |->
                            IF m \in Limit(due) \ kept THEN Off
                            ELSE IF Angle1(due)[m] # angle[m] /\ m \notin lost
                                 THEN Angle1(due)[m] ELSE pwm[m]]
           /\ halted' = halted \union Limit(due)
  BY DEF Update, Angle1, Limit, Target1, Moving1, Queue1, Active1, Done, Again

\* The set that starts at the beginning of the call, if one does.
LEMMA StartedFacts ==
    ASSUME MInv
    PROVE  /\ Started.target \in [Motors -> Angles]
           /\ Started.moving \in [Motors -> {-1, 0, 1}]
           /\ Started.queue \in Seq(SetCommands) /\ Started.active \subseteq Motors
           /\ \A m \in Started.active : Started.moving[m] = 0
           /\ \A m \in Motors : Started.moving[m] # 0 => Started.moving[m] = moving[m]
           /\ \A m \in halted : /\ Started.moving[m] = 0 /\ Started.target[m] = angle[m]
                                 /\ m \notin Started.active
                                 /\ \A i \in 1..Len(Started.queue) :
                                       m \notin DOMAIN Started.queue[i]
           /\ active # {} => /\ Started.target = target /\ Started.moving = moving
                             /\ Started.queue = queue /\ Started.active = active
<1>0. halted \subseteq Motors
    BY DEF MInv, Typed
<1>1. CASE ~StartsFirst
  <2>1. /\ Started.target = target /\ Started.moving = moving
        /\ Started.queue = queue /\ Started.active = active
      BY <1>1 DEF Started
  <2> QED
      BY <2>1 DEF MInv, Typed, HaltedIsIdle, ActiveNotJogged
<1>2. CASE StartsFirst
  <2> DEFINE set == Head(queue)
  <2>1. active = {} /\ queue # <<>> /\ queue \in Seq(SetCommands)
      BY <1>2 DEF StartsFirst, MInv, Typed
  <2>2. /\ set \in SetCommands /\ Tail(queue) \in Seq(SetCommands)
        /\ Len(queue) \in Nat /\ set = queue[1] /\ 1 \in 1..Len(queue)
        /\ \A i \in 1..Len(Tail(queue)) : i + 1 \in 1..Len(queue)
                                         /\ Tail(queue)[i] = queue[i + 1]
      BY <2>1, FrontOfQueue
  <2>3. /\ Started.target = Applied(set, target) /\ Started.moving = Unjogged(set, moving)
        /\ Started.queue = Tail(queue) /\ Started.active = DOMAIN set
      BY <1>2 DEF Started
  <2> HIDE DEF set
  <2>4. target \in [Motors -> Angles] /\ moving \in [Motors -> {-1, 0, 1}]
      BY DEF MInv, Typed
  <2>5. /\ Started.target \in [Motors -> Angles]
        /\ Started.moving \in [Motors -> {-1, 0, 1}]
        /\ \A m \in Motors :
              /\ m \in DOMAIN set => Started.moving[m] = 0
              /\ m \notin DOMAIN set => /\ Started.target[m] = target[m]
                                        /\ Started.moving[m] = moving[m]
      BY <2>2, <2>3, <2>4, ApplyFacts
  <2>6. DOMAIN set \subseteq Motors
      BY <2>2, SetCommandFacts
  <2>7. \A m \in halted : m \notin DOMAIN set /\ moving[m] = 0 /\ target[m] = angle[m]
      BY <2>2 DEF MInv, HaltedIsIdle
  <2>8. \A m \in halted : \A i \in 1..Len(Tail(queue)) : m \notin DOMAIN Tail(queue)[i]
      BY <2>2 DEF MInv, HaltedIsIdle
  <2> QED
      BY <1>0, <2>1, <2>2, <2>3, <2>5, <2>6, <2>7, <2>8
<1> QED
    BY <1>1, <1>2

\* The step of the motors that are due.
LEMMA SteppedFacts ==
    ASSUME MInv, NEW due \in SUBSET MayStep
    PROVE  /\ Angle1(due) \in [Motors -> Angles]
           /\ Target1(due) \in [Motors -> Angles]
           /\ Moving1(due) \in [Motors -> {-1, 0, 1}]
           /\ Queue1(due) \in Seq(SetCommands) /\ Active1(due) \subseteq Motors
           /\ Limit(due) \subseteq Motors
           /\ \A m \in Active1(due) : Moving1(due)[m] = 0
           /\ \A m \in Motors : Moving1(due)[m] # 0 => m \notin Limit(due) /\ moving[m] # 0
           /\ \A m \in halted : Angle1(due)[m] = angle[m]
           /\ \A m \in halted \union Limit(due) :
                 /\ Moving1(due)[m] = 0 /\ Target1(due)[m] = Angle1(due)[m]
                 /\ m \notin Active1(due)
                 /\ \A i \in 1..Len(Queue1(due)) : m \notin DOMAIN Queue1(due)[i]
<1>0. due \subseteq Motors /\ Limit(due) \subseteq Motors /\ Limit(due) \subseteq due
      /\ halted \subseteq Motors
    BY DEF MayStep, Limit, MInv, Typed
<1>1. Angle1(due) \in [Motors -> Angles]
  <2>1. \A m \in Motors : angle[m] \in Angles
      BY DEF MInv, Typed
  <2>2. \A m \in Motors : NextAngle(m, Started.moving[m], Started.target[m]) \in Angles
      BY StartedFacts, NextAngleRange DEF MInv
  <2> QED
      BY <2>1, <2>2 DEF Angle1
<1>2. Target1(due) \in [Motors -> Angles] /\ Moving1(due) \in [Motors -> {-1, 0, 1}]
    BY <1>1, StartedFacts DEF Target1, Moving1
<1>3. Queue1(due) \in Seq(SetCommands) /\ Active1(due) \subseteq Motors
    BY StartedFacts DEF Queue1, Active1
<1>4. \A m \in Active1(due) : Moving1(due)[m] = 0
    BY <1>3, StartedFacts DEF Active1, Moving1
<1>5. \A m \in Motors : Moving1(due)[m] # 0 => m \notin Limit(due) /\ moving[m] # 0
    BY StartedFacts DEF Moving1
<1>6. \A m \in halted : m \notin due
    BY DEF MayStep, MInv, HaltedIsIdle
<1>7. \A m \in halted : Angle1(due)[m] = angle[m] /\ m \notin Limit(due)
    BY <1>0, <1>6 DEF Angle1
<1>8. ASSUME NEW m \in halted
      PROVE  /\ Moving1(due)[m] = 0 /\ Target1(due)[m] = Angle1(due)[m]
             /\ m \notin Active1(due)
             /\ \A i \in 1..Len(Queue1(due)) : m \notin DOMAIN Queue1(due)[i]
  <2>1. /\ Started.moving[m] = 0 /\ Started.target[m] = angle[m]
        /\ m \notin Started.active
        /\ \A i \in 1..Len(Started.queue) : m \notin DOMAIN Started.queue[i]
      BY StartedFacts
  <2>2. Moving1(due)[m] = 0 /\ Target1(due)[m] = Angle1(due)[m]
      BY <1>0, <1>7, <2>1 DEF Moving1, Target1
  <2>3. m \notin Active1(due)
      BY <2>1 DEF Active1
  <2>4. \A i \in 1..Len(Queue1(due)) : m \notin DOMAIN Queue1(due)[i]
      BY <2>1 DEF Queue1
  <2> QED
      BY <2>2, <2>3, <2>4
<1>9. ASSUME NEW m \in Limit(due)
      PROVE  /\ Moving1(due)[m] = 0 /\ Target1(due)[m] = Angle1(due)[m]
             /\ m \notin Active1(due)
             /\ \A i \in 1..Len(Queue1(due)) : m \notin DOMAIN Queue1(due)[i]
  <2>1. Queue1(due) = <<>> /\ Active1(due) = {}
      BY DEF Queue1, Active1
  <2>2. Moving1(due)[m] = 0 /\ Target1(due)[m] = Angle1(due)[m]
      BY <1>0 DEF Moving1, Target1
  <2> QED
      BY <2>1, <2>2
<1> QED
    BY <1>0, <1>1, <1>2, <1>3, <1>4, <1>5, <1>7, <1>8, <1>9

LEMMA UpdateStepKeeps == MInv /\ UpdateStep => MInv' /\ Orderly
<1> SUFFICES ASSUME MInv, NEW due \in SUBSET MayStep, Update(due)
             PROVE  MInv' /\ Orderly
    BY DEF UpdateStep
<1> DEFINE set == Head(Queue1(due))
<1>1. /\ Angle1(due) \in [Motors -> Angles] /\ Target1(due) \in [Motors -> Angles]
      /\ Moving1(due) \in [Motors -> {-1, 0, 1}]
      /\ Queue1(due) \in Seq(SetCommands) /\ Active1(due) \subseteq Motors
      /\ Limit(due) \subseteq Motors /\ halted \subseteq Motors
      /\ speed \in [Motors -> 1..MaxSpeed] /\ pwm \in [Motors -> Angles \union {Off}]
    BY SteppedFacts DEF MInv, Typed
<1>2. /\ speed' = speed /\ angle' = Angle1(due) /\ halted' = halted \union Limit(due)
    BY UpdateIs
<1>3. Again(due) =>
          /\ set \in SetCommands /\ DOMAIN set \subseteq Motors
          /\ Tail(Queue1(due)) \in Seq(SetCommands)
          /\ set = Queue1(due)[1] /\ 1 \in 1..Len(Queue1(due))
          /\ \A i \in 1..Len(Tail(Queue1(due))) :
                i + 1 \in 1..Len(Queue1(due)) /\ Tail(Queue1(due))[i] = Queue1(due)[i + 1]
    BY <1>1, FrontOfQueue, SetCommandFacts DEF Again
<1> HIDE DEF set
<1>4. \A m \in halted \union Limit(due) :
          /\ Moving1(due)[m] = 0 /\ Target1(due)[m] = Angle1(due)[m]
          /\ m \notin Active1(due)
          /\ \A i \in 1..Len(Queue1(due)) : m \notin DOMAIN Queue1(due)[i]
    BY SteppedFacts
<1> DEFINE Rest ==
        /\ target' \in [Motors -> Angles] /\ moving' \in [Motors -> {-1, 0, 1}]
        /\ queue' \in Seq(SetCommands) /\ active' \subseteq Motors
        /\ \A m \in Motors : moving'[m] # 0 => Moving1(due)[m] # 0
        /\ \A m \in active' : moving'[m] = 0
        /\ \A m \in halted \union Limit(due) :
              /\ moving'[m] = 0 /\ target'[m] = Angle1(due)[m] /\ m \notin active'
              /\ \A i \in 1..Len(queue') : m \notin DOMAIN queue'[i]
<1> DEFINE NextWaits ==
        /\ \A m \in active : angle'[m] = target[m]
        /\ active' = DOMAIN Head(queue)
        /\ \A m \in active' : target'[m] = Head(queue)[m]
        /\ queue' = Tail(queue)
<1>5. ASSUME Again(due)
      PROVE  Rest /\ (active # {} => NextWaits)
  <2>1. /\ target' = Applied(set, Target1(due)) /\ moving' = Unjogged(set, Moving1(due))
        /\ queue' = Tail(Queue1(due)) /\ active' = DOMAIN set
      BY <1>5, UpdateIs DEF set
  <2>2. /\ target' \in [Motors -> Angles] /\ moving' \in [Motors -> {-1, 0, 1}]
        /\ \A m \in Motors :
              /\ m \in DOMAIN set => target'[m] = set[m] /\ moving'[m] = 0
              /\ m \notin DOMAIN set => /\ target'[m] = Target1(due)[m]
                                        /\ moving'[m] = Moving1(due)[m]
      BY <1>1, <1>3, <1>5, <2>1, ApplyFacts
  <2>3. ASSUME NEW m \in halted \union Limit(due)
        PROVE  /\ moving'[m] = 0 /\ target'[m] = Angle1(due)[m] /\ m \notin active'
               /\ \A i \in 1..Len(queue') : m \notin DOMAIN queue'[i]
    <3>1. m \in Motors /\ m \notin DOMAIN set
        BY <1>1, <1>3, <1>4, <1>5
    <3>2. \A i \in 1..Len(queue') : m \notin DOMAIN queue'[i]
        BY <1>3, <1>4, <1>5, <2>1
    <3> QED
        BY <1>4, <2>1, <2>2, <3>1, <3>2
  <2>4. Rest
    <3>1. \A m \in Motors : moving'[m] # 0 => Moving1(due)[m] # 0
        BY <2>2
    <3>2. \A m \in active' : moving'[m] = 0
        BY <1>3, <1>5, <2>1, <2>2
    <3> QED
        BY <1>3, <1>5, <2>1, <2>2, <2>3, <3>1, <3>2
  <2>5. ASSUME active # {}
        PROVE  NextWaits
    <3>1. Limit(due) = {} /\ Active1(due) # {} /\ Done(due)
        BY <1>5 DEF Again, Done, Active1
    <3>2. /\ Started.target = target /\ Started.moving = moving
          /\ Started.queue = queue /\ Started.active = active
        BY <2>5, StartedFacts
    <3>3. Queue1(due) = queue /\ Active1(due) = active
        BY <3>1, <3>2 DEF Queue1, Active1
    <3>4. \A m \in active : Angle1(due)[m] = Target1(due)[m]
        BY <3>1, <3>3 DEF Done, SetComplete
    <3>5. \A m \in active : m \in Motors /\ moving[m] = 0
        BY DEF MInv, Typed, ActiveNotJogged
    <3>6. \A m \in active : Target1(due)[m] = target[m]
        BY <3>1, <3>2, <3>5 DEF Target1
    <3>7. set = Head(queue)
        BY <3>3 DEF set
    <3>8. \A m \in active' : target'[m] = set[m]
        BY <1>3, <1>5, <2>1, <2>2
    <3> QED
        BY <1>2, <2>1, <3>3, <3>4, <3>6, <3>7, <3>8
  <2> HIDE DEF Rest, NextWaits
  <2> QED
      BY <2>4, <2>5
<1>6. ASSUME ~Again(due)
      PROVE  Rest /\ (active # {} => active' = {} \/ queue' = queue)
  <2>1. /\ target' = Target1(due) /\ moving' = Moving1(due) /\ queue' = Queue1(due)
        /\ active' = IF Done(due) THEN {} ELSE Active1(due)
      BY <1>6, UpdateIs
  <2>2. \A m \in Active1(due) : Moving1(due)[m] = 0
      BY SteppedFacts
  <2>3. \A m \in active' : m \in Active1(due)
      BY <2>1
  <2>4. \A m \in halted \union Limit(due) :
           /\ moving'[m] = 0 /\ target'[m] = Angle1(due)[m] /\ m \notin active'
           /\ \A i \in 1..Len(queue') : m \notin DOMAIN queue'[i]
      BY <1>4, <2>1, <2>3
  <2>5. Rest
      BY <1>1, <2>1, <2>2, <2>3, <2>4
  <2>6. ASSUME active # {}, active' # {}
        PROVE  queue' = queue
    <3>1. Limit(due) = {}
        BY <2>1, <2>3, <2>6 DEF Active1
    <3>2. Started.queue = queue
        BY <2>6, StartedFacts
    <3> QED
        BY <2>1, <3>1, <3>2 DEF Queue1
  <2> HIDE DEF Rest
  <2> QED
      BY <2>5, <2>6
<1>7. Rest
  <2> HIDE DEF Rest
  <2> QED
      BY <1>5, <1>6
<1>8. PICK lost \in Failures, kept \in Failures :
          pwm' = [m \in Motors |->
                     IF m \in Limit(due) \ kept THEN Off
                     ELSE IF Angle1(due)[m] # angle[m] /\ m \notin lost
                          THEN Angle1(due)[m] ELSE pwm[m]]
    BY UpdateIs
<1>9. Typed'
  <2>1. pwm' \in [Motors -> Angles \union {Off}]
      BY <1>1, <1>8
  <2>2. halted' \subseteq Motors
      BY <1>1, <1>2
  <2> QED
      BY <1>1, <1>2, <1>7, <2>1, <2>2 DEF Typed
<1>10. HaltedIsIdle' /\ ActiveNotJogged'
    BY <1>2, <1>7 DEF HaltedIsIdle, ActiveNotJogged
<1>11. Driven'
  <2> SUFFICES ASSUME ~I2cFails, NEW m \in Motors
               PROVE  /\ pwm'[m] \in {angle'[m], Off}
                      /\ moving'[m] # 0 => pwm'[m] = angle'[m]
      BY DEF Driven
  <2>1. lost = {} /\ kept = {}
      BY DEF Failures
  <2>2. pwm'[m] = IF m \in Limit(due) THEN Off
                  ELSE IF Angle1(due)[m] # angle[m] THEN Angle1(due)[m] ELSE pwm[m]
      BY <1>8, <2>1
  <2>3. moving'[m] # 0 => m \notin Limit(due) /\ moving[m] # 0
      BY <1>7, SteppedFacts
  <2>4. pwm[m] \in {angle[m], Off} /\ (moving[m] # 0 => pwm[m] = angle[m])
      BY DEF MInv, Driven
  <2> QED
      BY <1>2, <2>2, <2>3, <2>4
<1>12. Orderly
  <2>1. \A m \in halted \intersect halted' : angle'[m] = angle[m]
      BY <1>2, SteppedFacts
  <2>2. ASSUME active # {}, active' # {}, Len(queue') < Len(queue)
        PROVE  NextWaits
    <3>1. queue' # queue
      <4>1. Len(queue) \in Nat
          BY DEF MInv, Typed
      <4> QED
          BY <2>2, <4>1
    <3>2. Again(due)
        BY <1>6, <2>2, <3>1
    <3> HIDE DEF Rest, NextWaits
    <3> QED
        BY <1>5, <2>2, <3>2
  <2> QED
      BY <2>1, <2>2 DEF Orderly
<1> QED
    BY <1>9, <1>10, <1>11, <1>12 DEF MInv

-----------------------------------------------------------------------------
(* Every step, and the theorems.                                           *)

LEMMA NextMInv == MInv /\ [Next]_vars => MInv' /\ (Orderly \/ UNCHANGED vars)
<1> SUFFICES ASSUME MInv, [Next]_vars PROVE MInv' /\ (Orderly \/ UNCHANGED vars)
    OBVIOUS
<1>1. CASE UpdateStep
    BY <1>1, UpdateStepKeeps
<1>2. CASE EnqueueStep
    BY <1>2, EnqueueStepKeeps
<1>3. CASE SpeedStep
    BY <1>3, SpeedStepKeeps
<1>4. CASE RelativeStep
    BY <1>4, RelativeStepKeeps
<1>5. CASE PressStep
    BY <1>5, PressStepKeeps
<1>6. CASE StopStep
    BY <1>6, HaltKeeps DEF StopStep, Stop
<1>7. CASE ReleaseStep
    BY <1>7, HaltKeeps DEF ReleaseStep, Release
<1>8. CASE StopAll
    BY <1>8, StopAllKeeps
<1>9. CASE UNCHANGED vars
    BY <1>9 DEF vars, MInv, Typed, HaltedIsIdle, ActiveNotJogged, Driven
<1> QED
    BY <1>1, <1>2, <1>3, <1>4, <1>5, <1>6, <1>7, <1>8, <1>9 DEF Next, Command

\* The inductive invariant holds in every state.
THEOREM MInvHolds == Spec => []MInv
<1>1. MInv /\ [Next]_vars => MInv'
    BY NextMInv
<1> QED
    BY InitMInv, <1>1, PTL DEF Spec

\* The motors of the active set are never jogged, whatever commands come in
\* between: motor_clear_set_queue on a press and the moving flag cleared when a
\* set starts.
THEOREM ActiveNotJoggedHolds == Spec => []ActiveNotJogged
<1>1. MInv => ActiveNotJogged
    BY DEF MInv
<1> QED
    BY MInvHolds, <1>1, PTL

\* No command takes a servo out of its range, and while the I2C bus works what
\* drives a servo is the angle the firmware reports.
THEOREM OutputIsReportedHolds == Spec => []OutputIsReported
<1>1. MInv => OutputIsReported
    BY DEF MInv, Typed, Driven, Angles, OutputIsReported
<1> QED
    BY MInvHolds, <1>1, PTL

\* A motor that was stopped, released or ran into the end of its range does not
\* move until a later command asks it to.
THEOREM HaltedStaysPutHolds == Spec => HaltedStaysPut
<1>1. MInv /\ [Next]_vars
      => [\A m \in halted \intersect halted' : angle'[m] = angle[m]]_vars
    BY NextMInv DEF Orderly
<1> QED
    BY MInvHolds, <1>1, PTL DEF Spec, HaltedStaysPut

\* A queued set starts only when every motor of the one before has arrived, and
\* sets start in the order they were accepted.
THEOREM NextSetWaitsHolds == Spec => NextSetWaits
<1>1. MInv /\ [Next]_vars
      => [active # {} /\ active' # {} /\ Len(queue') < Len(queue) =>
             /\ \A m \in active : angle'[m] = target[m]
             /\ active' = DOMAIN Head(queue)
             /\ \A m \in active' : target'[m] = Head(queue)[m]
             /\ queue' = Tail(queue)]_vars
    BY NextMInv DEF Orderly
<1> QED
    BY MInvHolds, <1>1, PTL DEF Spec, NextSetWaits
=============================================================================
