------------------------- MODULE ControlPlaneProofs -------------------------
(***************************************************************************)
(* Proofs about the path of a motor command, for any number of requests,   *)
(* of commands in a request and of failures: what request_mutex_ keeps     *)
(* apart, which answer a request returns while answers are timely and      *)
(* which of its commands were run, that none is missed and where a request *)
(* stops.                                                                  *)
(***************************************************************************)
EXTENDS ControlPlane, TLAPS

-----------------------------------------------------------------------------
(* The inductive invariant.                                                *)

Typed ==
    /\ pc \in [Requests -> {"lock", "begin", "publish", "wait", "done"}]
    /\ sequence \in Nat /\ heard \in Nat
    /\ start \in [Requests -> Nat]
    /\ results \in [Requests -> Seq(Results)]
    /\ response \in Answers
    /\ down \in Seq(Commands) /\ cmdQueue \in Seq(Commands)
    /\ up \in Seq(Answers)

\* The request is between taking request_mutex_ and giving it back.
Locks(r) == pc[r] \in {"begin", "publish", "wait"}

MutexHeld == \A r \in Requests : Locks(r) => holder = r

\* The answers heard since the publish are those the sequence number counts.
Counted ==
    \A r \in Requests : pc[r] \in {"publish", "wait"} => sequence = start[r] + heard

\* Where a request is, by its results so far.
Progress ==
    \A r \in Requests :
        /\ pc[r] # "done" => Len(results[r]) < NumSteps
        /\ r \in Emergencies => \A i \in 1..Len(results[r]) :
               i < Len(results[r]) \/ pc[r] # "done" => results[r][i].ok
        /\ r \in Centerings /\ pc[r] = "done" => Len(results[r]) = NumSteps

PInv == Typed /\ MutexHeld /\ Counted /\ Progress

Quiet == down = <<>> /\ cmdQueue = <<>> /\ up = <<>>

\* The command r waits for is in just one place, or answered, or lost.
Carried(r) ==
    \/ sequence = start[r] /\ down = <<Command(r)>> /\ cmdQueue = <<>> /\ up = <<>>
    \/ sequence = start[r] /\ down = <<>> /\ cmdQueue = <<Command(r)>> /\ up = <<>>
    \/ /\ sequence = start[r] /\ down = <<>> /\ cmdQueue = <<>>
       /\ \E answer \in Answers : answer.of = Command(r) /\ up = <<answer>>
    \/ Quiet /\ (sequence = start[r] \/ response.of = Command(r))

\* While answers are timely, only the command of the request that waits is underway.
InTime ==
    timely => /\ \A r \in Requests : pc[r] = "publish" => sequence = start[r]
              /\ \A r \in Requests : pc[r] = "wait" => Carried(r)
              /\ (\A r \in Requests : pc[r] # "wait") => Quiet
              /\ OwnAnswer

Ran(command) == \E j \in 1..Len(executed) : executed[j] = command

\* The command r waits for has left the queue of the ESP32, or was lost.
PastQueue(r) == pc[r] = "wait" /\ down = <<>> /\ cmdQueue = <<>>

\* Of each request the STM32 has run commands up to the current one, and that one
\* only after it left the queue; an answer is there only when it was run.
History ==
    /\ executed \in Seq(Commands)
    /\ OkStepsWereRun
    /\ timely => /\ \A j \in 1..Len(executed) : \A r \in Requests :
                       executed[j][1] = r =>
                           /\ executed[j][2] <= Step(r)
                           /\ executed[j][2] = Step(r) => PastQueue(r)
                 /\ \A r \in Requests :
                       pc[r] = "wait" /\ (up # <<>> \/ sequence # start[r]) => Ran(Command(r))

-----------------------------------------------------------------------------
(* Sequences of one element.                                               *)

LEMMA Single ==
    ASSUME NEW x
    PROVE  /\ Head(<<x>>) = x /\ Tail(<<x>>) = <<>> /\ Len(<<x>>) = 1
           /\ Append(<<>>, x) = <<x>> /\ <<x>> # <<>>
  OBVIOUS

LEMMA OneMore ==
    ASSUME NEW S, NEW q \in Seq(S), NEW x \in S
    PROVE  /\ Append(q, x) \in Seq(S) /\ Len(Append(q, x)) = Len(q) + 1
           /\ Len(q) \in Nat /\ Append(q, x)[Len(q) + 1] = x
           /\ \A i \in 1..Len(q) : Append(q, x)[i] = q[i]
  OBVIOUS

-----------------------------------------------------------------------------
LEMMA InitPInv == Init => PInv /\ InTime
<1> SUFFICES ASSUME Init PROVE PInv /\ InTime
    OBVIOUS
<1>1. Typed
    BY DEF Init, Typed, Answers
<1>2. MutexHeld /\ Counted
    BY DEF Init, MutexHeld, Locks, Counted
<1>3. Progress
    BY ControlConstants DEF Init, Progress
<1>4. InTime
    BY DEF Init, InTime, Quiet, OwnAnswer
<1> QED
    BY <1>1, <1>2, <1>3, <1>4 DEF PInv

-----------------------------------------------------------------------------
(* The server.                                                             *)

\* A step of r that leaves the mutex alone or gives it back.
LEMMA ReturnStep ==
    ASSUME PInv, NEW r \in Requests, Locks(r), NEW result \in Results, Return(r, result)
    PROVE  /\ pc' \in [Requests -> {"lock", "begin", "publish", "wait", "done"}]
           /\ results' \in [Requests -> Seq(Results)]
           /\ pc'[r] \in {"lock", "done"}
           /\ \A s \in Requests : s # r => pc'[s] = pc[s] /\ results'[s] = results[s]
           /\ \A s \in Requests : ~Locks(s)'
           /\ results'[r] = Append(results[r], result)
           /\ MutexHeld' /\ Progress'
<1>1. /\ results' = [results EXCEPT ![r] = Append(results[r], result)]
      /\ pc' = [pc EXCEPT ![r] =
                  IF Step(r) = NumSteps \/ (r \in Emergencies /\ ~result.ok)
                  THEN "done" ELSE "lock"]
    BY DEF Return
<1>2. results[r] \in Seq(Results) /\ holder = r /\ Nobody # r
    BY ControlConstants DEF PInv, Typed, MutexHeld, Requests
<1>3. /\ Append(results[r], result) \in Seq(Results)
      /\ Len(Append(results[r], result)) = Len(results[r]) + 1
      /\ Len(results[r]) \in Nat
      /\ Append(results[r], result)[Len(results[r]) + 1] = result
      /\ \A i \in 1..Len(results[r]) : Append(results[r], result)[i] = results[r][i]
    BY <1>2, OneMore
<1>4. /\ pc' \in [Requests -> {"lock", "begin", "publish", "wait", "done"}]
      /\ pc'[r] = IF Step(r) = NumSteps \/ (r \in Emergencies /\ ~result.ok)
                  THEN "done" ELSE "lock"
      /\ \A s \in Requests : s # r => pc'[s] = pc[s]
    BY <1>1 DEF PInv, Typed
<1>5. /\ results' \in [Requests -> Seq(Results)]
      /\ results'[r] = Append(results[r], result)
      /\ \A s \in Requests : s # r => results'[s] = results[s]
    BY <1>1, <1>3 DEF PInv, Typed
<1>6. \A s \in Requests : ~Locks(s)'
    BY <1>2, <1>4 DEF PInv, MutexHeld, Locks
<1>7. Progress'
  <2> SUFFICES ASSUME NEW s \in Requests
               PROVE  /\ pc'[s] # "done" => Len(results'[s]) < NumSteps
                      /\ s \in Emergencies => \A i \in 1..Len(results'[s]) :
                            i < Len(results'[s]) \/ pc'[s] # "done" => results'[s][i].ok
                      /\ s \in Centerings /\ pc'[s] = "done" =>
                            Len(results'[s]) = NumSteps
      BY DEF Progress
  <2>1. CASE s # r
      BY <1>4, <1>5, <2>1 DEF PInv, Progress
  <2>2. CASE s = r
    <3>1. /\ Len(results[r]) < NumSteps /\ NumSteps \in Nat
          /\ Step(r) = Len(results[r]) + 1
          /\ r \in Emergencies => \A i \in 1..Len(results[r]) : results[r][i].ok
          /\ r \in Centerings => r \notin Emergencies
        BY ControlConstants DEF PInv, Progress, Locks, Step
    <3>2. pc'[r] # "done" => Len(results'[r]) < NumSteps
        BY <1>3, <1>4, <1>5, <3>1
    <3>3. ASSUME r \in Emergencies, NEW i \in 1..Len(results'[r]),
                 i < Len(results'[r]) \/ pc'[r] # "done"
          PROVE  results'[r][i].ok
      <4>1. CASE i \in 1..Len(results[r])
          BY <1>3, <1>5, <3>1, <3>3, <4>1
      <4>2. CASE i = Len(results[r]) + 1
          BY <1>3, <1>4, <1>5, <3>3, <4>2
      <4> QED
          BY <1>3, <1>5, <3>3, <4>1, <4>2
    <3>4. r \in Centerings /\ pc'[r] = "done" => Len(results'[r]) = NumSteps
        BY <1>3, <1>4, <1>5, <3>1
    <3> QED
        BY <2>2, <3>2, <3>3, <3>4
  <2> QED
      BY <2>1, <2>2
<1> QED
    BY <1>4, <1>5, <1>6, <1>7 DEF MutexHeld

\* A result that is the answer to its command keeps OwnAnswer.
LEMMA OwnAnswerStep ==
    ASSUME PInv, OwnAnswer, NEW r \in Requests, NEW result \in Results,
           result.published /\ ~result.timedOut => result.answer = Command(r),
           results'[r] = Append(results[r], result),
           \A s \in Requests : s # r => results'[s] = results[s]
    PROVE  OwnAnswer'
<1>1. results[r] \in Seq(Results)
    BY DEF PInv, Typed
<1>2. /\ Len(Append(results[r], result)) = Len(results[r]) + 1
      /\ Len(results[r]) \in Nat
      /\ Append(results[r], result)[Len(results[r]) + 1] = result
      /\ \A i \in 1..Len(results[r]) : Append(results[r], result)[i] = results[r][i]
    BY <1>1, OneMore
<1>3. Command(r) = <<r, Len(results[r]) + 1>>
    BY DEF Command, Step
<1>4. ASSUME NEW i \in 1..Len(results'[r]), results'[r][i].published, ~results'[r][i].timedOut
      PROVE  results'[r][i].answer = <<r, i>>
  <2>1. CASE i \in 1..Len(results[r])
      BY <1>2, <1>4, <2>1 DEF OwnAnswer
  <2>2. CASE i = Len(results[r]) + 1
      BY <1>2, <1>3, <1>4, <2>2
  <2> QED
      BY <1>2, <1>4, <2>1, <2>2
<1> QED
    BY <1>4 DEF OwnAnswer

\* Only one request is between taking the mutex and giving it back.
LEMMA OnlyOne ==
    ASSUME PInv, NEW r \in Requests, Locks(r)
    PROVE  \A s \in Requests : s # r => ~Locks(s)
  BY DEF PInv, MutexHeld

LEMMA CommandTyped ==
    ASSUME PInv, NEW r \in Requests, pc[r] # "done"
    PROVE  Append(down, Command(r)) \in Seq(Commands)
<1>1. Len(results[r]) \in Nat /\ Len(results[r]) < NumSteps /\ NumSteps \in Nat
    BY ControlConstants DEF PInv, Typed, Progress
<1>2. Len(results[r]) + 1 \in 1..NumSteps
    BY <1>1
<1>3. Command(r) \in Commands
    BY <1>2 DEF Command, Step, Commands
<1> QED
    BY <1>3, OneMore DEF PInv, Typed

LEMMA AcquireStep ==
    ASSUME PInv, InTime, NEW r \in Requests, Acquire(r) PROVE PInv' /\ InTime'
<1>1. /\ pc[r] = "lock" /\ holder = Nobody /\ holder' = r
      /\ pc' = [pc EXCEPT ![r] = "begin"]
      /\ UNCHANGED <<timely, sequence, response, start, results, heard, down,
                     cmdQueue, up>>
    BY DEF Acquire, deviceVars
<1>2. \A s \in Requests : ~Locks(s)
    BY <1>1, ControlConstants DEF PInv, MutexHeld, Requests
<1>3. Typed'
    BY <1>1 DEF PInv, Typed
<1>4. pc'[r] = "begin" /\ \A s \in Requests : s # r => pc'[s] = pc[s]
    BY <1>1 DEF PInv, Typed
<1>5. (MutexHeld /\ Counted /\ Progress)'
    BY <1>1, <1>2, <1>4 DEF PInv, MutexHeld, Counted, Progress, Locks
<1>6. InTime'
    BY <1>1, <1>2, <1>4 DEF InTime, Locks, Quiet, OwnAnswer
<1> QED
    BY <1>3, <1>5, <1>6 DEF PInv

LEMMA BeginStep ==
    ASSUME PInv, InTime, NEW r \in Requests, Begin(r) PROVE PInv' /\ InTime'
<1>1. /\ pc[r] = "begin" /\ pc' = [pc EXCEPT ![r] = "publish"]
      /\ start' = [start EXCEPT ![r] = sequence] /\ heard' = 0
      /\ UNCHANGED <<timely, holder, sequence, response, results, down,
                     cmdQueue, up>>
    BY DEF Begin, deviceVars
<1>2. \A s \in Requests : s # r => ~Locks(s)
    BY <1>1, OnlyOne DEF Locks
<1>3. /\ pc'[r] = "publish" /\ start'[r] = sequence /\ sequence \in Nat
      /\ \A s \in Requests : s # r => pc'[s] = pc[s]
    BY <1>1 DEF PInv, Typed
<1>4. Typed'
    BY <1>1 DEF PInv, Typed
<1>5. (MutexHeld /\ Counted /\ Progress)'
    BY <1>1, <1>2, <1>3 DEF PInv, MutexHeld, Counted, Progress, Locks
<1>6. InTime'
    BY <1>1, <1>2, <1>3 DEF InTime, Locks, Quiet, OwnAnswer
<1> QED
    BY <1>4, <1>5, <1>6 DEF PInv

LEMMA PublishStep ==
    ASSUME PInv, InTime, NEW r \in Requests, Publish(r) PROVE PInv' /\ InTime'
<1>1. /\ pc[r] = "publish" /\ pc' = [pc EXCEPT ![r] = "wait"]
      /\ down' = Append(down, Command(r))
      /\ UNCHANGED <<timely, holder, sequence, response, start, results, heard,
                     cmdQueue, up>>
    BY DEF Publish
<1>2. \A s \in Requests : s # r => ~Locks(s)
    BY <1>1, OnlyOne DEF Locks
<1>3. pc'[r] = "wait" /\ \A s \in Requests : s # r => pc'[s] = pc[s]
    BY <1>1 DEF PInv, Typed
<1>5. Typed'
  <2>1. Append(down, Command(r)) \in Seq(Commands)
      BY <1>1, CommandTyped
  <2> QED
      BY <1>1, <2>1 DEF PInv, Typed
<1>6. (MutexHeld /\ Counted /\ Progress)'
    BY <1>1, <1>3 DEF PInv, MutexHeld, Counted, Progress, Locks
<1>7. ASSUME timely PROVE Carried(r)'
  <2>1. Quiet /\ sequence = start[r]
      BY <1>1, <1>2, <1>7 DEF InTime, Locks
  <2>2. down' = <<Command(r)>>
      BY <1>1, <2>1, Single DEF Quiet
  <2>3. Command(r)' = Command(r)
      BY <1>1 DEF Command, Step
  <2> QED
      BY <1>1, <2>1, <2>2, <2>3 DEF Carried, Quiet
<1>8. InTime'
    BY <1>1, <1>2, <1>3, <1>7 DEF InTime, Locks, OwnAnswer
<1> QED
    BY <1>5, <1>6, <1>8 DEF PInv

LEMMA FailureIsResult ==
    \A b \in BOOLEAN : /\ Failure(b) \in Results /\ ~Failure(b).ok
                       /\ Failure(b).timedOut = b /\ Failure(b).published = b
  BY DEF Failure, Results

\* The three ends of a command: in a timely network nothing is underway then.
LEMMA EndStep ==
    ASSUME PInv, InTime, NEW r \in Requests, Locks(r),
           NEW result \in Results, Return(r, result),
           result.published /\ ~result.timedOut => ~timely \/ result.answer = Command(r),
           timely => Quiet /\ down' = down,
           down' \in Seq(Commands),
           UNCHANGED <<timely, cmdQueue, up>>
    PROVE  PInv' /\ InTime'
<1>1. UNCHANGED <<sequence, response, start, heard>>
    BY DEF Return
<1>2. /\ pc' \in [Requests -> {"lock", "begin", "publish", "wait", "done"}]
      /\ results' \in [Requests -> Seq(Results)]
      /\ \A s \in Requests : s # r => results'[s] = results[s]
      /\ \A s \in Requests : ~Locks(s)'
      /\ results'[r] = Append(results[r], result)
      /\ MutexHeld' /\ Progress'
    BY ReturnStep
<1>3. Typed'
    BY <1>1, <1>2 DEF PInv, Typed
<1>4. Counted'
    BY <1>2 DEF Counted, Locks
<1>5. timely => OwnAnswer'
    BY <1>2, OwnAnswerStep DEF InTime
<1>6. timely => Quiet'
    BY DEF Quiet
<1>7. InTime'
    BY <1>2, <1>5, <1>6 DEF InTime, Locks
<1> QED
    BY <1>2, <1>3, <1>4, <1>7 DEF PInv

LEMMA PublishFailsStep ==
    ASSUME PInv, InTime, NEW r \in Requests, PublishFails(r) PROVE PInv' /\ InTime'
<1>1. /\ pc[r] = "publish" /\ Return(r, Failure(FALSE))
      /\ down' = down \/ (~timely /\ down' = Append(down, Command(r)))
      /\ UNCHANGED <<timely, cmdQueue, up>>
    BY DEF PublishFails
<1>2. Locks(r) /\ \A s \in Requests : s # r => ~Locks(s)
    BY <1>1, OnlyOne DEF Locks
<1>3. timely => Quiet
    BY <1>1, <1>2 DEF InTime, Locks
<1>5. down' \in Seq(Commands)
  <2>1. down \in Seq(Commands) /\ Append(down, Command(r)) \in Seq(Commands)
      BY <1>1, CommandTyped DEF PInv, Typed
  <2> QED
      BY <1>1, <2>1
<1>6. Failure(FALSE) \in Results /\ ~Failure(FALSE).published
    BY FailureIsResult
<1> QED
    BY <1>1, <1>2, <1>3, <1>5, <1>6, EndStep

LEMMA AnsweredStep ==
    ASSUME PInv, InTime, NEW r \in Requests, Answered(r) PROVE PInv' /\ InTime'
<1> DEFINE result == [ok |-> ~response.err, published |-> TRUE,
                      timedOut |-> FALSE, answer |-> response.of]
<1>1. /\ pc[r] = "wait" /\ sequence > start[r] /\ Return(r, result)
      /\ UNCHANGED <<timely, down, cmdQueue, up>>
    BY DEF Answered, deviceVars
<1>2. result \in Results
    BY DEF PInv, Typed, Answers, Results
<1>3. result.answer = response.of
    OBVIOUS
<1> HIDE DEF result
<1>4. timely => Quiet /\ response.of = Command(r)
  <2>1. sequence # start[r]
      BY <1>1 DEF PInv, Typed
  <2> QED
      BY <1>1, <2>1 DEF InTime, Carried
<1>5. down' \in Seq(Commands) /\ down' = down /\ Locks(r)
    BY <1>1 DEF PInv, Typed, Locks
<1> QED
    BY <1>1, <1>2, <1>3, <1>4, <1>5, EndStep

LEMMA TimesOutStep ==
    ASSUME PInv, InTime, NEW r \in Requests, TimesOut(r) PROVE PInv' /\ InTime'
<1>1. /\ pc[r] = "wait" /\ Return(r, Failure(TRUE)) /\ (timely => Underway = 0)
      /\ UNCHANGED <<timely, down, cmdQueue, up>>
    BY DEF TimesOut, deviceVars
<1>2. timely => Quiet
  <2>1. Len(down) \in Nat /\ Len(cmdQueue) \in Nat /\ Len(up) \in Nat
      BY DEF PInv, Typed
  <2>2. timely => Len(down) = 0 /\ Len(cmdQueue) = 0 /\ Len(up) = 0
      BY <1>1, <2>1 DEF Underway
  <2> QED
      BY <2>2 DEF PInv, Typed, Quiet
<1>3. Failure(TRUE) \in Results /\ Failure(TRUE).timedOut
    BY FailureIsResult
<1>4. down' \in Seq(Commands) /\ down' = down /\ Locks(r)
    BY <1>1 DEF PInv, Typed, Locks
<1> QED
    BY <1>1, <1>2, <1>3, <1>4, EndStep

LEMMA HandleMessageStep == PInv /\ InTime /\ HandleMessage => PInv' /\ InTime'
<1> SUFFICES ASSUME PInv, InTime, HandleMessage PROVE PInv' /\ InTime'
    OBVIOUS
<1>1. /\ up # <<>> /\ up' = Tail(up) /\ response' = Head(up)
      /\ sequence' = sequence + 1 /\ heard' = heard + 1
      /\ UNCHANGED <<timely, pc, holder, start, results, down, cmdQueue>>
    BY DEF HandleMessage
<1>2. Tail(up) \in Seq(Answers) /\ Head(up) \in Answers
    BY <1>1 DEF PInv, Typed
<1>3. Typed'
    BY <1>1, <1>2 DEF PInv, Typed
<1>4. (MutexHeld /\ Counted /\ Progress)'
  <2>1. MutexHeld' /\ Progress'
      BY <1>1 DEF PInv, MutexHeld, Progress, Locks
  <2>2. ASSUME NEW r \in Requests, pc[r] \in {"publish", "wait"}
        PROVE  sequence + 1 = start[r] + (heard + 1)
    <3>1. sequence = start[r] + heard
        BY <2>2 DEF PInv, Counted
    <3>2. sequence \in Nat /\ heard \in Nat /\ start[r] \in Nat
        BY DEF PInv, Typed
    <3> QED
        BY ONLY <3>1, <3>2
  <2>3. Counted'
      BY <1>1, <2>2 DEF Counted
  <2> QED
      BY <2>1, <2>3
<1>5. ASSUME timely PROVE InTime'
  <2>1. PICK r \in Requests : pc[r] = "wait"
      BY <1>1, <1>5 DEF InTime, Quiet
  <2>2. \A s \in Requests : s # r => ~Locks(s)
      BY <2>1, OnlyOne DEF Locks
  <2>3. PICK answer \in Answers : /\ down = <<>> /\ cmdQueue = <<>>
                                 /\ answer.of = Command(r) /\ up = <<answer>>
      BY <1>1, <1>5, <2>1 DEF InTime, Carried, Quiet
  <2>4. up' = <<>> /\ response' = answer
      BY <1>1, <2>3, Single
  <2>5. Carried(r)'
      BY <1>1, <2>3, <2>4 DEF Carried, Quiet, Command, Step
  <2> QED
      BY <1>1, <1>5, <2>1, <2>2, <2>5 DEF InTime, Locks, OwnAnswer
<1>6. ASSUME ~timely PROVE InTime'
  <2>1. timely' = timely
      BY <1>1
  <2>2. ~timely'
      BY ONLY <1>6, <2>1
  <2> QED
      BY ONLY <2>2 DEF InTime
<1> QED
    BY <1>3, <1>4, <1>5, <1>6 DEF PInv

-----------------------------------------------------------------------------
(* The boards and the network.                                             *)

\* Where the server does not move, what is underway must stay with its request.
LEMMA TransportStep ==
    ASSUME PInv, InTime, UNCHANGED serverVars,
           down' \in Seq(Commands), cmdQueue' \in Seq(Commands), up' \in Seq(Answers),
           ~Quiet \/ ~timely,
           ASSUME timely, NEW r \in Requests, pc[r] = "wait", Carried(r)
           PROVE  Carried(r)'
    PROVE  PInv' /\ InTime'
<1>1. UNCHANGED <<timely, pc, holder, sequence, response, start, results, heard>>
    BY DEF serverVars
<1>2. Typed'
    BY <1>1 DEF PInv, Typed
<1>3. (MutexHeld /\ Counted /\ Progress)'
    BY <1>1 DEF PInv, MutexHeld, Counted, Progress, Locks
<1>4. InTime'
  <2>1. timely => \E r \in Requests : pc[r] = "wait"
      BY DEF InTime
  <2>2. timely => \A r \in Requests : pc[r] = "wait" => Carried(r)'
      BY DEF InTime
  <2>3. timely => OwnAnswer'
      BY <1>1 DEF InTime, OwnAnswer
  <2> QED
      BY <1>1, <2>1, <2>2, <2>3 DEF InTime
<1> QED
    BY <1>2, <1>3, <1>4 DEF PInv

LEMMA EspReceiveStep == PInv /\ InTime /\ EspReceive => PInv' /\ InTime'
<1> SUFFICES ASSUME PInv, InTime, EspReceive PROVE PInv' /\ InTime'
    OBVIOUS
<1>1. /\ down # <<>> /\ down' = Tail(down) /\ up' = up /\ UNCHANGED serverVars
      /\ cmdQueue' \in {Append(cmdQueue, Head(down)), cmdQueue}
    BY DEF EspReceive
<1>2. /\ Tail(down) \in Seq(Commands) /\ cmdQueue' \in Seq(Commands)
      /\ up' \in Seq(Answers)
  <2>1. Head(down) \in Commands /\ Tail(down) \in Seq(Commands)
      BY <1>1 DEF PInv, Typed
  <2>2. cmdQueue \in Seq(Commands) /\ Append(cmdQueue, Head(down)) \in Seq(Commands)
      BY <2>1, OneMore DEF PInv, Typed
  <2> QED
      BY <1>1, <2>1, <2>2 DEF PInv, Typed
<1>3. ASSUME NEW r \in Requests, Carried(r) PROVE Carried(r)'
  <2>1. sequence = start[r] /\ down = <<Command(r)>> /\ cmdQueue = <<>> /\ up = <<>>
      BY <1>1, <1>3 DEF Carried, Quiet
  <2>2. down' = <<>> /\ cmdQueue' \in {<<Command(r)>>, <<>>}
      BY <1>1, <2>1, Single
  <2> QED
      BY <1>1, <2>1, <2>2 DEF Carried, Quiet, Command, Step, serverVars
<1> QED
    BY <1>1, <1>2, <1>3, TransportStep DEF Quiet

LEMMA RunCommandStep == PInv /\ InTime /\ RunCommand => PInv' /\ InTime'
<1> SUFFICES ASSUME PInv, InTime, RunCommand PROVE PInv' /\ InTime'
    OBVIOUS
<1>1. PICK err \in BOOLEAN :
          /\ cmdQueue # <<>> /\ cmdQueue' = Tail(cmdQueue) /\ down' = down
          /\ up' = Append(up, [of |-> Head(cmdQueue), err |-> err])
          /\ UNCHANGED serverVars
    BY DEF RunCommand
<1>2. /\ Tail(cmdQueue) \in Seq(Commands) /\ Head(cmdQueue) \in Commands
      /\ down' \in Seq(Commands)
    BY <1>1 DEF PInv, Typed
<1>3. [of |-> Head(cmdQueue), err |-> err] \in Answers
    BY <1>2 DEF Answers
<1>4. up' \in Seq(Answers)
    BY <1>1, <1>3, OneMore DEF PInv, Typed
<1>5. ASSUME NEW r \in Requests, Carried(r) PROVE Carried(r)'
  <2>1. sequence = start[r] /\ down = <<>> /\ cmdQueue = <<Command(r)>> /\ up = <<>>
      BY <1>1, <1>5 DEF Carried, Quiet
  <2>2. cmdQueue' = <<>> /\ up' = <<[of |-> Command(r), err |-> err]>>
      BY <1>1, <2>1, Single
  <2>3. [of |-> Command(r), err |-> err] \in Answers
      BY <1>3, <2>1, Single
  <2> QED
      BY <1>1, <2>1, <2>2, <2>3 DEF Carried, Command, Step, serverVars
<1> QED
    BY <1>1, <1>2, <1>4, <1>5, TransportStep DEF Quiet

LEMMA LossStep ==
    ASSUME PInv, InTime, LoseCommand \/ LoseAnswer PROVE PInv' /\ InTime'
<1>1. /\ UNCHANGED serverVars
      /\ \/ down # <<>> /\ down' = Tail(down) /\ cmdQueue' = cmdQueue /\ up' = up
         \/ cmdQueue # <<>> /\ cmdQueue' = Tail(cmdQueue) /\ down' = down /\ up' = up
         \/ up # <<>> /\ up' = Tail(up) /\ down' = down /\ cmdQueue' = cmdQueue
    BY DEF LoseCommand, LoseAnswer, Fault
<1>2. /\ down' \in Seq(Commands) /\ cmdQueue' \in Seq(Commands)
      /\ up' \in Seq(Answers) /\ ~Quiet
  <2>1. /\ down # <<>> => Tail(down) \in Seq(Commands)
        /\ cmdQueue # <<>> => Tail(cmdQueue) \in Seq(Commands)
        /\ up # <<>> => Tail(up) \in Seq(Answers)
      BY DEF PInv, Typed
  <2>2. ~Quiet
      BY <1>1 DEF Quiet
  <2> QED
      BY <1>1, <2>1, <2>2 DEF PInv, Typed
<1>3. ASSUME NEW r \in Requests, Carried(r) PROVE Carried(r)'
  <2>1. down' = <<>> /\ cmdQueue' = <<>> /\ up' = <<>> /\ sequence = start[r]
      BY <1>1, <1>3, Single DEF Carried, Quiet
  <2> QED
      BY <1>1, <2>1 DEF Carried, Quiet, serverVars
<1> QED
    BY <1>1, <1>2, <1>3, TransportStep

LEMMA UntimelyStep ==
    ASSUME PInv, InTime, RepeatCommand \/ ForeignAnswer PROVE PInv' /\ InTime'
<1>1. ~timely /\ UNCHANGED serverVars /\ cmdQueue' = cmdQueue
    BY DEF RepeatCommand, ForeignAnswer, Fault
<1>2. down' \in Seq(Commands) /\ up' \in Seq(Answers)
  <2>1. CASE RepeatCommand
    <3>1. down # <<>> /\ down' = <<Head(down)>> \o down /\ up' = up
        BY <2>1 DEF RepeatCommand
    <3>2. down \in Seq(Commands) /\ <<Head(down)>> \in Seq(Commands)
        BY <3>1 DEF PInv, Typed
    <3> QED
        BY <3>1, <3>2 DEF PInv, Typed
  <2>2. CASE ForeignAnswer
    <3>1. PICK err \in BOOLEAN :
              down' = down /\ up' = Append(up, [of |-> NoCommand, err |-> err])
        BY <2>2 DEF ForeignAnswer
    <3>2. [of |-> NoCommand, err |-> err] \in Answers
        BY DEF Answers
    <3> QED
        BY <3>1, <3>2, OneMore DEF PInv, Typed
  <2> QED
      BY <2>1, <2>2
<1>3. cmdQueue' \in Seq(Commands)
    BY <1>1 DEF PInv, Typed
<1> QED
    BY <1>1, <1>2, <1>3, TransportStep

-----------------------------------------------------------------------------
LEMMA NextPInv == PInv /\ InTime /\ [Next]_vars => PInv' /\ InTime'
<1> SUFFICES ASSUME PInv, InTime, [Next]_vars PROVE PInv' /\ InTime'
    OBVIOUS
<1>1. CASE \E r \in Requests : ServerStep(r)
    BY <1>1, AcquireStep, BeginStep, PublishStep, PublishFailsStep, AnsweredStep,
       TimesOutStep DEF ServerStep
<1>2. CASE HandleMessage
    BY <1>2, HandleMessageStep
<1>3. CASE Device
    BY <1>3, EspReceiveStep, RunCommandStep DEF Device
<1>4. CASE Network
    BY <1>4, LossStep, UntimelyStep DEF Network
<1>5. CASE UNCHANGED vars
  <2>1. UNCHANGED <<timely, pc, holder, sequence, response, start, results, heard,
                    down, cmdQueue, up>>
      BY <1>5 DEF vars
  <2>2. PInv'
      BY <2>1 DEF PInv, Typed, MutexHeld, Counted, Progress, Locks
  <2>3. InTime'
      BY <2>1 DEF InTime, Quiet, Carried, Command, Step, OwnAnswer
  <2> QED
      BY <2>2, <2>3
<1> QED
    BY <1>1, <1>2, <1>3, <1>4, <1>5 DEF Next

LEMMA PInvHolds == Spec => [](PInv /\ InTime)
  BY InitPInv, NextPInv, PTL DEF Spec

\* While answers are timely, a request returns the answer to its own command.
THEOREM OwnAnswerInTimeHolds == Spec => []OwnAnswerInTime
<1>1. InTime => OwnAnswerInTime
    BY DEF InTime, OwnAnswerInTime
<1> QED
    BY <1>1, PInvHolds, PTL

\* While answers are timely, request_mutex_ lets at most one command or answer
\* be underway.
THEOREM OneUnderwayHolds == Spec => []OneUnderway
<1>1. PInv /\ InTime => OneUnderway
  <2> SUFFICES ASSUME InTime, timely PROVE Underway <= 1
      BY DEF OneUnderway
  <2>1. Len(<<>>) = 0
      OBVIOUS
  <2>2. CASE Quiet
      BY <2>1, <2>2 DEF Quiet, Underway
  <2>3. CASE ~Quiet
    <3>1. PICK r \in Requests : Carried(r)
        BY <2>3 DEF InTime
    <3>2. \/ down = <<Command(r)>> /\ cmdQueue = <<>> /\ up = <<>>
          \/ down = <<>> /\ cmdQueue = <<Command(r)>> /\ up = <<>>
          \/ down = <<>> /\ cmdQueue = <<>> /\ \E answer \in Answers : up = <<answer>>
        BY <2>3, <3>1 DEF Carried
    <3>3. \/ Len(down) = 1 /\ Len(cmdQueue) = 0 /\ Len(up) = 0
          \/ Len(down) = 0 /\ Len(cmdQueue) = 1 /\ Len(up) = 0
          \/ Len(down) = 0 /\ Len(cmdQueue) = 0 /\ Len(up) = 1
        BY <2>1, <3>2, Single
    <3> QED
        BY <3>3 DEF Underway
  <2> QED
      BY <2>2, <2>3
<1> QED
    BY <1>1, PInvHolds, PTL

\* The emergency sequence goes on only after steps reported ok; centering tries
\* every motor.
THEOREM StopsAtFailureHolds == Spec => []StopsAtFailure
<1>1. PInv => StopsAtFailure
    BY DEF PInv, Progress, StopsAtFailure, Requests
<1> QED
    BY <1>1, PInvHolds, PTL

\* A command that returns as timed out got no answer after its publish: one that
\* came before the thread began to wait is not missed.
THEOREM NoAnswerMissedHolds == Spec => NoAnswerMissed
<1>1. ASSUME PInv, [Next]_vars
      PROVE  [\A r \in Requests : Len(results'[r]) > Len(results[r])
                  /\ results'[r][Len(results'[r])].timedOut => heard = 0]_vars
  <2> SUFFICES ASSUME Next, NEW r \in Requests, Len(results'[r]) > Len(results[r]),
                      results'[r][Len(results'[r])].timedOut
               PROVE  heard = 0
      BY <1>1
  <2>1. PICK s \in Requests : PublishFails(s) \/ Answered(s) \/ TimesOut(s)
    <3>1. results' # results
        BY <1>1 DEF PInv, Typed
    <3> QED
        BY <3>1 DEF Next, ServerStep, Acquire, Begin, Publish, HandleMessage, Device,
                    EspReceive, RunCommand, Network, LoseCommand, LoseAnswer,
                    RepeatCommand, ForeignAnswer, Fault, serverVars
  <2>2. PICK result \in Results :
            /\ Return(s, result) /\ Locks(s)
            /\ result.timedOut => TimesOut(s)
    <3>1. CASE PublishFails(s)
        BY <3>1, FailureIsResult DEF PublishFails, Locks
    <3>2. CASE Answered(s)
      <4>1. [ok |-> ~response.err, published |-> TRUE,
             timedOut |-> FALSE, answer |-> response.of] \in Results
          BY <1>1 DEF PInv, Typed, Answers, Results
      <4> QED
          BY <3>2, <4>1 DEF Answered, Locks
    <3>3. CASE TimesOut(s)
        BY <3>3, FailureIsResult DEF TimesOut, Locks
    <3> QED
        BY <2>1, <3>1, <3>2, <3>3
  <2>3. /\ \A t \in Requests : t # s => results'[t] = results[t]
        /\ results'[s] = Append(results[s], result)
      BY <1>1, <2>2, ReturnStep
  <2>4. results[s] \in Seq(Results) /\ results[r] \in Seq(Results)
      BY <1>1 DEF PInv, Typed
  <2>5. r = s
      BY <2>3, <2>4
  <2>6. results'[r][Len(results'[r])] = result
      BY <2>3, <2>4, <2>5, OneMore
  <2>7. pc[s] = "wait" /\ sequence <= start[s]
      BY <2>2, <2>6 DEF TimesOut
  <2> QED
      BY <1>1, <2>7 DEF PInv, Typed, Counted
<1> QED
    BY <1>1, PInvHolds, PTL DEF Spec, NoAnswerMissed

-----------------------------------------------------------------------------
(* What the STM32 has run.                                                 *)

\* A step in which the STM32 runs nothing and no request begins to wait.
LEMMA NothingRunStep ==
    ASSUME History, executed' = executed, timely' = timely, results' = results,
           \A r \in Requests : PastQueue(r) => PastQueue(r)',
           timely => \A r \in Requests :
               (pc[r] = "wait" /\ (up # <<>> \/ sequence # start[r]))' =>
                   pc[r] = "wait" /\ (up # <<>> \/ sequence # start[r])
    PROVE  History'
<1>1. OkStepsWereRun'
    BY DEF History, OkStepsWereRun
<1>2. \A r \in Requests : Step(r)' = Step(r) /\ Command(r)' = Command(r)
    BY DEF Step, Command
<1>3. \A c : Ran(c)' = Ran(c)
    BY DEF Ran
<1> QED
    BY <1>1, <1>2, <1>3 DEF History

\* The end of a command: what it returns as ok was run.
LEMMA EndHistory ==
    ASSUME PInv, History, NEW r \in Requests, Locks(r),
           NEW result \in Results, Return(r, result),
           timely /\ result.ok => Ran(Command(r)),
           UNCHANGED <<timely, executed>>
    PROVE  History'
<1>1. /\ results' \in [Requests -> Seq(Results)]
      /\ \A s \in Requests : s # r => results'[s] = results[s]
      /\ \A s \in Requests : ~Locks(s)'
      /\ results'[r] = Append(results[r], result)
    BY ReturnStep
<1>2. results[r] \in Seq(Results)
    BY DEF PInv, Typed
<1>3. /\ Len(results'[r]) = Len(results[r]) + 1 /\ Len(results[r]) \in Nat
      /\ results'[r][Len(results[r]) + 1] = result
      /\ \A i \in 1..Len(results[r]) : results'[r][i] = results[r][i]
    BY <1>1, <1>2, OneMore
<1>4. Command(r) = <<r, Len(results[r]) + 1>>
    BY DEF Command, Step
<1>5. ASSUME timely, NEW i \in 1..Len(results'[r]), results'[r][i].ok
      PROVE  \E j \in 1..Len(executed) : executed[j] = <<r, i>>
  <2>1. CASE i \in 1..Len(results[r])
      BY <1>3, <1>5, <2>1 DEF History, OkStepsWereRun
  <2>2. CASE i = Len(results[r]) + 1
      BY <1>3, <1>4, <1>5, <2>2 DEF Ran
  <2> QED
      BY <1>3, <2>1, <2>2
<1>6. OkStepsWereRun'
    BY <1>1, <1>5 DEF History, OkStepsWereRun
<1>7. ASSUME timely, NEW j \in 1..Len(executed), NEW s \in Requests, executed[j][1] = s
      PROVE  executed[j][2] < Step(s)'
  <2>1. executed[j] \in Commands
      BY DEF History
  <2>2. executed[j][2] \in Nat
      BY <2>1 DEF Commands
  <2>3. executed[j][2] <= Step(s) /\ (executed[j][2] = Step(s) => PastQueue(s))
      BY <1>7 DEF History
  <2>4. CASE s = r
    <3>1. Step(r)' = Len(results[r]) + 2 /\ Step(r) = Len(results[r]) + 1
        BY <1>3 DEF Step
    <3> QED
        BY <1>3, <2>2, <2>3, <2>4, <3>1
  <2>5. CASE s # r
    <3>1. ~PastQueue(s)
        BY <2>5, OnlyOne DEF PastQueue, Locks
    <3>2. Step(s)' = Step(s) /\ Step(s) \in Nat
        BY <1>1, <2>5 DEF Step, PInv, Typed
    <3> QED
        BY <2>2, <2>3, <3>1, <3>2
  <2> QED
      BY <2>4, <2>5
<1>8. ASSUME timely, NEW j \in 1..Len(executed), NEW s \in Requests, executed[j][1] = s
      PROVE  executed[j][2] <= Step(s)' /\ executed[j][2] # Step(s)'
  <2>1. executed[j] \in Commands /\ Len(results'[s]) \in Nat
      BY <1>1 DEF History
  <2>2. executed[j][2] \in Nat /\ Step(s)' \in Nat
      BY <2>1 DEF Commands, Step
  <2> QED
      BY <1>7, <1>8, <2>2
<1>9. \A s \in Requests : pc'[s] # "wait"
    BY <1>1 DEF Locks
<1> QED
    BY <1>6, <1>8, <1>9 DEF History

LEMMA ServerHistory ==
    ASSUME PInv, InTime, History, NEW r \in Requests, ServerStep(r)
    PROVE  History'
<1>1. CASE Acquire(r) \/ Begin(r)
  <2>1. /\ UNCHANGED <<timely, sequence, results, down, cmdQueue, up, executed>>
        /\ start' = start \/ start' = [start EXCEPT ![r] = sequence]
      BY <1>1 DEF Acquire, Begin, deviceVars
  <2>2. /\ pc[r] # "wait" /\ pc'[r] # "wait"
        /\ \A s \in Requests : s # r => pc'[s] = pc[s]
      BY <1>1 DEF Acquire, Begin, PInv, Typed
  <2>3. \A s \in Requests : s # r => start'[s] = start[s]
      BY <2>1 DEF PInv, Typed
  <2> QED
      BY <2>1, <2>2, <2>3, NothingRunStep DEF PastQueue
<1>2. CASE Publish(r)
  <2>1. /\ pc[r] = "publish" /\ pc' = [pc EXCEPT ![r] = "wait"]
        /\ UNCHANGED <<timely, sequence, start, results, cmdQueue, up, executed>>
      BY <1>2 DEF Publish
  <2>2. \A s \in Requests : s # r => pc[s] # "wait" /\ pc'[s] # "wait"
      BY <2>1, OnlyOne DEF Locks, PInv, Typed
  <2>3. timely => up = <<>> /\ sequence = start[r]
      BY <2>1, <2>2 DEF InTime, Quiet
  <2> QED
      BY <2>1, <2>2, <2>3, NothingRunStep DEF PastQueue
<1>3. CASE PublishFails(r)
  <2>1. /\ Locks(r) /\ Return(r, Failure(FALSE)) /\ UNCHANGED <<timely, executed>>
      BY <1>3 DEF PublishFails, Locks
  <2> QED
      BY <2>1, FailureIsResult, EndHistory
<1>4. CASE Answered(r)
  <2> DEFINE result == [ok |-> ~response.err, published |-> TRUE,
                        timedOut |-> FALSE, answer |-> response.of]
  <2>1. /\ pc[r] = "wait" /\ sequence > start[r] /\ Return(r, result)
        /\ UNCHANGED <<timely, executed>>
      BY <1>4 DEF Answered, deviceVars
  <2>2. result \in Results
      BY DEF PInv, Typed, Answers, Results
  <2> HIDE DEF result
  <2>3. sequence # start[r] /\ Locks(r)
      BY <2>1 DEF PInv, Typed, Locks
  <2>4. timely => Ran(Command(r))
      BY <2>1, <2>3 DEF History
  <2> QED
      BY <2>1, <2>2, <2>3, <2>4, EndHistory
<1>5. CASE TimesOut(r)
  <2>1. /\ Locks(r) /\ Return(r, Failure(TRUE)) /\ UNCHANGED <<timely, executed>>
      BY <1>5 DEF TimesOut, deviceVars, Locks
  <2> QED
      BY <2>1, FailureIsResult, EndHistory
<1> QED
    BY <1>1, <1>2, <1>3, <1>4, <1>5 DEF ServerStep

\* The STM32 runs the command a request waits for, and none before it again.
LEMMA RunHistory == PInv /\ InTime /\ History /\ RunCommand => History'
<1> SUFFICES ASSUME PInv, InTime, History, RunCommand PROVE History'
    OBVIOUS
<1>1. /\ cmdQueue # <<>> /\ cmdQueue' = Tail(cmdQueue) /\ down' = down
      /\ executed' = Append(executed, Head(cmdQueue))
      /\ UNCHANGED <<timely, pc, results, sequence, start>>
    BY DEF RunCommand, serverVars
<1>2. executed \in Seq(Commands) /\ Head(cmdQueue) \in Commands
    BY <1>1 DEF History, PInv, Typed
<1>3. /\ executed' \in Seq(Commands) /\ Len(executed') = Len(executed) + 1
      /\ Len(executed) \in Nat /\ executed'[Len(executed) + 1] = Head(cmdQueue)
      /\ \A j \in 1..Len(executed) : executed'[j] = executed[j]
    BY <1>1, <1>2, OneMore
<1>4. ASSUME ~timely PROVE History'
  <2>1. ~timely'
      BY <1>1, <1>4
  <2> QED
      BY ONLY <1>3, <2>1 DEF History, OkStepsWereRun
<1>5. ASSUME timely PROVE History'
  <2>1. PICK r \in Requests : pc[r] = "wait"
      BY <1>1, <1>5 DEF InTime, Quiet
  <2>2. down = <<>> /\ cmdQueue = <<Command(r)>>
      BY <1>1, <1>5, <2>1 DEF InTime, Carried, Quiet
  <2>3. Head(cmdQueue) = Command(r) /\ cmdQueue' = <<>>
      BY <1>1, <2>2, Single
  <2>4. PastQueue(r)' /\ \A s \in Requests : s # r => pc[s] # "wait" /\ ~PastQueue(s)
      BY <1>1, <2>1, <2>2, <2>3, OnlyOne DEF PastQueue, Locks
  <2>5. \A s \in Requests : Step(s)' = Step(s) /\ Command(s)' = Command(s) /\ Step(s) \in Nat
      BY <1>1 DEF Step, Command, PInv, Typed
  <2>6. ~PastQueue(r)
      BY <1>1 DEF PastQueue
  <2>7. executed'[Len(executed) + 1] = <<r, Step(r)>>
      BY <1>3, <2>3 DEF Command
  <2>8. \A j \in 1..Len(executed) :
            /\ executed[j] \in Commands /\ executed[j][2] \in Nat
            /\ \A s \in Requests : executed[j][1] = s => executed[j][2] <= Step(s)
            /\ executed[j][1] = r => executed[j][2] < Step(r)
    <3> SUFFICES ASSUME NEW j \in 1..Len(executed)
                 PROVE  /\ executed[j] \in Commands /\ executed[j][2] \in Nat
                        /\ \A s \in Requests : executed[j][1] = s => executed[j][2] <= Step(s)
                        /\ executed[j][1] = r => executed[j][2] < Step(r)
        OBVIOUS
    <3>1. executed[j] \in Commands /\ executed[j][2] \in Nat
        BY <1>2 DEF Commands
    <3>2. \A s \in Requests : executed[j][1] = s =>
              executed[j][2] <= Step(s) /\ (executed[j][2] = Step(s) => PastQueue(s))
        BY <1>5 DEF History
    <3> QED
        BY <2>5, <2>6, <3>1, <3>2
  <2>9. ASSUME NEW i \in 1..Len(executed'), NEW j \in 1..Len(executed'),
               i < j, executed'[i][1] = executed'[j][1]
        PROVE  executed'[i][2] < executed'[j][2]
    <3>1. i \in 1..Len(executed)
        BY <1>3, <2>9
    <3>2. CASE j \in 1..Len(executed)
        BY <1>3, <1>5, <2>9, <3>1, <3>2 DEF History, OkStepsWereRun
    <3>3. CASE j = Len(executed) + 1
      <4>1. executed'[j] = <<r, Step(r)>> /\ executed'[i] = executed[i]
          BY <1>3, <2>7, <3>1, <3>3
      <4> QED
          BY <2>8, <2>9, <3>1, <4>1
    <3> QED
        BY <1>3, <3>2, <3>3
  <2>10. \A c : Ran(c) \/ c = Command(r) => Ran(c)'
    <3>1. Len(executed) + 1 \in 1..Len(executed')
        BY <1>3
    <3> QED
        BY <1>3, <2>7, <3>1 DEF Ran, Command
  <2>11. OkStepsWereRun'
    <3>1. \A s \in Requests : \A i \in 1..Len(results'[s]) :
              results'[s][i].ok => \E j \in 1..Len(executed') : executed'[j] = <<s, i>>
      <4>1. \A s \in Requests : \A i \in 1..Len(results[s]) :
                results[s][i].ok => Ran(<<s, i>>)
          BY <1>5 DEF History, OkStepsWereRun, Ran
      <4> QED
          BY <1>1, <2>10, <4>1 DEF Ran
    <3> QED
        BY <2>9, <3>1 DEF OkStepsWereRun
  <2>12. ASSUME NEW j \in 1..Len(executed'), NEW s \in Requests, executed'[j][1] = s
         PROVE  /\ executed'[j][2] <= Step(s)'
                /\ executed'[j][2] = Step(s)' => PastQueue(s)'
    <3>1. CASE j \in 1..Len(executed)
      <4>1. executed'[j] = executed[j]
          BY <1>3, <3>1
      <4>2. executed[j][2] = Step(s) => PastQueue(s)
          BY <1>5, <2>12, <3>1, <4>1 DEF History
      <4>3. PastQueue(s) => s = r
          BY <2>4
      <4>4. executed'[j][2] = Step(s)' => PastQueue(s)'
          BY <2>4, <2>5, <4>1, <4>2, <4>3
      <4> QED
          BY <2>5, <2>8, <2>12, <3>1, <4>1, <4>4
    <3>2. CASE j = Len(executed) + 1
      <4>1. s = r /\ executed'[j][2] = Step(r)
          BY <2>7, <2>12, <3>2
      <4> QED
          BY <2>4, <2>5, <4>1
    <3> QED
        BY <1>3, <3>1, <3>2
  <2>13. \A s \in Requests :
             pc'[s] = "wait" /\ (up' # <<>> \/ sequence' # start'[s]) => Ran(Command(s))'
      BY <1>1, <2>4, <2>5, <2>10
  <2> QED
      BY <1>3, <2>11, <2>12, <2>13 DEF History
<1> QED
    BY <1>4, <1>5

LEMMA OtherHistory ==
    ASSUME PInv, InTime, History, HandleMessage \/ EspReceive \/ Network
    PROVE  History'
<1>1. CASE HandleMessage
    BY <1>1, NothingRunStep DEF HandleMessage, PastQueue
<1>2. CASE EspReceive
  <2>1. down # <<>> /\ UNCHANGED <<timely, pc, results, sequence, start, executed, up>>
      BY <1>2 DEF EspReceive, serverVars
  <2> QED
      BY <2>1, NothingRunStep DEF PastQueue
<1>3. CASE LoseCommand \/ LoseAnswer
  <2>1. /\ UNCHANGED <<timely, pc, results, sequence, start, executed>>
        /\ \/ (down # <<>> \/ cmdQueue # <<>>) /\ up' = up
           \/ up # <<>> /\ down' = down /\ cmdQueue' = cmdQueue
      BY <1>3 DEF LoseCommand, LoseAnswer, Fault, serverVars
  <2> QED
      BY <2>1, NothingRunStep DEF PastQueue
<1>4. CASE RepeatCommand \/ ForeignAnswer
  <2>1. /\ ~timely /\ UNCHANGED <<timely, pc, results, sequence, start, executed>>
        /\ down # <<>> \/ (down' = down /\ cmdQueue' = cmdQueue)
      BY <1>4 DEF RepeatCommand, ForeignAnswer, Fault, serverVars
  <2> QED
      BY <2>1, NothingRunStep DEF PastQueue
<1> QED
    BY <1>1, <1>2, <1>3, <1>4 DEF Network

\* While answers are timely, a step reported ok was run by the STM32, once, and the
\* steps of a request were run in their order.
THEOREM OkStepsWereRunHolds == Spec => []OkStepsWereRun
<1>1. Init => History
  <2> SUFFICES ASSUME Init PROVE History
      OBVIOUS
  <2>1. executed = <<>> /\ up = <<>> /\ executed \in Seq(Commands) /\ Len(executed) = 0
      BY DEF Init
  <2>2. \A r \in Requests : Len(results[r]) = 0 /\ pc[r] = "lock"
      BY DEF Init
  <2> QED
      BY <2>1, <2>2 DEF History, OkStepsWereRun
<1>2. PInv /\ InTime /\ History /\ [Next]_vars => History'
  <2>1. PInv /\ InTime /\ History /\ UNCHANGED vars => History'
      BY NothingRunStep DEF vars, PastQueue
  <2> QED
      BY <2>1, ServerHistory, RunHistory, OtherHistory DEF Next, Device
<1>3. History => OkStepsWereRun
    BY DEF History
<1> QED
    BY <1>1, <1>2, <1>3, PInvHolds, PTL DEF Spec
=============================================================================
