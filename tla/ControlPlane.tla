---------------------------- MODULE ControlPlane ----------------------------
(***************************************************************************)
(* The path of a motor command: a REST request in MotorManager (crow_server *)
(* features/motor/MotorManager.cpp) publishes it over MQTT and waits for an *)
(* answer; the ESP32 queues it (mqtt.c) and hands it to the STM32           *)
(* (cmd_uart.c); the line the STM32 answers is published on the response   *)
(* topic.  An answer carries no name of the command it answers: the server *)
(* takes the next message on the topic.                                    *)
(*                                                                         *)
(* A request of several commands is the emergency sequence, which stops at *)
(* the first failure, or centering, which goes on.  The network may lose   *)
(* commands and answers.  Unless timely, it may also repeat them, delay    *)
(* them beyond the time a request waits, and carry answers nobody asked    *)
(* for (other clients of the topic, READY after a reset, ERR overflow).    *)
(***************************************************************************)
EXTENDS Integers, Sequences, FiniteSets

CONSTANTS Emergencies,  \* requests of /motor/emergency
          Centerings,   \* requests of /motor/control/center
          NumSteps,     \* commands of a request
          CmdQueueCap,  \* length of g_cmd_uart_queue
          MaxFaults,    \* bound: failures of the network and foreign answers
          Nobody        \* value of holder when request_mutex_ is free

Requests == Emergencies \union Centerings

ASSUME ControlConstants ==
    /\ Emergencies \intersect Centerings = {}
    /\ Nobody \notin Emergencies \union Centerings
    /\ NumSteps \in Nat \ {0} /\ CmdQueueCap \in Nat \ {0}
    /\ MaxFaults \in Nat

VARIABLES timely,    \* is a command answered or lost before its timeout?
          pc,        \* where each request is in sendCommandToTopic
          holder,    \* the request that holds request_mutex_
          awaiting,  \* awaiting_response_
          sequence,  \* response_sequence_
          response,  \* last_response_
          start,     \* start_sequence of each request
          results,   \* the results of the commands of each request so far
          down,      \* published commands the broker has not delivered
          cmdQueue,  \* g_cmd_uart_queue of the ESP32
          up,        \* answers published and not delivered
          executed,  \* history: commands the STM32 has run
          heard,     \* history: answers the server got since the publish
          faults     \* failures so far

serverVars == <<timely, pc, holder, awaiting, sequence, response, start, results, heard>>
deviceVars == <<timely, down, cmdQueue, up, executed>>
vars == <<timely, pc, holder, awaiting, sequence, response, start, results,
          down, cmdQueue, up, executed, heard, faults>>

NoCommand == <<Nobody, 0>>
Commands == Requests \X (1..NumSteps)
Answers == [of : Commands \union {NoCommand}, err : BOOLEAN]
Results == [ok : BOOLEAN, published : BOOLEAN, timedOut : BOOLEAN,
            answer : Commands \union {NoCommand}]

Step(r) == Len(results[r]) + 1
Command(r) == <<r, Step(r)>>

TypeOK ==
    /\ timely \in BOOLEAN
    /\ pc \in [Requests -> {"lock", "begin", "publish", "wait", "done"}]
    /\ holder \in Requests \union {Nobody}
    /\ awaiting \in BOOLEAN
    /\ sequence \in Nat
    /\ response \in Answers
    /\ start \in [Requests -> Nat]
    /\ \A r \in Requests : results[r] \in Seq(Results) /\ Len(results[r]) <= NumSteps
    /\ down \in Seq(Commands) /\ up \in Seq(Answers)
    /\ cmdQueue \in Seq(Commands) /\ Len(cmdQueue) <= CmdQueueCap
    /\ executed \in Seq(Commands)
    /\ heard \in Nat
    /\ faults \in 0..MaxFaults

Init ==
    /\ timely \in BOOLEAN
    /\ pc = [r \in Requests |-> "lock"]
    /\ holder = Nobody
    /\ awaiting = FALSE
    /\ sequence = 0
    /\ response = [of |-> NoCommand, err |-> FALSE]
    /\ start = [r \in Requests |-> 0]
    /\ results = [r \in Requests |-> <<>>]
    /\ down = <<>> /\ cmdQueue = <<>> /\ up = <<>> /\ executed = <<>>
    /\ heard = 0
    /\ faults = 0
-----------------------------------------------------------------------------
(***************************************************************************)
(* MotorManager::sendCommandToTopic and its two callers                    *)
(***************************************************************************)
Acquire(r) ==
    /\ pc[r] = "lock" /\ holder = Nobody
    /\ holder' = r
    /\ pc' = [pc EXCEPT ![r] = "begin"]
    /\ UNCHANGED <<awaiting, sequence, response, start, results, heard, faults>>
    /\ UNCHANGED deviceVars

\* The sequence number is taken before the command is published.
Begin(r) ==
    /\ pc[r] = "begin"
    /\ awaiting' = TRUE
    /\ start' = [start EXCEPT ![r] = sequence]
    /\ heard' = 0
    /\ pc' = [pc EXCEPT ![r] = "publish"]
    /\ UNCHANGED <<holder, sequence, response, results, faults>>
    /\ UNCHANGED deviceVars

\* Mutant: the emergency sequence goes on after a step that failed.
Return_goesOn(r, result) ==
    /\ results' = [results EXCEPT ![r] = Append(@, result)]
    /\ holder' = Nobody
    /\ awaiting' = FALSE
    /\ pc' = [pc EXCEPT ![r] = IF Step(r) = NumSteps THEN "done" ELSE "lock"]
    /\ UNCHANGED <<sequence, response, start, heard>>

\* Mutant: a command that timed out does not give the mutex back.
Return_keepsMutex(r, result) ==
    /\ results' = [results EXCEPT ![r] = Append(@, result)]
    /\ holder' = IF result.timedOut THEN holder ELSE Nobody
    /\ awaiting' = FALSE
    /\ pc' = [pc EXCEPT ![r] =
                IF Step(r) = NumSteps \/ (r \in Emergencies /\ ~result.ok)
                THEN "done" ELSE "lock"]
    /\ UNCHANGED <<sequence, response, start, heard>>

\* The end of a command: makeEmergencySequenceResponse breaks off at a result
\* that is not ok, the centering loop goes on.
Return(r, result) ==
    /\ results' = [results EXCEPT ![r] = Append(@, result)]
    /\ holder' = Nobody
    /\ awaiting' = FALSE
    /\ pc' = [pc EXCEPT ![r] =
                IF Step(r) = NumSteps \/ (r \in Emergencies /\ ~result.ok)
                THEN "done" ELSE "lock"]
    /\ UNCHANGED <<sequence, response, start, heard>>

Failure(published) == [ok |-> FALSE, published |-> published,
                       timedOut |-> published, answer |-> NoCommand]

Publish(r) ==
    /\ pc[r] = "publish"
    /\ down' = Append(down, Command(r))
    /\ pc' = [pc EXCEPT ![r] = "wait"]
    /\ UNCHANGED <<timely, holder, awaiting, sequence, response, start, results,
                   heard, cmdQueue, up, executed, faults>>

\* The client library reports that it could not send; a message of QoS 1 may
\* stay in its queue and go out after a reconnect.
PublishFails(r) ==
    /\ pc[r] = "publish"
    /\ faults < MaxFaults
    /\ faults' = faults + 1
    /\ Return(r, Failure(FALSE))
    /\ down' = down \/ (~timely /\ down' = Append(down, Command(r)))
    /\ UNCHANGED <<timely, cmdQueue, up, executed>>

\* Mutant: the last response is returned, whenever it came.
Answered_anySequence(r) ==
    /\ pc[r] = "wait"
    /\ sequence > 0
    /\ Return(r, [ok |-> ~response.err, published |-> TRUE,
                  timedOut |-> FALSE, answer |-> response.of])
    /\ UNCHANGED <<deviceVars, faults>>

\* response_cv_.wait_for: the predicate holds
Answered(r) ==
    /\ pc[r] = "wait"
    /\ sequence > start[r]
    /\ Return(r, [ok |-> ~response.err, published |-> TRUE,
                  timedOut |-> FALSE, answer |-> response.of])
    /\ UNCHANGED <<deviceVars, faults>>

\* ... and the time is over.  timely: only when no answer can come any more.
Underway == Len(down) + Len(cmdQueue) + Len(up)

\* Mutant: the predicate is not looked at again when the time is over.
TimesOut_noPredicate(r) ==
    /\ pc[r] = "wait"
    /\ timely => Underway = 0
    /\ Return(r, Failure(TRUE))
    /\ UNCHANGED <<deviceVars, faults>>

TimesOut(r) ==
    /\ pc[r] = "wait"
    /\ sequence <= start[r]
    /\ timely => Underway = 0
    /\ Return(r, Failure(TRUE))
    /\ UNCHANGED <<deviceVars, faults>>

\* MotorManager::handleMessage, in the thread of the MQTT client
HandleMessage ==
    /\ up # <<>>
    /\ response' = Head(up)
    /\ sequence' = sequence + 1
    /\ awaiting' = FALSE
    /\ heard' = heard + 1
    /\ up' = Tail(up)
    /\ UNCHANGED <<timely, pc, holder, start, results, down, cmdQueue, executed, faults>>
-----------------------------------------------------------------------------
(***************************************************************************)
(* ESP32 and STM32                                                         *)
(***************************************************************************)
\* mqttEventHandler and mqttQueueStmCommand: a queue that stays full for
\* 100 ms loses the command.
EspReceive ==
    /\ down # <<>>
    /\ down' = Tail(down)
    /\ cmdQueue' = IF Len(cmdQueue) < CmdQueueCap
                   THEN Append(cmdQueue, Head(down)) ELSE cmdQueue
    /\ UNCHANGED <<up, executed, faults>>
    /\ UNCHANGED serverVars

\* cmdUartTask writes the line, the STM32 runs it and answers OK or ERR, and
\* cmdUartTask publishes the answer.
RunCommand ==
    /\ cmdQueue # <<>>
    /\ executed' = Append(executed, Head(cmdQueue))
    /\ cmdQueue' = Tail(cmdQueue)
    /\ \E err \in BOOLEAN : up' = Append(up, [of |-> Head(cmdQueue), err |-> err])
    /\ UNCHANGED <<down, faults>>
    /\ UNCHANGED serverVars

Fault == faults < MaxFaults /\ faults' = faults + 1 /\ UNCHANGED serverVars

\* The ESP32 is not subscribed, or the STM32 misses the line.
LoseCommand ==
    /\ Fault
    /\ \/ down # <<>> /\ down' = Tail(down) /\ UNCHANGED cmdQueue
       \/ cmdQueue # <<>> /\ cmdQueue' = Tail(cmdQueue) /\ UNCHANGED down
    /\ UNCHANGED <<up, executed>>

\* mqttPublishText drops an answer while MQTT is disconnected; the server may
\* not be subscribed.
LoseAnswer ==
    /\ Fault
    /\ up # <<>> /\ up' = Tail(up)
    /\ UNCHANGED <<down, cmdQueue, executed>>

\* QoS 1 delivers at least once.
RepeatCommand ==
    /\ ~timely /\ Fault
    /\ down # <<>> /\ down' = <<Head(down)>> \o down
    /\ UNCHANGED <<cmdQueue, up, executed>>

ForeignAnswer ==
    /\ ~timely /\ Fault
    /\ \E err \in BOOLEAN : up' = Append(up, [of |-> NoCommand, err |-> err])
    /\ UNCHANGED <<down, cmdQueue, executed>>
-----------------------------------------------------------------------------
ServerStep(r) == Acquire(r) \/ Begin(r) \/ Publish(r) \/ PublishFails(r)
                 \/ Answered(r) \/ TimesOut(r)
Device == EspReceive \/ RunCommand
Network == LoseCommand \/ LoseAnswer \/ RepeatCommand \/ ForeignAnswer

Next == \/ \E r \in Requests : ServerStep(r)
        \/ HandleMessage \/ Device \/ Network

Spec == Init /\ [][Next]_vars

\* The threads of the server run, wait_for ends by an answer or by the clock,
\* and the boards work off what they have received.
FairSpec == /\ Spec
            /\ \A r \in Requests : WF_vars(ServerStep(r))
            /\ WF_vars(HandleMessage) /\ WF_vars(Device)
-----------------------------------------------------------------------------
(***************************************************************************)
(* Properties                                                              *)
(***************************************************************************)
\* The answer a request returns is the answer to its own command.  MotorManager.h
\* says so of the class; the code takes any message of the topic ...
OwnAnswer ==
    \A r \in Requests : \A i \in 1..Len(results[r]) :
        results[r][i].published /\ ~results[r][i].timedOut => results[r][i].answer = <<r, i>>

\* ... so that it holds only while no answer outlives its request and nobody
\* else speaks on the topic.
OwnAnswerInTime == timely => OwnAnswer

\* In that case a step reported ok was run by the STM32 once, and the steps of a
\* request were run in their order.
OkStepsWereRun ==
    timely =>
        /\ \A i, j \in 1..Len(executed) :
               i < j /\ executed[i][1] = executed[j][1] => executed[i][2] < executed[j][2]
        /\ \A r \in Requests : \A i \in 1..Len(results[r]) : results[r][i].ok =>
               \E j \in 1..Len(executed) : executed[j] = <<r, i>>

\* In that case, as request_mutex_ is held until the answer, at most one command or
\* answer is underway and the queue of the ESP32 never fills.
OneUnderway == timely => Underway <= 1

\* The emergency sequence publishes a step only when every step before it was
\* reported ok; centering tries every motor.
StopsAtFailure ==
    /\ \A r \in Emergencies : \A i \in 1..Len(results[r]) :
           i < Len(results[r]) \/ pc[r] \in {"begin", "publish", "wait"} => results[r][i].ok
    /\ \A r \in Centerings : pc[r] = "done" => Len(results[r]) = NumSteps

\* A command that returns as timed out got no answer after it was published:
\* one that came before the thread began to wait is not missed.
NoAnswerMissed ==
    [][\A r \in Requests : Len(results'[r]) > Len(results[r])
                           /\ results'[r][Len(results'[r])].timedOut => heard = 0]_vars

\* Every request returns, whatever is lost.
EveryRequestReturns == \A r \in Requests : <>(pc[r] = "done")
=============================================================================
