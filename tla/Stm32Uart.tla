----------------------------- MODULE Stm32Uart ------------------------------
(***************************************************************************)
(* The command line of the STM32 board (STM32/SMT_SPI_Slave/Core/Src/      *)
(* main.c): the receive interrupt collects characters into a line, splits  *)
(* a finished line at ';' into a queue of commands, and the main loop takes *)
(* one command at a time, runs it and answers.  The two share the line, the *)
(* queue and the overflow flag.  The interrupt preempts the main loop       *)
(* between any two of its steps and is itself one step.                     *)
(*                                                                         *)
(* A character is the pair of its command and its position in it; the text *)
(* of a command and what running it does (MotorControl) are left out.      *)
(***************************************************************************)
EXTENDS Integers, Sequences, FiniteSets

CONSTANTS RxCap,        \* characters a line holds: UART_RX_BUF_SIZE - 1
          QueueCap,     \* UART_CMD_QUEUE_LEN
          NumCmds,      \* bound: commands sent
          MaxCmdLen     \* bound: characters of a command

ASSUME UartConstants ==
    /\ RxCap \in Nat \ {0} /\ QueueCap \in Nat \ {0}
    /\ NumCmds \in Nat \ {0} /\ MaxCmdLen \in Nat \ {0}

VARIABLES waits,      \* does the sender begin a line only when all is quiet?
          cmd, pos,   \* sender: the next character is the pos-th of cmd
          lineOpen,   \* sender: has it begun a line and not yet ended it?
          length,     \* history: length of each command sent, 0 before its end
          closed,     \* history: commands in the lines that have ended
          rx,         \* uart_cmd_buf up to uart_cmd_len
          queue,      \* uart_cmd_queue, oldest first
          overflow,   \* uart_cmd_overflow
          pc,         \* where the main loop is
          executed,   \* history: the commands run, in order
          lost,       \* history: commands or lines dropped for want of room
          reported    \* history: how many of those an "ERR overflow" covers

sender == <<waits, cmd, pos, lineOpen, length, closed>>
vars == <<waits, cmd, pos, lineOpen, length, closed, rx, queue, overflow, pc,
          executed, lost, reported>>

Separator == [cmd |-> 0, pos |-> 0]         \* ';'
Chars == [cmd : 1..NumCmds, pos : 1..MaxCmdLen] \union {Separator}
Steps == {"poll", "answer", "overflow", "reset"}

TypeOK ==
    /\ waits \in BOOLEAN
    /\ cmd \in 1..(NumCmds + 1) /\ pos \in 1..(MaxCmdLen + 1)
    /\ lineOpen \in BOOLEAN
    /\ length \in [1..NumCmds -> 0..MaxCmdLen]
    /\ closed \in 0..NumCmds
    /\ rx \in Seq(Chars) /\ Len(rx) <= RxCap
    /\ \A i \in 1..Len(queue) : queue[i] \in Seq(Chars) /\ queue[i] # <<>>
    /\ Len(queue) <= QueueCap
    /\ overflow \in BOOLEAN
    /\ pc \in Steps
    /\ lost \in Nat /\ reported \in 0..lost

Init ==
    /\ waits \in BOOLEAN
    /\ cmd = 1 /\ pos = 1 /\ lineOpen = FALSE
    /\ length = [c \in 1..NumCmds |-> 0] /\ closed = 0
    /\ rx = <<>> /\ queue = <<>> /\ overflow = FALSE
    /\ pc = "poll" /\ executed = <<>> /\ lost = 0 /\ reported = 0
-----------------------------------------------------------------------------
(***************************************************************************)
(* HAL_UART_RxCpltCallback                                                 *)
(***************************************************************************)
\* Mutant: the terminating zero gets no room.
StoreChar_offByOne(ch) ==
    IF Len(rx) <= RxCap
    THEN rx' = Append(rx, ch) /\ UNCHANGED <<overflow, lost>>
    ELSE rx' = <<>> /\ overflow' = TRUE /\ lost' = lost + 1

\* Mutant: a line that is full loses only the character that does not fit.
StoreChar_keepsLine(ch) ==
    IF Len(rx) < RxCap
    THEN rx' = Append(rx, ch) /\ UNCHANGED <<overflow, lost>>
    ELSE rx' = rx /\ overflow' = TRUE /\ lost' = lost + 1

\* A character other than the end of a line: stored, or, when the line is
\* full, dropped with all of the line so far.
StoreChar(ch) ==
    IF Len(rx) < RxCap
    THEN rx' = Append(rx, ch) /\ UNCHANGED <<overflow, lost>>
    ELSE rx' = <<>> /\ overflow' = TRUE /\ lost' = lost + 1

\* Mutant: the text after the first ';' is ignored.
Segments_firstOnly(line) ==
    LET text == SelectSeq(line, LAMBDA ch : ch # Separator /\ ch.cmd = line[1].cmd)
    IN  IF text = <<>> THEN <<>> ELSE <<text>>

\* Where a command begins in a line
Starts(line) == {i \in 1..Len(line) :
                   line[i] # Separator /\ (i = 1 \/ line[i - 1] = Separator)}

\* The text from there to the next ';' or the end of the line
CommandAt(line, i) ==
    LET ends == {j \in i..Len(line) : j = Len(line) \/ line[j + 1] = Separator}
    IN  SubSeq(line, i, CHOOSE j \in ends : \A k \in ends : j <= k)

\* uartQueueSplitCommands: the commands of a line, without the empty ones.
\* None is longer than the buffer it is cut from, so no segment overflows.
Segments(line) ==
    LET starts == Starts(line)
        rank(i) == Cardinality({j \in starts : j < i})
    IN  [k \in 1..Cardinality(starts) |->
           CommandAt(line, CHOOSE i \in starts : rank(i) = k - 1)]

Smaller(a, b) == IF a < b THEN a ELSE b

\* '\r' or '\n': the commands that find no room in the queue are dropped.
EndLine ==
    LET commands == Segments(rx)
        taken == Smaller(Len(commands), QueueCap - Len(queue))
    IN  /\ queue' = queue \o SubSeq(commands, 1, taken)
        /\ overflow' = (overflow \/ taken < Len(commands))
        /\ lost' = lost + Len(commands) - taken
        /\ rx' = <<>>
-----------------------------------------------------------------------------
(***************************************************************************)
(* The sender, one character at a time, each followed by the interrupt     *)
(***************************************************************************)
AllQuiet == pc = "poll" /\ queue = <<>> /\ ~overflow

SendChar ==
    /\ cmd <= NumCmds /\ pos <= MaxCmdLen
    /\ ~lineOpen /\ waits => AllQuiet
    /\ StoreChar([cmd |-> cmd, pos |-> pos])
    /\ pos' = pos + 1
    /\ lineOpen' = TRUE
    /\ UNCHANGED <<waits, cmd, length, closed, queue, pc, executed, reported>>

EndCommand == /\ pos > 1
              /\ length' = [length EXCEPT ![cmd] = pos - 1]
              /\ cmd' = cmd + 1
              /\ pos' = 1

SendSeparator ==
    /\ EndCommand
    /\ cmd < NumCmds
    /\ StoreChar(Separator)
    /\ UNCHANGED <<waits, lineOpen, closed, queue, pc, executed, reported>>

SendEndOfLine ==
    /\ EndCommand
    /\ EndLine
    /\ lineOpen' = FALSE
    /\ closed' = cmd
    /\ UNCHANGED <<waits, pc, executed, reported>>
-----------------------------------------------------------------------------
(***************************************************************************)
(* The main loop: processUartCommand, a step for each access to what it    *)
(* shares with the interrupt                                               *)
(***************************************************************************)
\* uartPopCommand, with interrupts off, and the command itself
Pop ==
    /\ pc = "poll" /\ queue # <<>>
    /\ executed' = Append(executed, Head(queue))
    /\ queue' = Tail(queue)
    /\ pc' = "answer"
    /\ UNCHANGED <<sender, rx, overflow, lost, reported>>

\* The answer is transmitted character by character; interrupts come between.
Answer ==
    /\ pc = "answer"
    /\ pc' = "overflow"
    /\ UNCHANGED <<sender, rx, queue, overflow, executed, lost, reported>>

\* "ERR overflow": after a command, or alone when no command waits.
ReportOverflow ==
    /\ overflow
    /\ pc = "overflow" \/ (pc = "poll" /\ queue = <<>>)
    /\ overflow' = FALSE
    /\ reported' = lost
    /\ pc' = IF pc = "poll" THEN "poll" ELSE "reset"
    /\ UNCHANGED <<sender, rx, queue, executed, lost>>

NoOverflow ==
    /\ pc = "overflow" /\ ~overflow
    /\ pc' = "reset"
    /\ UNCHANGED <<sender, rx, queue, overflow, executed, lost, reported>>

\* Mutant: the reset clears the overflow flag too.
ResetLine_clearsFlag ==
    /\ pc = "reset"
    /\ rx' = <<>>
    /\ overflow' = FALSE
    /\ pc' = "poll"
    /\ UNCHANGED <<sender, queue, executed, lost, reported>>

\* uart_cmd_len = 0 at the end of processUartCommand, whatever the interrupt
\* has collected of the next line.
ResetLine ==
    /\ pc = "reset"
    /\ rx' = <<>>
    /\ pc' = "poll"
    /\ UNCHANGED <<sender, queue, overflow, executed, lost, reported>>

MainLoop == Pop \/ Answer \/ ReportOverflow \/ NoOverflow \/ ResetLine

Next == SendChar \/ SendSeparator \/ SendEndOfLine \/ MainLoop

Spec == Init /\ [][Next]_vars

\* The main loop runs for ever; the sender need not send.
FairSpec == Spec /\ WF_vars(MainLoop)
-----------------------------------------------------------------------------
(***************************************************************************)
(* Properties                                                              *)
(***************************************************************************)
\* The end of the command c from its character p on
Ending(c, p) == [i \in 1..(length[c] - p + 1) |-> [cmd |-> c, pos |-> p + i - 1]]
IsEnding(text) == \E c \in 1..NumCmds : \E p \in 1..length[c] : text = Ending(c, p)

\* However the interrupt and the main loop interleave, and whatever overflows,
\* a text that is run is the end of one command that was sent: never the
\* beginning of one followed by the end of another, never one with a hole.
NeverSpliced ==
    /\ \A i \in 1..Len(executed) : IsEnding(executed[i])
    /\ \A i \in 1..Len(queue) : IsEnding(queue[i])

\* A sender that begins a line only when the board is quiet, and whose lines
\* fit, has every command run, whole and in order: the reset at the end of
\* processUartCommand, which drops what the interrupt has collected, then finds
\* nothing to drop.
NothingLostWhenPaced ==
    waits /\ lost = 0 =>
        executed \o queue = [c \in 1..closed |-> Ending(c, 1)]

\* Every command or line dropped for want of room is followed by an "ERR
\* overflow" that was not sent before the drop.
OverflowReported ==
    \A k \in 1..NumCmds : (lost >= k) ~> (reported >= k)

=============================================================================
