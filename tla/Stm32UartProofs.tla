-------------------------- MODULE Stm32UartProofs ---------------------------
(***************************************************************************)
(* Proofs about the command line of the STM32 board: whatever the receive   *)
(* interrupt and the main loop do to the line they share, what is run is    *)
(* the end of one command, and a sender that waits its turn loses nothing.  *)
(*                                                                         *)
(* The argument: a line that has lost its beginning to a reset is still a   *)
(* run of characters as they were sent (LineShape), so what is cut out of   *)
(* it between two ';' lies within one command (LineCommands); and while the *)
(* sender is paced the main loop finds nothing to do until its line ends,   *)
(* so every command since the last line is in it, in its place (PacedLine). *)
(***************************************************************************)
EXTENDS Stm32Uart, FiniteSetTheorems, SequenceTheorems, TLAPS

\* A set of numbers that is not empty has a least one.
LEMMA Least ==
  ASSUME NEW S \in SUBSET Nat, S # {}
  PROVE  \E x \in S : \A y \in S : x <= y
<1> DEFINE R == OpToRel(<, Nat)
<1>1. IsWellFoundedOn(R, Nat)
  BY NatLessThanWellFounded
<1> HIDE DEF R
<1>2. PICK x \in S : \A y \in S : ~ (<<y, x>> \in R)
  BY <1>1, WFMin
<1>3. ASSUME NEW y \in S PROVE x <= y
  <2>1. ~ (<<y, x>> \in R)
    BY <1>2
  <2>2. y < x => <<y, x>> \in R
    BY DEF R, OpToRel
  <2> QED  BY <2>1, <2>2
<1> QED  BY <1>2, <1>3

\* The rank of the elements of a finite set of numbers: every rank below the
\* set's size is taken.
LEMMA Ranked ==
  ASSUME NEW n \in Nat, NEW S \in SUBSET (1..n),
         NEW k \in 1..Cardinality(S)
  PROVE  /\ Cardinality(S) \in Nat
         /\ \E i \in S : Cardinality({j \in S : j < i}) = k - 1
<1> DEFINE below(i) == {j \in S : j < i}
           m == Cardinality(S)
           T == 0..(m - 1)
           r == [i \in S |-> Cardinality(below(i))]
<1>1. IsFiniteSet(S) /\ m \in Nat
  <2>1. IsFiniteSet(1..n)
    BY FS_Interval
  <2>2. IsFiniteSet(S)
    BY <2>1, FS_Subset
  <2> QED  BY <2>2, FS_CardinalityType
<1>2. ASSUME NEW i \in S
      PROVE  IsFiniteSet(below(i)) /\ Cardinality(below(i)) \in T
  <2>1. IsFiniteSet(S \ {i}) /\ Cardinality(S \ {i}) = m - 1
    BY <1>1, FS_RemoveElement
  <2>2. below(i) \in SUBSET (S \ {i})
    OBVIOUS
  <2>3. IsFiniteSet(below(i)) /\ Cardinality(below(i)) <= Cardinality(S \ {i})
    BY <2>1, <2>2, FS_Subset
  <2>4. Cardinality(below(i)) \in Nat
    BY <2>3, FS_CardinalityType
  <2> HIDE DEF below, m
  <2> QED  BY <2>1, <2>3, <2>4, <1>1
<1>3. ASSUME NEW i \in S, NEW j \in S, i < j
      PROVE  Cardinality(below(i)) < Cardinality(below(j))
  <2>1. S \in SUBSET Int /\ i \in S /\ j \in S /\ i < j
    BY <1>3
  <2>2. ASSUME NEW x \in below(i) PROVE x \in below(j)
    BY ONLY <2>1, x \in below(i)
  <2>3. i \notin below(i) /\ i \in below(j)
    BY ONLY <2>1
  <2> HIDE DEF below, m
  <2>4. (below(i) \cup {i}) \in SUBSET below(j)
    BY <2>2, <2>3
  <2>5. Cardinality(below(i) \cup {i}) = Cardinality(below(i)) + 1
    BY <1>2, <2>3, FS_AddElement
  <2>6. Cardinality(below(i) \cup {i}) <= Cardinality(below(j))
    BY <1>2, <2>4, FS_Subset
  <2> QED  BY <2>5, <2>6, <1>1, <1>2
<1>4. r \in Injection(S, T)
  <2>1. r \in [S -> T]
    BY <1>2
  <2>2. ASSUME NEW i \in S, NEW j \in S, r[i] = r[j] PROVE i = j
    <3>1. i \in Int /\ j \in Int
      OBVIOUS
    <3>2. r[i] = Cardinality(below(i)) /\ r[j] = Cardinality(below(j))
      OBVIOUS
    <3>3. r[i] \in T /\ r[j] \in T
      BY <2>1
    <3>4. Cardinality(below(i)) = Cardinality(below(j))
      BY <2>2, <3>2
    <3>5. Cardinality(below(i)) \in Nat
      BY <3>2, <3>3, <1>1
    <3>6. ~ (i < j) /\ ~ (j < i)
      <4> HIDE DEF r, below
      <4> QED  BY <3>4, <3>5, <1>3
    <3> HIDE DEF r, below
    <3> QED  BY <3>1, <3>6
  <2> HIDE DEF r, T
  <2> QED  BY <2>1, <2>2 DEF Injection, IsInjective
<1>5. IsFiniteSet(T) /\ Cardinality(T) = m
  <2> HIDE DEF m
  <2> QED  BY <1>1, FS_Interval
<1>6. r \in Surjection(S, T)
  <2> HIDE DEF r, T, m
  <2>1. Cardinality(S) = Cardinality(T)
    BY <1>5 DEF m
  <2> QED  BY <1>4, <1>5, <2>1, FS_Injection
<1>7. k - 1 \in T
  BY <1>1
<1>8. \E i \in S : r[i] = k - 1
  <2> HIDE DEF r, T
  <2> QED  BY <1>6, <1>7 DEF Surjection
<1> QED  BY <1>1, <1>8

-----------------------------------------------------------------------------
\* What CommandAt cuts: the text from a start to the end of the line or to the
\* character before the next ';'.
LEMMA CommandEnds ==
  ASSUME NEW line \in Seq(Chars), NEW i \in Starts(line)
  PROVE  \E e \in i..Len(line) :
            /\ CommandAt(line, i) = SubSeq(line, i, e)
            /\ \A k \in i..e : line[k] # Separator
            /\ e = Len(line) \/ line[e + 1] = Separator
<1> DEFINE ends == {j \in i..Len(line) : j = Len(line) \/ line[j + 1] = Separator}
           e == CHOOSE j \in ends : \A k \in ends : j <= k
<1>1. Len(line) \in Nat /\ i \in 1..Len(line) /\ line[i] # Separator
  BY DEF Starts
<1>2. Len(line) \in ends /\ ends \in SUBSET Nat
  BY <1>1
<1>3. e \in ends /\ \A k \in ends : e <= k
  <2>1. ends # {}
    BY <1>2
  <2> HIDE DEF ends
  <2>2. \E j \in ends : \A k \in ends : j <= k
    BY <1>2, <2>1, Least
  <2> QED  BY <2>2 DEF e
<1>4. CommandAt(line, i) = SubSeq(line, i, e)
  BY DEF CommandAt
<1> HIDE DEF e
<1>5. e \in i..Len(line) /\ (e = Len(line) \/ line[e + 1] = Separator)
  BY <1>3
<1>6. ASSUME NEW k \in i..e PROVE line[k] # Separator
  <2>1. CASE k = i
    BY <2>1, <1>1
  <2>2. CASE k # i
    <3>1. k - 1 \in i..Len(line) /\ k - 1 < e /\ (k - 1) + 1 = k
      BY <1>1, <1>5, <2>2
    <3>2. k - 1 \notin ends
      <4> HIDE DEF ends
      <4>1. k - 1 \in ends => e <= k - 1
        BY <1>3
      <4> QED  BY <4>1, <3>1, <1>5, <1>1
    <3> QED  BY <3>1, <3>2
  <2> QED  BY <2>1, <2>2
<1> QED  BY <1>4, <1>5, <1>6

\* The commands of a line, one for each start, in the order of the starts; none
\* is empty.
LEMMA SegmentsOfLine ==
  ASSUME NEW line \in Seq(Chars)
  PROVE  /\ IsFiniteSet(Starts(line)) /\ Cardinality(Starts(line)) \in Nat
         /\ Segments(line) \in Seq(Seq(Chars) \ {<<>>})
         /\ Len(Segments(line)) = Cardinality(Starts(line))
         /\ \A k \in 1..Len(Segments(line)) : \E i \in Starts(line) :
               /\ Cardinality({j \in Starts(line) : j < i}) = k - 1
               /\ Segments(line)[k] = CommandAt(line, i)
<1> DEFINE S == Starts(line)
           m == Cardinality(S)
           rank(i) == Cardinality({j \in S : j < i})
           at(k) == CHOOSE i \in S : rank(i) = k - 1
<1>1. Len(line) \in Nat /\ S \in SUBSET (1..Len(line))
  BY DEF Starts
<1>2. IsFiniteSet(S) /\ m \in Nat
  <2> HIDE DEF S
  <2>1. IsFiniteSet(1..Len(line))
    BY <1>1, FS_Interval
  <2>2. IsFiniteSet(S)
    BY <1>1, <2>1, FS_Subset
  <2> QED  BY <2>2, FS_CardinalityType
<1>3. ASSUME NEW k \in 1..m PROVE at(k) \in S /\ rank(at(k)) = k - 1
  <2> HIDE DEF S
  <2>1. \E i \in S : rank(i) = k - 1
    BY <1>1, Ranked
  <2> HIDE DEF rank
  <2> QED  BY <2>1
<1>4. Segments(line) = [k \in 1..m |-> CommandAt(line, at(k))]
  BY DEF Segments
<1>5. ASSUME NEW i \in S PROVE CommandAt(line, i) \in Seq(Chars) \ {<<>>}
  <2>1. PICK e \in i..Len(line) : CommandAt(line, i) = SubSeq(line, i, e)
    BY CommandEnds
  <2>2. i \in 1..Len(line) /\ e \in 1..Len(line) /\ i <= e
    BY <1>1
  <2>3. SubSeq(line, i, e) \in Seq(Chars) /\ Len(SubSeq(line, i, e)) = e - i + 1
    BY <2>2, <1>1, SubSeqProperties
  <2>4. Len(SubSeq(line, i, e)) # Len(<<>>)
    <3>1. Len(<<>>) = 0
      OBVIOUS
    <3> QED  BY <2>2, <2>3, <3>1, <1>1
  <2> QED  BY <2>1, <2>3, <2>4
<1> HIDE DEF S, rank, at, m
<1>6. Segments(line) \in Seq(Seq(Chars) \ {<<>>}) /\ Len(Segments(line)) = m
  <2>1. \A k \in 1..m : CommandAt(line, at(k)) \in Seq(Chars) \ {<<>>}
    BY <1>3, <1>5
  <2>2. [k \in 1..m |-> CommandAt(line, at(k))] \in [1..m -> Seq(Chars) \ {<<>>}]
    BY <2>1
  <2> QED  BY <1>2, <1>4, <2>2
<1>7. ASSUME NEW k \in 1..Len(Segments(line))
      PROVE  \E i \in S : rank(i) = k - 1 /\ Segments(line)[k] = CommandAt(line, i)
  <2>1. k \in 1..m
    BY <1>6
  <2>2. Segments(line)[k] = CommandAt(line, at(k))
    BY <1>4, <2>1
  <2> QED  BY <2>1, <2>2, <1>3
<1> QED  BY <1>2, <1>6, <1>7 DEF S, rank, m
-----------------------------------------------------------------------------
(***************************************************************************)
(* The inductive invariant                                                 *)
(***************************************************************************)
\* TypeOK, and what it leaves open: what is queued or was run is text.
Typed ==
    /\ TypeOK
    /\ queue \in Seq(Seq(Chars) \ {<<>>})
    /\ executed \in Seq(Seq(Chars))
    /\ lost = 0 => ~overflow

\* What the sender has sent: commands up to cmd are complete, and outside a
\* line nothing waits in the buffer.
Sent ==
    /\ pos > 1 => cmd <= NumCmds
    /\ \A c \in 1..NumCmds : IF c < cmd THEN length[c] >= 1 ELSE length[c] = 0
    /\ closed < cmd
    /\ ~lineOpen => rx = <<>> /\ pos = 1 /\ closed = cmd - 1

\* There is no ';' from the i-th to the j-th character of the line.
Unbroken(i, j) == \A k \in i..j : rx[k] # Separator

\* What an interrupted and reset line still is: between two ';' the characters
\* of one command, one after the other; before a ';' the last one of a command
\* that is complete; at the end the last one sent.
LineShape ==
    /\ \A i \in 1..Len(rx) : \A j \in i..Len(rx) :
          Unbroken(i, j) => rx[j] = [cmd |-> rx[i].cmd, pos |-> rx[i].pos + (j - i)]
    /\ \A i \in 1..(Len(rx) - 1) :
          rx[i] # Separator /\ rx[i + 1] = Separator =>
             rx[i].cmd < cmd /\ rx[i].pos = length[rx[i].cmd]
    /\ rx # <<>> /\ rx[Len(rx)] # Separator =>
          rx[Len(rx)] = [cmd |-> cmd, pos |-> pos - 1]

\* What a line in progress is when the sender waits for the board to be quiet:
\* all of the commands since the last line, and a main loop that leaves it alone.
PacedLine ==
    /\ pc = "poll" /\ queue = <<>>
    /\ rx # <<>>
    /\ \A i \in Starts(rx) :
          /\ rx[i].pos = 1
          /\ Cardinality({j \in Starts(rx) : j < i}) = rx[i].cmd - closed - 1
    /\ Cardinality(Starts(rx)) = cmd - closed - (IF pos = 1 THEN 1 ELSE 0)
    /\ pos = 1 <=> rx[Len(rx)] = Separator

Paced == waits /\ lost = 0 /\ lineOpen => PacedLine

IInv == Typed /\ Sent /\ LineShape /\ NeverSpliced /\ NothingLostWhenPaced /\ Paced

\* What is sent is a character.
LEMMA SentChars ==
  /\ Separator \in Chars
  /\ \A c \in 1..NumCmds, p \in 1..MaxCmdLen : [cmd |-> c, pos |-> p] \in Chars
  /\ \A ch \in Chars : ch # Separator =>
        ch.cmd \in 1..NumCmds /\ ch.pos \in 1..MaxCmdLen /\ ch = [cmd |-> ch.cmd, pos |-> ch.pos]
  /\ \A c \in 1..NumCmds, p \in 1..MaxCmdLen : [cmd |-> c, pos |-> p] # Separator
BY UartConstants DEF Chars, Separator

\* The interrupt at a character of a line keeps what is shared well typed.
LEMMA StoreTyped ==
  ASSUME Typed, NEW ch \in Chars, StoreChar(ch)
  PROVE  /\ rx' \in Seq(Chars) /\ Len(rx') <= RxCap
         /\ overflow' \in BOOLEAN
         /\ lost' \in Nat /\ lost' >= lost
         /\ lost' = 0 => ~overflow' /\ lost = 0
<1>1. rx \in Seq(Chars) /\ Len(rx) \in Nat /\ Len(rx) <= RxCap
      /\ overflow \in BOOLEAN /\ lost \in Nat /\ (lost = 0 => ~overflow)
      /\ RxCap \in Nat
  BY UartConstants DEF Typed, TypeOK
<1>2. CASE Len(rx) < RxCap
  <2>1. rx' = Append(rx, ch) /\ overflow' = overflow /\ lost' = lost
    BY <1>2 DEF StoreChar
  <2>2. rx' \in Seq(Chars) /\ Len(rx') = Len(rx) + 1
    BY <1>1, <2>1
  <2> QED  BY <1>1, <1>2, <2>1, <2>2
<1>3. CASE ~ (Len(rx) < RxCap)
  <2>1. rx' = <<>> /\ overflow' = TRUE /\ lost' = lost + 1
    BY <1>3 DEF StoreChar
  <2>2. rx' \in Seq(Chars) /\ Len(rx') = 0
    BY <2>1, EmptySeq
  <2> QED  BY <1>1, <2>1, <2>2
<1> QED  BY <1>2, <1>3

\* How many commands of a line the queue takes.
LEMMA Taken ==
  ASSUME Typed
  PROVE  LET commands == Segments(rx)
             taken == Smaller(Len(commands), QueueCap - Len(queue))
         IN  /\ commands \in Seq(Seq(Chars) \ {<<>>}) /\ Len(commands) \in Nat
             /\ taken \in 0..Len(commands)
             /\ Len(queue) \in Nat /\ Len(queue) + taken <= QueueCap
             /\ SubSeq(commands, 1, taken) \in Seq(Seq(Chars) \ {<<>>})
             /\ Len(SubSeq(commands, 1, taken)) = taken
             /\ \A k \in 1..taken : SubSeq(commands, 1, taken)[k] = commands[k]
<1> DEFINE commands == Segments(rx)
           taken == Smaller(Len(commands), QueueCap - Len(queue))
           text == Seq(Chars) \ {<<>>}
<1>1. commands \in Seq(text)
  BY SegmentsOfLine DEF Typed, TypeOK
<1>2. Len(queue) \in Nat /\ Len(queue) <= QueueCap /\ QueueCap \in Nat
  BY UartConstants DEF Typed, TypeOK
<1> HIDE DEF commands, text
<1>3. Len(commands) \in Nat
  BY <1>1
<1>4. taken \in 0..Len(commands) /\ Len(queue) + taken <= QueueCap
  BY <1>2, <1>3 DEF Smaller
<1> HIDE DEF taken
<1>5. \A k \in 1..taken : commands[k] \in text
  BY <1>1, <1>3, <1>4
<1>6. /\ SubSeq(commands, 1, taken) \in Seq(text)
      /\ Len(SubSeq(commands, 1, taken)) = taken
      /\ \A k \in 1..taken : SubSeq(commands, 1, taken)[k] = commands[k]
  <2>1. taken \in Int /\ 1 \in Int
    BY <1>3, <1>4
  <2>2. /\ SubSeq(commands, 1, taken) \in Seq(text)
        /\ Len(SubSeq(commands, 1, taken)) = IF 1 <= taken THEN taken - 1 + 1 ELSE 0
        /\ \A k \in 1..(taken - 1 + 1) : SubSeq(commands, 1, taken)[k] = commands[1 + k - 1]
    BY <2>1, <1>5, SubSeqProperties
  <2>3. ASSUME NEW k \in 1..taken PROVE SubSeq(commands, 1, taken)[k] = commands[k]
    <3>1. k \in 1..(taken - 1 + 1) /\ 1 + k - 1 = k
      BY <2>1
    <3> QED  BY <2>2, <3>1
  <2> QED  BY <2>2, <2>3, <1>3, <1>4
<1> QED  BY <1>1, <1>2, <1>3, <1>4, <1>6 DEF commands, taken, text

\* A queue of texts is the queue TypeOK asks for.
LEMMA QueueOfTexts ==
  ASSUME NEW q \in Seq(Seq(Chars) \ {<<>>})
  PROVE  \A i \in 1..Len(q) : q[i] \in Seq(Chars) /\ q[i] # <<>>
OBVIOUS

\* The end of a command moves the sender to the next one.
LEMMA EndCommandTyped ==
  ASSUME Typed, Sent, EndCommand
  PROVE  /\ cmd \in 1..NumCmds /\ pos \in 2..(MaxCmdLen + 1)
         /\ cmd' \in 1..(NumCmds + 1) /\ pos' \in 1..(MaxCmdLen + 1)
         /\ length' \in [1..NumCmds -> 0..MaxCmdLen]
         /\ \A c \in 1..NumCmds : length'[c] = IF c = cmd THEN pos - 1 ELSE length[c]
<1>1. /\ cmd \in 1..(NumCmds + 1) /\ pos \in 1..(MaxCmdLen + 1) /\ pos > 1
      /\ NumCmds \in Nat /\ MaxCmdLen \in Nat
      /\ length \in [1..NumCmds -> 0..MaxCmdLen]
  BY UartConstants DEF Typed, TypeOK, EndCommand
<1>2. cmd <= NumCmds
  BY <1>1 DEF Sent
<1>3. pos - 1 \in 0..MaxCmdLen /\ cmd \in 1..NumCmds
  BY <1>1, <1>2
<1>4. length' = [length EXCEPT ![cmd] = pos - 1] /\ cmd' = cmd + 1 /\ pos' = 1
  BY DEF EndCommand
<1> QED  BY <1>1, <1>3, <1>4

\* Typed and Sent are kept by every step.
LEMMA TypedSent ==
  ASSUME Typed, Sent, [Next]_vars
  PROVE  Typed' /\ Sent'
<1>0. /\ waits \in BOOLEAN
      /\ cmd \in 1..(NumCmds + 1) /\ pos \in 1..(MaxCmdLen + 1)
      /\ lineOpen \in BOOLEAN
      /\ length \in [1..NumCmds -> 0..MaxCmdLen]
      /\ closed \in 0..NumCmds
      /\ rx \in Seq(Chars) /\ Len(rx) <= RxCap
      /\ queue \in Seq(Seq(Chars) \ {<<>>}) /\ Len(queue) <= QueueCap
      /\ overflow \in BOOLEAN /\ pc \in Steps
      /\ lost \in Nat /\ reported \in 0..lost
      /\ executed \in Seq(Seq(Chars))
      /\ (lost = 0 => ~overflow)
      /\ NumCmds \in Nat /\ MaxCmdLen \in Nat /\ RxCap \in Nat
  BY UartConstants DEF Typed, TypeOK
<1>1. CASE SendChar
  <2>1. cmd \in 1..NumCmds /\ pos \in 1..MaxCmdLen
    BY <1>0, <1>1 DEF SendChar
  <2>2. [cmd |-> cmd, pos |-> pos] \in Chars
    BY <2>1, SentChars
  <2>3. /\ rx' \in Seq(Chars) /\ Len(rx') <= RxCap
        /\ overflow' \in BOOLEAN /\ lost' \in Nat /\ lost' >= lost
        /\ lost' = 0 => ~overflow' /\ lost = 0
    <3>1. PICK ch \in Chars : ch = [cmd |-> cmd, pos |-> pos]
      BY <2>2
    <3>2. StoreChar(ch)
      BY <1>1, <3>1 DEF SendChar
    <3> QED  BY <3>2, StoreTyped
  <2>4. /\ pos' = pos + 1 /\ lineOpen' = TRUE
        /\ UNCHANGED <<waits, cmd, length, closed, queue, pc, executed, reported>>
    BY <1>1 DEF SendChar
  <2>5. TypeOK'
    <3>1. pos' \in 1..(MaxCmdLen + 1) /\ reported' \in 0..lost'
      BY <1>0, <2>1, <2>3, <2>4
    <3>2. \A i \in 1..Len(queue) : queue[i] \in Seq(Chars) /\ queue[i] # <<>>
      BY <1>0, QueueOfTexts
    <3> QED  BY <1>0, <2>3, <2>4, <3>1, <3>2 DEF TypeOK
  <2>6. Typed'
    BY <1>0, <2>3, <2>4, <2>5 DEF Typed
  <2>7. Sent'
    BY <1>0, <2>1, <2>4 DEF Sent
  <2> QED  BY <2>6, <2>7
<1>2. CASE SendSeparator
  <2>1. /\ cmd \in 1..NumCmds /\ pos \in 2..(MaxCmdLen + 1)
        /\ cmd' \in 1..(NumCmds + 1) /\ pos' \in 1..(MaxCmdLen + 1)
        /\ length' \in [1..NumCmds -> 0..MaxCmdLen]
        /\ \A c \in 1..NumCmds : length'[c] = IF c = cmd THEN pos - 1 ELSE length[c]
    BY <1>2, EndCommandTyped DEF SendSeparator
  <2>2. /\ rx' \in Seq(Chars) /\ Len(rx') <= RxCap
        /\ overflow' \in BOOLEAN /\ lost' \in Nat /\ lost' >= lost
        /\ lost' = 0 => ~overflow' /\ lost = 0
    BY <1>2, StoreTyped, SentChars DEF SendSeparator
  <2>3. /\ cmd' = cmd + 1 /\ pos' = 1
        /\ UNCHANGED <<waits, lineOpen, closed, queue, pc, executed, reported>>
    BY <1>2 DEF SendSeparator, EndCommand
  <2>4. TypeOK'
    <3>1. reported' \in 0..lost'
      BY <1>0, <2>2, <2>3
    <3>2. \A i \in 1..Len(queue) : queue[i] \in Seq(Chars) /\ queue[i] # <<>>
      BY <1>0, QueueOfTexts
    <3> QED  BY <1>0, <2>1, <2>2, <2>3, <3>1, <3>2 DEF TypeOK
  <2>5. Typed'
    BY <1>0, <2>2, <2>3, <2>4 DEF Typed
  <2>6. lineOpen
    BY <1>0, <2>1 DEF Sent
  <2>7. Sent'
    BY <1>0, <2>1, <2>3, <2>6 DEF Sent
  <2> QED  BY <2>5, <2>7
<1>3. CASE SendEndOfLine
  <2>1. /\ cmd \in 1..NumCmds /\ pos \in 2..(MaxCmdLen + 1)
        /\ cmd' \in 1..(NumCmds + 1) /\ pos' \in 1..(MaxCmdLen + 1)
        /\ length' \in [1..NumCmds -> 0..MaxCmdLen]
        /\ \A c \in 1..NumCmds : length'[c] = IF c = cmd THEN pos - 1 ELSE length[c]
    BY <1>3, EndCommandTyped DEF SendEndOfLine
  <2> DEFINE commands == Segments(rx)
             taken == Smaller(Len(commands), QueueCap - Len(queue))
             new == SubSeq(commands, 1, taken)
  <2>2. /\ Len(commands) \in Nat /\ taken \in 0..Len(commands)
        /\ Len(queue) \in Nat /\ Len(queue) + taken <= QueueCap
        /\ new \in Seq(Seq(Chars) \ {<<>>}) /\ Len(new) = taken
    BY Taken
  <2>3. /\ queue' = queue \o new
        /\ overflow' = (overflow \/ taken < Len(commands))
        /\ lost' = lost + Len(commands) - taken
        /\ rx' = <<>>
    BY <1>3 DEF SendEndOfLine, EndLine
  <2>4. /\ cmd' = cmd + 1 /\ pos' = 1 /\ lineOpen' = FALSE /\ closed' = cmd
        /\ UNCHANGED <<waits, pc, executed, reported>>
    BY <1>3 DEF SendEndOfLine, EndCommand
  <2> HIDE DEF new, taken, commands
  <2>5. queue' \in Seq(Seq(Chars) \ {<<>>}) /\ Len(queue') <= QueueCap
    <3>1. queue' \in Seq(Seq(Chars) \ {<<>>}) /\ Len(queue') = Len(queue) + Len(new)
      BY <1>0, <2>2, <2>3, ConcatProperties
    <3> QED  BY <2>2, <3>1
  <2>6. rx' \in Seq(Chars) /\ Len(rx') <= RxCap
    <3>1. rx' \in Seq(Chars) /\ Len(rx') = 0
      BY <2>3, EmptySeq
    <3> QED  BY <3>1, <1>0
  <2>7. lost' \in Nat /\ reported' \in 0..lost' /\ overflow' \in BOOLEAN
    BY <1>0, <2>2, <2>3, <2>4
  <2>8. lost' = 0 => ~overflow'
    <3>1. lost' = 0 => lost = 0 /\ ~ (taken < Len(commands))
      BY <1>0, <2>2, <2>3
    <3> QED  BY <3>1, <1>0, <2>3
  <2>9. TypeOK'
    <3>1. \A i \in 1..Len(queue') : queue'[i] \in Seq(Chars) /\ queue'[i] # <<>>
      BY <2>5, QueueOfTexts
    <3>2. closed' \in 0..NumCmds
      BY <1>0, <2>1, <2>4
    <3>3. lineOpen' \in BOOLEAN
      BY <2>4
    <3> QED  BY <1>0, <2>1, <2>4, <2>5, <2>6, <2>7, <3>1, <3>2, <3>3 DEF TypeOK
  <2>10. Typed'
    BY <1>0, <2>4, <2>5, <2>8, <2>9 DEF Typed
  <2>11. Sent'
    BY <1>0, <2>1, <2>3, <2>4 DEF Sent
  <2> QED  BY <2>10, <2>11
<1>4. CASE MainLoop
  <2>1. UNCHANGED sender /\ (rx' = rx \/ rx' = <<>>) /\ UNCHANGED lost
    BY <1>4 DEF MainLoop, Pop, Answer, ReportOverflow, NoOverflow, ResetLine
  <2>2. UNCHANGED <<waits, cmd, pos, lineOpen, length, closed>>
    BY <2>1 DEF sender
  <2>3. rx' \in Seq(Chars) /\ Len(rx') <= RxCap
    <3>1. CASE rx' = <<>>
      <4>1. rx' \in Seq(Chars) /\ Len(rx') = 0
        BY <3>1, EmptySeq
      <4> QED  BY <1>0, <4>1
    <3>2. CASE rx' = rx
      BY <1>0, <3>2
    <3> QED  BY <2>1, <3>1, <3>2
  <2>4. pc' \in Steps
    BY <1>4 DEF MainLoop, Pop, Answer, ReportOverflow, NoOverflow, ResetLine, Steps
  <2>5. queue' \in Seq(Seq(Chars) \ {<<>>}) /\ Len(queue') <= QueueCap
        /\ executed' \in Seq(Seq(Chars))
    <3>1. CASE Pop
      <4>1. /\ queue # <<>> /\ queue' = Tail(queue)
            /\ executed' = Append(executed, Head(queue))
        BY <3>1 DEF Pop
      <4>2. /\ Head(queue) \in Seq(Chars) \ {<<>>}
            /\ Tail(queue) \in Seq(Seq(Chars) \ {<<>>})
            /\ Len(Tail(queue)) = Len(queue) - 1
        BY <1>0, <4>1, HeadTailProperties
      <4>3. Len(queue) \in Nat /\ QueueCap \in Nat
        BY <1>0, UartConstants
      <4> QED  BY <1>0, <4>1, <4>2, <4>3
    <3>2. CASE UNCHANGED <<queue, executed>>
      BY <1>0, <3>2
    <3> QED  BY <1>4, <3>1, <3>2 DEF MainLoop, Answer, ReportOverflow, NoOverflow, ResetLine
  <2>6. /\ overflow' \in BOOLEAN /\ reported' \in 0..lost' /\ lost' \in Nat
        /\ (lost' = 0 => ~overflow')
    <3>1. CASE ReportOverflow
      <4>1. overflow' = FALSE /\ reported' = lost
        BY <3>1 DEF ReportOverflow
      <4>2. lost' = lost
        BY <2>1
      <4>3. reported' \in 0..lost' /\ lost' \in Nat
        BY <1>0, <4>1, <4>2
      <4>4. overflow' \in BOOLEAN /\ ~overflow'
        BY <4>1
      <4> QED  BY <4>3, <4>4
    <3>2. CASE UNCHANGED <<overflow, reported>>
      BY <1>0, <2>1, <3>2
    <3> QED  BY <1>4, <3>1, <3>2 DEF MainLoop, Pop, Answer, NoOverflow, ResetLine
  <2>7. TypeOK'
    <3>1. \A i \in 1..Len(queue') : queue'[i] \in Seq(Chars) /\ queue'[i] # <<>>
      BY <2>5, QueueOfTexts
    <3> QED  BY <1>0, <2>2, <2>3, <2>4, <2>5, <2>6, <3>1 DEF TypeOK
  <2>8. Typed'
    BY <2>5, <2>6, <2>7 DEF Typed
  <2>9. Sent'
    BY <2>1, <2>2 DEF Sent
  <2> QED  BY <2>8, <2>9
<1>5. CASE UNCHANGED vars
  BY <1>5 DEF vars, Typed, TypeOK, Sent
<1> QED  BY <1>1, <1>2, <1>3, <1>4, <1>5 DEF Next
-----------------------------------------------------------------------------
\* A line that has been dropped has any shape.
LEMMA EmptyShape ==
  ASSUME rx' = <<>>
  PROVE  LineShape'
<1>1. Len(rx') = 0 /\ rx' = <<>>
  OBVIOUS
<1>2. 1..Len(rx') = {} /\ 1..(Len(rx') - 1) = {}
  BY <1>1
<1> QED  BY <1>1, <1>2 DEF LineShape

\* A line with one more character, the next of its command or a ';'.
LEMMA LongerLine ==
  ASSUME Typed, LineShape, NEW ch \in Chars, rx' = Append(rx, ch),
         ch # Separator => ch = [cmd |-> cmd, pos |-> pos]
  PROVE  /\ Len(rx) \in Nat /\ Len(rx') = Len(rx) + 1
         /\ \A i \in 1..Len(rx) : rx'[i] = rx[i] /\ rx[i] \in Chars
         /\ rx'[Len(rx) + 1] = ch
         /\ \A i \in 1..Len(rx') : \A j \in i..Len(rx') :
               Unbroken(i, j)' => rx'[j] = [cmd |-> rx'[i].cmd, pos |-> rx'[i].pos + (j - i)]
<1>1. rx \in Seq(Chars) /\ Len(rx) \in Nat
  BY DEF Typed, TypeOK
<1>2. /\ Len(rx') = Len(rx) + 1
      /\ \A i \in 1..Len(rx) : rx'[i] = rx[i] /\ rx[i] \in Chars
      /\ rx'[Len(rx) + 1] = ch
  BY <1>1
<1>3. ASSUME NEW i \in 1..Len(rx'), NEW j \in i..Len(rx'), Unbroken(i, j)'
      PROVE  rx'[j] = [cmd |-> rx'[i].cmd, pos |-> rx'[i].pos + (j - i)]
  <2>1. \A k \in i..j : rx'[k] # Separator
    BY <1>3 DEF Unbroken
  <2>2. i \in Nat /\ j \in Nat /\ 1 <= i /\ i <= j /\ j <= Len(rx) + 1
    BY <1>1, <1>2
  <2>3. CASE j <= Len(rx)
    <3>1. Unbroken(i, j)
      <4>1. \A k \in i..j : k \in 1..Len(rx)
        BY <2>2, <2>3, <1>1
      <4> QED  BY <4>1, <1>2, <2>1 DEF Unbroken
    <3>2. i \in 1..Len(rx) /\ j \in i..Len(rx) /\ j \in 1..Len(rx)
      BY <2>2, <2>3, <1>1
    <3>3. rx[j] = [cmd |-> rx[i].cmd, pos |-> rx[i].pos + (j - i)]
      BY <3>1, <3>2 DEF LineShape
    <3> QED  BY <3>2, <3>3, <1>2
  <2>4. CASE j = Len(rx) + 1 /\ i = j
    <3>1. rx'[i] = ch /\ rx'[j] = ch /\ ch # Separator /\ j - i = 0
      BY <1>2, <2>1, <2>2, <2>4
    <3>2. ch = [cmd |-> ch.cmd, pos |-> ch.pos] /\ ch.pos \in 1..MaxCmdLen
      BY <3>1, SentChars
    <3>3. ch.pos + (j - i) = ch.pos
      BY <3>1, <3>2
    <3> QED  BY <3>1, <3>2, <3>3
  <2>5. CASE j = Len(rx) + 1 /\ i # j
    <3> DEFINE n == Len(rx)
    <3>1. /\ i \in 1..n /\ n \in i..n /\ n \in 1..n
          /\ n \in i..j /\ j \in i..j /\ \A k \in i..n : k \in i..j /\ k \in 1..n
      BY <2>2, <2>5, <1>1
    <3>2. ch # Separator
      BY <2>1, <3>1, <2>5, <1>2
    <3>3. Unbroken(i, n)
      BY <3>1, <2>1, <1>2 DEF Unbroken
    <3>4. rx[n] = [cmd |-> rx[i].cmd, pos |-> rx[i].pos + (n - i)]
      BY <3>1, <3>3 DEF LineShape
    <3>5. rx[n] # Separator /\ rx # <<>>
      <4>1. rx[n] # Separator
        BY <3>1, <2>1, <1>2
      <4>2. rx # <<>>
        BY <3>1
      <4> QED  BY <4>1, <4>2
    <3>6. rx[n] = [cmd |-> cmd, pos |-> pos - 1]
      BY <3>5 DEF LineShape
    <3>7. cmd = rx[i].cmd /\ pos - 1 = rx[i].pos + (n - i)
      BY <3>4, <3>6
    <3>8. rx[i].pos \in Int /\ pos \in Int
      <4>1. rx[i] \in Chars /\ rx[i] # Separator
        BY <3>1, <2>1, <2>2, <1>2
      <4> QED  BY <4>1, SentChars DEF Typed, TypeOK
    <3>9. pos = rx[i].pos + (j - i)
      <4>1. n \in Int /\ j = n + 1 /\ i \in Int
        BY <2>5, <2>2, <1>1
      <4> HIDE DEF n
      <4> QED  BY ONLY <3>7, <3>8, <4>1
    <3>10. rx'[j] = [cmd |-> cmd, pos |-> pos] /\ rx'[i] = rx[i]
      BY <1>2, <2>5, <3>1, <3>2
    <3> QED  BY <3>7, <3>9, <3>10
  <2> QED  BY <2>2, <2>3, <2>4, <2>5, <1>1
<1> QED  BY <1>1, <1>2, <1>3

\* Every step leaves the line in its shape.
LEMMA ShapeKept ==
  ASSUME Typed, Sent, LineShape, [Next]_vars
  PROVE  LineShape'
<1>0. /\ cmd \in 1..(NumCmds + 1) /\ pos \in 1..(MaxCmdLen + 1)
      /\ length \in [1..NumCmds -> 0..MaxCmdLen]
      /\ NumCmds \in Nat /\ MaxCmdLen \in Nat
      /\ rx \in Seq(Chars) /\ Len(rx) \in Nat
  BY UartConstants DEF Typed, TypeOK
<1>1. CASE SendChar
  <2>1. cmd \in 1..NumCmds /\ pos \in 1..MaxCmdLen
    BY <1>0, <1>1 DEF SendChar
  <2>2. PICK ch \in Chars : ch = [cmd |-> cmd, pos |-> pos] /\ ch # Separator
    BY <2>1, SentChars
  <2>3. StoreChar(ch) /\ pos' = pos + 1 /\ cmd' = cmd /\ length' = length
    BY <1>1, <2>2 DEF SendChar
  <2>4. CASE rx' = Append(rx, ch)
    <3>1. /\ Len(rx') = Len(rx) + 1
          /\ \A i \in 1..Len(rx) : rx'[i] = rx[i] /\ rx[i] \in Chars
          /\ rx'[Len(rx) + 1] = ch
          /\ \A i \in 1..Len(rx') : \A j \in i..Len(rx') :
                Unbroken(i, j)' => rx'[j] = [cmd |-> rx'[i].cmd, pos |-> rx'[i].pos + (j - i)]
      BY <2>2, <2>4, LongerLine
    <3>2. ASSUME NEW i \in 1..(Len(rx') - 1), rx'[i] # Separator, rx'[i + 1] = Separator
          PROVE  rx'[i].cmd < cmd' /\ rx'[i].pos = length'[rx'[i].cmd]
      <4>1. i \in 1..Len(rx) /\ i + 1 \in 1..(Len(rx) + 1)
        BY <1>0, <3>1
      <4>2. i + 1 # Len(rx) + 1
        BY <3>1, <3>2, <2>2
      <4>3. i \in 1..(Len(rx) - 1) /\ i + 1 \in 1..Len(rx)
        BY <4>1, <4>2, <1>0
      <4>4. rx[i] = rx'[i] /\ rx[i + 1] = rx'[i + 1]
        BY <4>1, <4>3, <3>1
      <4> QED  BY <4>3, <4>4, <3>2, <2>3 DEF LineShape
    <3>3. rx'[Len(rx')] = [cmd |-> cmd', pos |-> pos' - 1]
      <4>1. pos' - 1 = pos
        BY <2>3, <1>0
      <4> QED  BY <4>1, <3>1, <2>2, <2>3
    <3> QED  BY <3>1, <3>2, <3>3 DEF LineShape
  <2>5. CASE rx' = <<>>
    BY <2>5, EmptyShape
  <2> QED  BY <2>3, <2>4, <2>5 DEF StoreChar
<1>2. CASE SendSeparator
  <2>1. /\ cmd \in 1..NumCmds /\ pos \in 2..(MaxCmdLen + 1)
        /\ \A c \in 1..NumCmds : length'[c] = IF c = cmd THEN pos - 1 ELSE length[c]
    BY <1>2, EndCommandTyped DEF SendSeparator
  <2>2. StoreChar(Separator) /\ pos' = 1 /\ cmd' = cmd + 1
    BY <1>2 DEF SendSeparator, EndCommand
  <2>3. CASE rx' = Append(rx, Separator)
    <3>1. /\ Len(rx') = Len(rx) + 1
          /\ \A i \in 1..Len(rx) : rx'[i] = rx[i] /\ rx[i] \in Chars
          /\ rx'[Len(rx) + 1] = Separator
          /\ \A i \in 1..Len(rx') : \A j \in i..Len(rx') :
                Unbroken(i, j)' => rx'[j] = [cmd |-> rx'[i].cmd, pos |-> rx'[i].pos + (j - i)]
      BY <2>3, LongerLine, SentChars
    <3>2. ASSUME NEW i \in 1..(Len(rx') - 1), rx'[i] # Separator, rx'[i + 1] = Separator
          PROVE  rx'[i].cmd < cmd' /\ rx'[i].pos = length'[rx'[i].cmd]
      <4>1. i \in 1..Len(rx) /\ i + 1 \in 1..(Len(rx) + 1)
        BY <1>0, <3>1
      <4>2. rx'[i] = rx[i] /\ rx[i] \in Chars /\ rx[i] # Separator
        BY <4>1, <3>1, <3>2
      <4>3. rx[i].cmd \in 1..NumCmds
        BY <4>2, SentChars
      <4>4. CASE i = Len(rx)
        <5>1. rx[i] = [cmd |-> cmd, pos |-> pos - 1]
          <6>1. rx # <<>>
            BY <4>1
          <6> QED  BY <6>1, <4>2, <4>4 DEF LineShape
        <5>2. rx[i].cmd = cmd /\ rx[i].pos = pos - 1
          BY <5>1
        <5> QED  BY <5>2, <4>2, <2>1, <2>2
      <4>5. CASE i # Len(rx)
        <5>1. i \in 1..(Len(rx) - 1) /\ i + 1 \in 1..Len(rx)
          BY <4>1, <4>5, <1>0
        <5>2. rx[i + 1] = Separator
          BY <5>1, <3>1, <3>2
        <5>3. rx[i].cmd < cmd /\ rx[i].pos = length[rx[i].cmd]
          BY <5>1, <5>2, <4>2 DEF LineShape
        <5>4. length'[rx[i].cmd] = length[rx[i].cmd] /\ rx[i].cmd < cmd'
          BY <5>3, <4>3, <2>1, <2>2
        <5> QED  BY <5>3, <5>4, <4>2
      <4> QED  BY <4>4, <4>5
    <3> QED  BY <3>1, <3>2 DEF LineShape
  <2>4. CASE rx' = <<>>
    BY <2>4, EmptyShape
  <2> QED  BY <2>2, <2>3, <2>4 DEF StoreChar
<1>3. CASE SendEndOfLine
  BY <1>3, EmptyShape DEF SendEndOfLine, EndLine
<1>4. CASE MainLoop
  <2>1. UNCHANGED <<cmd, pos, length>> /\ (rx' = rx \/ rx' = <<>>)
    BY <1>4 DEF MainLoop, Pop, Answer, ReportOverflow, NoOverflow, ResetLine, sender
  <2>2. CASE rx' = rx
    BY <2>1, <2>2 DEF LineShape, Unbroken
  <2> QED  BY <2>1, <2>2, EmptyShape
<1>5. CASE UNCHANGED vars
  BY <1>5 DEF vars, LineShape, Unbroken
<1> QED  BY <1>1, <1>2, <1>3, <1>4, <1>5 DEF Next
-----------------------------------------------------------------------------
\* Each command of a finished line is the end of a command that was sent, from
\* the character its start holds.
LEMMA LineCommands ==
  ASSUME Typed, Sent, LineShape, EndCommand, NEW i \in Starts(rx)
  PROVE  /\ rx[i].cmd \in 1..NumCmds /\ rx[i].cmd <= cmd
         /\ rx[i].pos \in 1..length'[rx[i].cmd]
         /\ CommandAt(rx, i) =
               [k \in 1..(length'[rx[i].cmd] - rx[i].pos + 1) |->
                  [cmd |-> rx[i].cmd, pos |-> rx[i].pos + k - 1]]
<1>0. rx \in Seq(Chars) /\ Len(rx) \in Nat /\ cmd \in Nat /\ pos \in Nat
  BY UartConstants DEF Typed, TypeOK
<1>1. /\ cmd \in 1..NumCmds /\ pos \in 2..(MaxCmdLen + 1)
      /\ \A c \in 1..NumCmds : length'[c] = IF c = cmd THEN pos - 1 ELSE length[c]
  BY EndCommandTyped
<1>2. PICK e \in i..Len(rx) :
         /\ CommandAt(rx, i) = SubSeq(rx, i, e)
         /\ \A k \in i..e : rx[k] # Separator
         /\ e = Len(rx) \/ rx[e + 1] = Separator
  BY <1>0, CommandEnds
<1>3. i \in 1..Len(rx) /\ e \in 1..Len(rx) /\ i \in Nat /\ e \in Nat /\ i <= e
      /\ i \in i..e /\ e \in i..e
  BY <1>0 DEF Starts
<1>4. PICK c \in 1..NumCmds, p \in 1..MaxCmdLen : c = rx[i].cmd /\ p = rx[i].pos
  <2>1. rx[i] \in Chars /\ rx[i] # Separator
    BY <1>0, <1>2, <1>3
  <2> QED  BY <2>1, SentChars
<1>5. ASSUME NEW j \in i..e
      PROVE  rx[j] = [cmd |-> c, pos |-> p + (j - i)]
  <2>1. j \in i..Len(rx) /\ \A k \in i..j : k \in i..e
    BY <1>0, <1>3
  <2>2. Unbroken(i, j)
    BY <2>1, <1>2 DEF Unbroken
  <2> QED  BY <2>1, <2>2, <1>3, <1>4 DEF LineShape
<1>6. c <= cmd /\ length'[c] = p + (e - i)
  <2>1. rx[e] = [cmd |-> c, pos |-> p + (e - i)] /\ rx[e] # Separator
    BY <1>2, <1>3, <1>5
  <2>2. CASE e = Len(rx)
    <3>1. rx # <<>>
      BY <1>3
    <3>2. rx[e] = [cmd |-> cmd, pos |-> pos - 1]
      BY <2>1, <2>2, <3>1 DEF LineShape
    <3>3. c = cmd /\ pos - 1 = p + (e - i)
      BY <2>1, <3>2
    <3> QED  BY <3>3, <1>1
  <2>3. CASE e # Len(rx)
    <3>1. e \in 1..(Len(rx) - 1) /\ rx[e + 1] = Separator
      BY <1>0, <1>2, <1>3, <2>3
    <3>2. rx[e].cmd < cmd /\ rx[e].pos = length[rx[e].cmd]
      BY <2>1, <3>1 DEF LineShape
    <3>3. c < cmd /\ length[c] = p + (e - i)
      BY <2>1, <3>2
    <3> QED  BY <3>3, <1>1, <1>0
  <2> QED  BY <2>2, <2>3
<1>7. p \in 1..length'[c] /\ length'[c] - p + 1 = e - i + 1
  BY <1>3, <1>6
<1>8. SubSeq(rx, i, e) = [k \in 1..(e - i + 1) |-> [cmd |-> c, pos |-> p + k - 1]]
  <2>1. /\ SubSeq(rx, i, e) \in Seq(Chars) /\ Len(SubSeq(rx, i, e)) = e - i + 1
        /\ \A k \in 1..(e - i + 1) : SubSeq(rx, i, e)[k] = rx[i + k - 1]
    <3>1. \A j \in i..e : rx[j] \in Chars
      BY <1>0, <1>3
    <3> QED  BY <3>1, <1>3, SubSeqProperties
  <2>2. DOMAIN SubSeq(rx, i, e) = 1..(e - i + 1)
        /\ SubSeq(rx, i, e) \in [1..(e - i + 1) -> Chars]
    BY <2>1, LenProperties
  <2>3. ASSUME NEW k \in 1..(e - i + 1)
        PROVE  SubSeq(rx, i, e)[k] = [cmd |-> c, pos |-> p + k - 1]
    <3>1. i + k - 1 \in i..e /\ p + ((i + k - 1) - i) = p + k - 1
      BY <1>3
    <3> QED  BY <3>1, <2>1, <1>5
  <2> QED  BY <2>2, <2>3
<1> QED  BY <1>2, <1>4, <1>6, <1>7, <1>8

\* A command that was sent stays what it was.
LEMMA EndingStays ==
  ASSUME Typed, Sent, UNCHANGED length \/ EndCommand,
         NEW text, IsEnding(text)
  PROVE  IsEnding(text)'
<1>0. NumCmds \in Nat /\ cmd \in Nat /\ length \in [1..NumCmds -> 0..MaxCmdLen]
  BY UartConstants DEF Typed, TypeOK
<1>1. PICK c \in 1..NumCmds : \E p \in 1..length[c] : text = Ending(c, p)
  BY DEF IsEnding
<1>2. PICK p \in 1..length[c] : text = Ending(c, p)
  BY <1>1
<1>3. length'[c] = length[c]
  <2>1. CASE EndCommand
    <3>1. c < cmd
      <4>1. length[c] # 0
        BY <1>0, <1>2
      <4> QED  BY <4>1, <1>0 DEF Sent
    <3>2. \A d \in 1..NumCmds : length'[d] = IF d = cmd THEN pos - 1 ELSE length[d]
      BY <2>1, EndCommandTyped
    <3> QED  BY <3>1, <3>2, <1>0
  <2> QED  BY <2>1
<1>4. p \in 1..length'[c] /\ text = Ending(c, p)'
  BY <1>2, <1>3 DEF Ending
<1> QED  BY <1>4 DEF IsEnding

\* What the interrupt cuts out of a finished line is the end of a command that
\* was sent.
LEMMA CutCommands ==
  ASSUME Typed, Sent, LineShape, EndCommand,
         NEW k \in 1..Len(Segments(rx)), NEW text, text = Segments(rx)[k]
  PROVE  IsEnding(text)'
<1>1. PICK i \in Starts(rx) : text = CommandAt(rx, i)
  BY SegmentsOfLine DEF Typed, TypeOK
<1>2. PICK c \in 1..NumCmds : c = rx[i].cmd
  BY LineCommands
<1>3. PICK p \in 1..length'[c] : p = rx[i].pos
  BY <1>2, LineCommands
<1>4. text = Ending(c, p)'
  BY <1>1, <1>2, <1>3, LineCommands DEF Ending
<1> QED  BY <1>3, <1>4 DEF IsEnding

\* Nothing spliced gets into the queue, and from there to what is run.
LEMMA SplicedKept ==
  ASSUME Typed, Sent, LineShape, NeverSpliced, [Next]_vars
  PROVE  NeverSpliced'
<1>0. /\ queue \in Seq(Seq(Chars) \ {<<>>}) /\ Len(queue) \in Nat
      /\ executed \in Seq(Seq(Chars)) /\ Len(executed) \in Nat
      /\ \A i \in 1..Len(executed) : IsEnding(executed[i])
      /\ \A i \in 1..Len(queue) : IsEnding(queue[i])
  BY DEF Typed, NeverSpliced
<1>1. ASSUME UNCHANGED length \/ EndCommand
      PROVE  /\ \A i \in 1..Len(executed) : \A text : text = executed[i] => IsEnding(text)'
             /\ \A i \in 1..Len(queue) : \A text : text = queue[i] => IsEnding(text)'
  BY <1>0, <1>1, EndingStays
<1>2. SUFFICES /\ \A i \in 1..Len(executed') : \A text : text = executed'[i] => IsEnding(text)'
               /\ \A i \in 1..Len(queue') : \A text : text = queue'[i] => IsEnding(text)'
  <2>1. ASSUME NEW i \in 1..Len(executed') PROVE IsEnding(executed[i])'
    <3>1. PICK text : text = executed'[i]
      OBVIOUS
    <3>2. IsEnding(text)'
      BY <1>2, <3>1
    <3> QED  BY <3>1, <3>2 DEF IsEnding
  <2>2. ASSUME NEW i \in 1..Len(queue') PROVE IsEnding(queue[i])'
    <3>1. PICK text : text = queue'[i]
      OBVIOUS
    <3>2. IsEnding(text)'
      BY <1>2, <3>1
    <3> QED  BY <3>1, <3>2 DEF IsEnding
  <2> QED  BY <2>1, <2>2 DEF NeverSpliced
<1>3. CASE SendEndOfLine
  <2> DEFINE commands == Segments(rx)
             taken == Smaller(Len(commands), QueueCap - Len(queue))
             new == SubSeq(commands, 1, taken)
  <2>1. /\ commands \in Seq(Seq(Chars) \ {<<>>}) /\ Len(commands) \in Nat
        /\ taken \in 0..Len(commands)
        /\ new \in Seq(Seq(Chars) \ {<<>>}) /\ Len(new) = taken
        /\ \A k \in 1..taken : new[k] = commands[k]
    BY Taken
  <2>2. queue' = queue \o new /\ executed' = executed /\ EndCommand
    BY <1>3 DEF SendEndOfLine, EndLine
  <2>3. \A k \in 1..Len(commands) : \A text : text = commands[k] => IsEnding(text)'
    BY <2>2, CutCommands
  <2> HIDE DEF commands, taken, new
  <2>4. ASSUME NEW i \in 1..Len(queue'), NEW text, text = queue'[i]
        PROVE  IsEnding(text)'
    <3>1. /\ Len(queue') = Len(queue) + taken
          /\ queue'[i] = IF i <= Len(queue) THEN queue[i] ELSE new[i - Len(queue)]
      <4>1. Len(queue') = Len(queue) + Len(new)
        BY <1>0, <2>1, <2>2, ConcatProperties
      <4>2. i \in 1..(Len(queue) + Len(new))
        BY <4>1
      <4> QED  BY <1>0, <2>1, <2>2, <4>1, <4>2, ConcatProperties
    <3>2. CASE i <= Len(queue)
      BY <1>0, <1>1, <2>2, <2>4, <3>1, <3>2
    <3>3. CASE ~ (i <= Len(queue))
      <4>1. i - Len(queue) \in 1..taken /\ i - Len(queue) \in 1..Len(commands)
        BY <1>0, <2>1, <3>1, <3>3
      <4>2. text = commands[i - Len(queue)]
        BY <4>1, <3>1, <3>3, <2>1, <2>4
      <4> QED  BY <4>1, <4>2, <2>3
    <3> QED  BY <3>2, <3>3
  <2> QED  BY <1>1, <2>2, <2>4
<1>4. CASE Pop
  <2>1. /\ queue # <<>> /\ queue' = Tail(queue) /\ executed' = Append(executed, Head(queue))
        /\ length' = length
    BY <1>4 DEF Pop, sender
  <2>2. /\ Len(queue) >= 1 /\ Head(queue) = queue[1]
        /\ Len(queue') = Len(queue) - 1
        /\ \A i \in 1..Len(queue') : queue'[i] = queue[i + 1]
    BY <1>0, <2>1, HeadTailProperties
  <2>3. ASSUME NEW i \in 1..Len(executed'), NEW text, text = executed'[i]
        PROVE  IsEnding(text)'
    <3>1. /\ i \in 1..(Len(executed) + 1)
          /\ executed'[i] = IF i <= Len(executed) THEN executed[i] ELSE queue[1]
      <4>1. queue[1] \in Seq(Chars)
        BY <1>0, <2>2
      <4>2. executed' = Append(executed, queue[1])
        BY <2>1, <2>2
      <4> QED  BY <1>0, <4>1, <4>2
    <3>2. CASE i <= Len(executed)
      BY <1>0, <1>1, <2>1, <2>3, <3>1, <3>2
    <3>3. CASE ~ (i <= Len(executed))
      BY <1>0, <1>1, <2>1, <2>2, <2>3, <3>1, <3>3
    <3> QED  BY <3>2, <3>3
  <2>4. ASSUME NEW i \in 1..Len(queue'), NEW text, text = queue'[i]
        PROVE  IsEnding(text)'
    <3>1. i + 1 \in 1..Len(queue) /\ text = queue[i + 1]
      BY <1>0, <2>2, <2>4
    <3> QED  BY <3>1, <1>1, <2>1
  <2> QED  BY <2>3, <2>4
<1>5. ASSUME UNCHANGED <<executed, queue>>, UNCHANGED length \/ EndCommand
      PROVE  /\ \A i \in 1..Len(executed') : \A text : text = executed'[i] => IsEnding(text)'
             /\ \A i \in 1..Len(queue') : \A text : text = queue'[i] => IsEnding(text)'
  BY <1>1, <1>5
<1>6. CASE SendChar \/ SendSeparator \/ Answer \/ ReportOverflow \/ NoOverflow
             \/ ResetLine \/ UNCHANGED vars
  <2>1. UNCHANGED <<executed, queue>> /\ (UNCHANGED length \/ EndCommand)
    BY <1>6 DEF SendChar, SendSeparator, Answer, ReportOverflow, NoOverflow, ResetLine,
                vars, sender
  <2> QED  BY <2>1, <1>5
<1> QED  BY <1>3, <1>4, <1>6 DEF Next, MainLoop
-----------------------------------------------------------------------------
\* One more character begins a command when it is no ';' and none is under way.
LEMMA StartsOfLonger ==
  ASSUME NEW line \in Seq(Chars), NEW ch \in Chars
  PROVE  Starts(Append(line, ch)) =
            Starts(line) \cup
               (IF ch # Separator /\ (line = <<>> \/ line[Len(line)] = Separator)
                THEN {Len(line) + 1} ELSE {})
<1> DEFINE longer == Append(line, ch)
           n == Len(line)
<1>1. /\ n \in Nat /\ Len(longer) = n + 1
      /\ \A i \in 1..n : longer[i] = line[i]
      /\ longer[n + 1] = ch
      /\ line = <<>> <=> n = 0
  OBVIOUS
<1> HIDE DEF longer, n
<1>2. ASSUME NEW i \in 1..n
      PROVE  i \in Starts(longer) <=> i \in Starts(line)
  <2>1. i \in 1..Len(longer) /\ i \in 1..Len(line) /\ longer[i] = line[i]
    BY <1>1 DEF n
  <2>2. i # 1 => i - 1 \in 1..n /\ longer[i - 1] = line[i - 1]
    BY <1>1
  <2> QED  BY <2>1, <2>2 DEF Starts
<1>3. n + 1 \in Starts(longer) <=> ch # Separator /\ (line = <<>> \/ line[n] = Separator)
  <2>1. n + 1 \in 1..Len(longer) /\ (n + 1) - 1 = n /\ (n + 1 = 1 <=> n = 0)
    BY <1>1
  <2>2. n # 0 => longer[n] = line[n]
    BY <1>1
  <2>3. n + 1 \in Starts(longer) <=> ch # Separator /\ (n = 0 \/ longer[n] = Separator)
    BY <2>1, <1>1 DEF Starts
  <2> QED  BY <2>2, <2>3, <1>1
<1>4. Starts(longer) \in SUBSET (1..(n + 1)) /\ Starts(line) \in SUBSET (1..n)
  BY <1>1 DEF Starts, n
<1>5. n + 1 \notin 1..n /\ 1..(n + 1) = (1..n) \cup {n + 1}
  BY <1>1
<1> QED  BY <1>2, <1>3, <1>4, <1>5 DEF longer, n

\* While the sender waits for the board to be quiet, the board leaves a line in
\* progress alone and its commands are counted.
LEMMA PacedKept ==
  ASSUME Typed, Sent, LineShape, Paced, [Next]_vars
  PROVE  Paced'
<1>0. /\ cmd \in Nat /\ pos \in Nat /\ pos >= 1 /\ closed \in Nat
      /\ rx \in Seq(Chars) /\ Len(rx) \in Nat
      /\ IsFiniteSet(Starts(rx)) /\ Cardinality(Starts(rx)) \in Nat
      /\ Starts(rx) \in SUBSET (1..Len(rx))
      /\ lost \in Nat /\ (lost = 0 => ~overflow)
  <2>1. cmd \in 1..(NumCmds + 1) /\ pos \in 1..(MaxCmdLen + 1) /\ closed \in 0..NumCmds
        /\ rx \in Seq(Chars) /\ Len(rx) \in Nat /\ lost \in Nat /\ (lost = 0 => ~overflow)
        /\ NumCmds \in Nat /\ MaxCmdLen \in Nat
    BY UartConstants DEF Typed, TypeOK
  <2>2. IsFiniteSet(Starts(rx)) /\ Cardinality(Starts(rx)) \in Nat
    BY <2>1, SegmentsOfLine
  <2> QED  BY <2>1, <2>2 DEF Starts
<1> SUFFICES ASSUME waits', lost' = 0, lineOpen'
             PROVE  PacedLine'
  BY DEF Paced
<1>1. CASE SendChar
  <2>1. cmd \in 1..NumCmds /\ pos \in 1..MaxCmdLen
    BY <1>1 DEF SendChar, Typed, TypeOK
  <2>2. PICK ch \in Chars : ch = [cmd |-> cmd, pos |-> pos] /\ ch # Separator
    BY <2>1, SentChars
  <2>3. /\ rx' = Append(rx, ch) /\ lost' = lost
        /\ pos' = pos + 1 /\ UNCHANGED <<waits, cmd, closed, queue, pc>>
    <3>1. StoreChar(ch) /\ pos' = pos + 1 /\ UNCHANGED <<waits, cmd, closed, queue, pc>>
      BY <1>1, <2>2 DEF SendChar
    <3>2. lost + 1 # 0
      BY <1>0
    <3>3. Len(rx) < RxCap
      BY <3>1, <3>2 DEF StoreChar
    <3> QED  BY <3>1, <3>3 DEF StoreChar
  <2>4. /\ pc = "poll" /\ queue = <<>>
        /\ \A i \in Starts(rx) :
              rx[i].pos = 1 /\ Cardinality({j \in Starts(rx) : j < i}) = rx[i].cmd - closed - 1
        /\ Cardinality(Starts(rx)) = cmd - closed - (IF pos = 1 THEN 1 ELSE 0)
        /\ pos = 1 <=> rx = <<>> \/ rx[Len(rx)] = Separator
    <3>1. CASE lineOpen
      BY <3>1, <2>3 DEF Paced, PacedLine
    <3>2. CASE ~lineOpen
      <4>1. pc = "poll" /\ queue = <<>>
        BY <3>2, <2>3, <1>1 DEF SendChar, AllQuiet
      <4>2. rx = <<>> /\ pos = 1 /\ closed = cmd - 1
        BY <3>2 DEF Sent
      <4>3. Starts(rx) = {} /\ Cardinality(Starts(rx)) = 0
        <5>1. 1..Len(rx) = {}
          BY <4>2
        <5>2. Starts(rx) = {}
          BY <5>1, <1>0
        <5> QED  BY <5>2, FS_EmptySet
      <4>4. cmd - closed - 1 = 0
        BY <4>2, <1>0
      <4> QED  BY <4>1, <4>2, <4>3, <4>4
    <3> QED  BY <3>1, <3>2
  <2>5. /\ Len(rx') = Len(rx) + 1 /\ rx'[Len(rx')] = ch /\ rx' # <<>>
        /\ \A i \in 1..Len(rx) : rx'[i] = rx[i]
    BY <1>0, <2>3
  <2>6. Starts(rx') = Starts(rx) \cup (IF pos = 1 THEN {Len(rx) + 1} ELSE {})
    BY <1>0, <2>2, <2>3, <2>4, StartsOfLonger
  <2>7. Len(rx) + 1 \notin Starts(rx)
    BY <1>0
  <2>8. Cardinality(Starts(rx')) = cmd' - closed' - (IF pos' = 1 THEN 1 ELSE 0)
    <3>1. pos' # 1 /\ cmd' = cmd /\ closed' = closed
      BY <2>3, <1>0
    <3>2. CASE pos = 1
      <4>1. Cardinality(Starts(rx')) = Cardinality(Starts(rx)) + 1
        BY <2>6, <2>7, <3>2, <1>0, FS_AddElement
      <4>2. Cardinality(Starts(rx)) = cmd - closed - 1
        BY <2>4, <3>2
      <4> QED  BY <3>1, <4>1, <4>2, <1>0
    <3>3. CASE pos # 1
      <4>1. Starts(rx') = Starts(rx)
        BY <2>6, <3>3
      <4>2. Cardinality(Starts(rx)) = cmd - closed - 0
        BY <2>4, <3>3
      <4> QED  BY <3>1, <4>1, <4>2
    <3> QED  BY <3>2, <3>3
  <2>9. ASSUME NEW i \in Starts(rx')
        PROVE  /\ rx'[i].pos = 1
               /\ Cardinality({j \in Starts(rx') : j < i}) = rx'[i].cmd - closed' - 1
    <3>1. CASE i \in Starts(rx)
      <4>1. {j \in Starts(rx') : j < i} = {j \in Starts(rx) : j < i}
        <5>1. i \in 1..Len(rx)
          BY <3>1, <1>0
        <5>2. ~ (Len(rx) + 1 < i)
          BY <5>1, <1>0
        <5> QED  BY <2>6, <5>2
      <4>2. rx'[i] = rx[i] /\ closed' = closed
        BY <3>1, <1>0, <2>3, <2>5
      <4> QED  BY <3>1, <4>1, <4>2, <2>4
    <3>2. CASE i \notin Starts(rx)
      <4>1. pos = 1 /\ i = Len(rx) + 1
        BY <3>2, <2>6
      <4>2. {j \in Starts(rx') : j < i} = Starts(rx)
        <5>1. \A j \in Starts(rx) : j < i
          BY <4>1, <1>0
        <5>2. ~ (i < i)
          BY <4>1, <1>0
        <5> QED  BY <5>1, <5>2, <2>6, <4>1
      <4>3. rx'[i] = ch /\ closed' = closed
        BY <4>1, <2>3, <2>5
      <4>4. Cardinality(Starts(rx)) = cmd - closed - 1
        BY <2>4, <4>1
      <4>5. rx'[i].pos = 1 /\ rx'[i].cmd = cmd
        BY <4>1, <4>3, <2>2
      <4>6. Cardinality({j \in Starts(rx') : j < i}) = cmd - closed - 1
        BY <4>2, <4>4
      <4> QED  BY <4>3, <4>5, <4>6
    <3> QED  BY <3>1, <3>2
  <2>10. pos' # 1 /\ rx'[Len(rx')] # Separator
    BY <1>0, <2>2, <2>3, <2>5
  <2> QED  BY <2>3, <2>4, <2>5, <2>8, <2>9, <2>10 DEF PacedLine
<1>2. CASE SendSeparator
  <2>1. /\ rx' = Append(rx, Separator) /\ lost' = lost
        /\ pos' = 1 /\ cmd' = cmd + 1 /\ UNCHANGED <<waits, closed, queue, pc>> /\ pos > 1
    <3>1. StoreChar(Separator) /\ pos' = 1 /\ cmd' = cmd + 1 /\ pos > 1
          /\ UNCHANGED <<waits, closed, queue, pc>>
      BY <1>2 DEF SendSeparator, EndCommand
    <3>2. lost + 1 # 0
      BY <1>0
    <3>3. Len(rx) < RxCap
      BY <3>1, <3>2 DEF StoreChar
    <3> QED  BY <3>1, <3>3 DEF StoreChar
  <2>2. PacedLine
    BY <1>0, <1>2, <2>1 DEF SendSeparator, Paced
  <2>3. /\ Len(rx') = Len(rx) + 1 /\ rx'[Len(rx')] = Separator /\ rx' # <<>>
        /\ \A i \in 1..Len(rx) : rx'[i] = rx[i]
    BY <1>0, <2>1, SentChars
  <2>4. Starts(rx') = Starts(rx)
    BY <1>0, <2>1, SentChars, StartsOfLonger
  <2>5. Cardinality(Starts(rx')) = cmd' - closed' - (IF pos' = 1 THEN 1 ELSE 0)
    <3>1. Cardinality(Starts(rx)) = cmd - closed - 0
      BY <2>1, <2>2, <1>0 DEF PacedLine
    <3>2. cmd - closed - 0 = (cmd + 1) - closed - 1
      BY <1>0
    <3> QED  BY <2>1, <2>4, <3>1, <3>2
  <2>6. ASSUME NEW i \in Starts(rx')
        PROVE  /\ rx'[i].pos = 1
               /\ Cardinality({j \in Starts(rx') : j < i}) = rx'[i].cmd - closed' - 1
    <3>1. i \in Starts(rx) /\ rx'[i] = rx[i] /\ closed' = closed
      BY <1>0, <2>1, <2>3, <2>4
    <3>2. {j \in Starts(rx') : j < i} = {j \in Starts(rx) : j < i}
      BY <2>4
    <3>3. rx[i].pos = 1 /\ Cardinality({j \in Starts(rx) : j < i}) = rx[i].cmd - closed - 1
      BY <3>1, <2>2 DEF PacedLine
    <3> QED  BY <3>1, <3>2, <3>3
  <2> QED  BY <2>1, <2>2, <2>3, <2>5, <2>6 DEF PacedLine
<1>3. CASE SendEndOfLine
  BY <1>3 DEF SendEndOfLine
<1>4. CASE MainLoop
  <2>1. waits /\ lost = 0 /\ lineOpen
    BY <1>4 DEF MainLoop, Pop, Answer, ReportOverflow, NoOverflow, ResetLine, sender
  <2>2. pc = "poll" /\ queue = <<>> /\ ~overflow
    BY <2>1, <1>0 DEF Paced, PacedLine
  <2> QED  BY <1>4, <2>2 DEF MainLoop, Pop, Answer, ReportOverflow, NoOverflow, ResetLine
<1>5. CASE UNCHANGED vars
  BY <1>5 DEF vars, Paced, PacedLine
<1> QED  BY <1>1, <1>2, <1>3, <1>4, <1>5 DEF Next

\* A line ended while the sender waits for the board to be quiet adds all of its
\* commands, whole, to what has been run or waits.
LEMMA PacedEndOfLine ==
  ASSUME Typed, Sent, LineShape, NothingLostWhenPaced, Paced, SendEndOfLine
  PROVE  NothingLostWhenPaced'
<1> DEFINE whole(c) == [i \in 1..(length'[c] - 1 + 1) |-> [cmd |-> c, pos |-> 1 + i - 1]]
           commands == Segments(rx)
           taken == Smaller(Len(commands), QueueCap - Len(queue))
           new == SubSeq(commands, 1, taken)
<1> SUFFICES ASSUME waits', lost' = 0
             PROVE  executed' \o queue' = [c \in 1..closed' |-> whole(c)]
  BY DEF NothingLostWhenPaced, Ending
<1>0. /\ cmd \in Nat /\ pos \in Nat /\ closed \in Nat /\ lost \in Nat /\ closed < cmd
      /\ NumCmds \in Nat
      /\ rx \in Seq(Chars) /\ executed \in Seq(Seq(Chars)) /\ Len(executed) \in Nat
  BY UartConstants DEF Typed, TypeOK, Sent
<1>1. /\ cmd \in 1..NumCmds /\ pos \in 2..(MaxCmdLen + 1)
      /\ \A c \in 1..NumCmds : length'[c] = IF c = cmd THEN pos - 1 ELSE length[c]
  BY EndCommandTyped DEF SendEndOfLine
<1>2. /\ commands \in Seq(Seq(Chars) \ {<<>>}) /\ Len(commands) \in Nat
      /\ taken \in 0..Len(commands)
      /\ new \in Seq(Seq(Chars) \ {<<>>}) /\ Len(new) = taken
      /\ \A k \in 1..taken : new[k] = commands[k]
  BY Taken
<1>3. /\ queue' = queue \o new /\ lost' = lost + Len(commands) - taken
      /\ executed' = executed /\ waits' = waits /\ closed' = cmd /\ EndCommand
  BY DEF SendEndOfLine, EndLine
<1>4. /\ Len(commands) = Cardinality(Starts(rx))
      /\ \A k \in 1..Len(commands) : \E i \in Starts(rx) :
            /\ Cardinality({j \in Starts(rx) : j < i}) = k - 1
            /\ commands[k] = CommandAt(rx, i)
  BY <1>0, SegmentsOfLine
<1> HIDE DEF whole, commands, taken, new
<1>5. lost = 0 /\ taken = Len(commands)
  BY <1>0, <1>2, <1>3
<1>6. PacedLine
  <2>1. lineOpen
    BY <1>1 DEF Sent
  <2> QED  BY <2>1, <1>3, <1>5 DEF Paced
<1>7. Len(commands) = cmd - closed
  <2>1. pos # 1
    BY <1>1
  <2>2. Cardinality(Starts(rx)) = cmd - closed - 0
    BY <1>6, <2>1 DEF PacedLine
  <2> QED  BY <2>2, <1>0, <1>4
<1>8. queue' = new
  <2>1. queue = <<>>
    BY <1>6 DEF PacedLine
  <2> QED  BY <2>1, <1>2, <1>3, ConcatEmptySeq
<1>9. executed = [c \in 1..closed |-> Ending(c, 1)]
  <2>1. queue = <<>>
    BY <1>6 DEF PacedLine
  <2>2. executed \o <<>> = executed
    BY <1>0, ConcatEmptySeq
  <2> QED  BY <2>1, <2>2, <1>3, <1>5 DEF NothingLostWhenPaced
<1>10. Len(executed) = closed
  <2>1. DOMAIN executed = 1..closed /\ DOMAIN executed = 1..Len(executed)
    BY <1>0, <1>9
  <2> QED  BY <2>1, <1>0
<1>11. ASSUME NEW c \in 1..closed
       PROVE  executed[c] = whole(c)
  <2>1. executed[c] = Ending(c, 1)
    BY <1>9
  <2>2. c \in 1..NumCmds /\ c # cmd
    BY <1>0, <1>1
  <2>3. length'[c] = length[c]
    BY <2>2, <1>1
  <2> QED  BY <2>1, <2>3 DEF Ending, whole
<1>12. ASSUME NEW k \in 1..(cmd - closed)
       PROVE  new[k] = whole(closed + k)
  <2>1. k \in 1..Len(commands) /\ k \in 1..taken /\ new[k] = commands[k]
    BY <1>2, <1>5, <1>7
  <2>2. PICK i \in Starts(rx) : /\ Cardinality({j \in Starts(rx) : j < i}) = k - 1
                                /\ commands[k] = CommandAt(rx, i)
    BY <1>4, <2>1
  <2>3. rx[i].pos = 1 /\ k - 1 = rx[i].cmd - closed - 1
    BY <1>6, <2>2 DEF PacedLine
  <2>4. PICK d \in 1..NumCmds : d = rx[i].cmd
    BY <1>3, LineCommands
  <2>5. rx[i].cmd = closed + k
    <3>1. k - 1 = d - closed - 1
      BY <2>3, <2>4
    <3>2. k \in Int /\ d \in Int /\ closed \in Int
      BY <1>0
    <3>3. d = closed + k
      BY ONLY <3>1, <3>2
    <3> QED  BY <2>4, <3>3
  <2>6. commands[k] = [j \in 1..(length'[rx[i].cmd] - rx[i].pos + 1) |->
                         [cmd |-> rx[i].cmd, pos |-> rx[i].pos + j - 1]]
    BY <1>3, <2>2, LineCommands
  <2> QED  BY <2>1, <2>3, <2>5, <2>6 DEF whole
<1>13. /\ executed \o new \in Seq(Seq(Chars)) /\ Len(executed \o new) = cmd
       /\ \A c \in 1..cmd : (executed \o new)[c] = whole(c)
  <2>1. new \in Seq(Seq(Chars)) /\ Len(new) = cmd - closed
    <3>1. Seq(Chars) \ {<<>>} \subseteq Seq(Chars)
      OBVIOUS
    <3> QED  BY <3>1, <1>2, <1>5, <1>7, SeqMonotonic
  <2>2. /\ executed \o new \in Seq(Seq(Chars))
        /\ Len(executed \o new) = closed + (cmd - closed)
        /\ \A c \in 1..(closed + (cmd - closed)) : (executed \o new)[c] =
              IF c <= closed THEN executed[c] ELSE new[c - closed]
    <3>1. /\ executed \o new \in Seq(Seq(Chars))
          /\ Len(executed \o new) = Len(executed) + Len(new)
          /\ \A c \in 1..(Len(executed) + Len(new)) : (executed \o new)[c] =
                IF c <= Len(executed) THEN executed[c] ELSE new[c - Len(executed)]
      BY <1>0, <2>1, ConcatProperties
    <3> QED  BY <3>1, <1>10, <2>1
  <2>3. closed + (cmd - closed) = cmd
    BY <1>0
  <2>4. ASSUME NEW c \in 1..cmd PROVE (executed \o new)[c] = whole(c)
    <3>1. CASE c <= closed
      <4>1. c \in 1..closed
        BY <3>1, <1>0
      <4> QED  BY <3>1, <4>1, <2>2, <2>3, <1>11
    <3>2. CASE ~ (c <= closed)
      <4>1. c - closed \in 1..(cmd - closed) /\ closed + (c - closed) = c
        BY <3>2, <1>0
      <4>2. new[c - closed] = whole(c)
        BY <4>1, <1>12
      <4> QED  BY <3>2, <4>2, <2>2, <2>3
    <3> QED  BY <3>1, <3>2
  <2> QED  BY <2>2, <2>3, <2>4
<1>14. executed \o new = [c \in 1..cmd |-> whole(c)]
  <2>1. DOMAIN (executed \o new) = 1..cmd
        /\ executed \o new \in [1..cmd -> Seq(Chars)]
    BY <1>13, LenProperties
  <2> QED  BY <2>1, <1>13
<1> QED  BY <1>3, <1>8, <1>14

\* What a paced sender is promised is kept by every step.
LEMMA NothingLostKept ==
  ASSUME Typed, Sent, LineShape, NothingLostWhenPaced, Paced, [Next]_vars
  PROVE  NothingLostWhenPaced'
<1>0. /\ cmd \in Nat /\ closed \in 0..NumCmds /\ NumCmds \in Nat /\ closed < cmd /\ lost \in Nat
      /\ queue \in Seq(Seq(Chars) \ {<<>>}) /\ executed \in Seq(Seq(Chars))
  BY UartConstants DEF Typed, TypeOK, Sent
<1>1. CASE SendEndOfLine
  BY <1>1, PacedEndOfLine
<1>2. ASSUME waits' = waits, closed' = closed, lost' = 0 => lost = 0,
             executed' \o queue' = executed \o queue,
             \A c \in 1..closed : length'[c] = length[c]
      PROVE  NothingLostWhenPaced'
  BY <1>2 DEF NothingLostWhenPaced, Ending
<1>3. CASE SendChar
  <2>1. UNCHANGED <<waits, closed, executed, queue, length>>
    BY <1>3 DEF SendChar
  <2>2. lost' = 0 => lost = 0
    <3>1. lost + 1 # 0
      BY <1>0
    <3> QED  BY <1>3, <3>1 DEF SendChar, StoreChar
  <2> QED  BY <2>1, <2>2, <1>2
<1>4. CASE SendSeparator
  <2>1. UNCHANGED <<waits, closed, executed, queue>>
    BY <1>4 DEF SendSeparator
  <2>2. lost' = 0 => lost = 0
    <3>1. lost + 1 # 0
      BY <1>0
    <3> QED  BY <1>4, <3>1 DEF SendSeparator, StoreChar
  <2>3. ASSUME NEW c \in 1..closed PROVE length'[c] = length[c]
    <3>1. c \in 1..NumCmds /\ c # cmd
      BY <1>0
    <3>2. \A d \in 1..NumCmds : length'[d] = IF d = cmd THEN pos - 1 ELSE length[d]
      BY <1>4, EndCommandTyped DEF SendSeparator
    <3> QED  BY <3>1, <3>2
  <2> QED  BY <2>1, <2>2, <2>3, <1>2
<1>5. CASE Pop
  <2>1. /\ queue # <<>> /\ queue' = Tail(queue) /\ executed' = Append(executed, Head(queue))
        /\ UNCHANGED <<waits, closed, length, lost>>
    BY <1>5 DEF Pop, sender
  <2>2. executed' \o queue' = executed \o queue
    <3> DEFINE T == Seq(Chars)
    <3>1. queue \in Seq(T)
      <4>1. Seq(Chars) \ {<<>>} \subseteq T
        OBVIOUS
      <4> QED  BY <4>1, <1>0, SeqMonotonic
    <3>2. executed \in Seq(T)
      BY <1>0
    <3> HIDE DEF T
    <3>3. Append(executed, Head(queue)) \o Tail(queue) = executed \o queue
      BY <2>1, <3>1, <3>2
    <3> QED  BY <2>1, <3>3
  <2> QED  BY <2>1, <2>2, <1>2
<1>6. CASE Answer \/ ReportOverflow \/ NoOverflow \/ ResetLine
  <2>1. UNCHANGED <<waits, closed, executed, queue, length, lost>>
    BY <1>6 DEF Answer, ReportOverflow, NoOverflow, ResetLine, sender
  <2> QED  BY <2>1, <1>2
<1>7. CASE UNCHANGED vars
  <2>1. UNCHANGED <<waits, closed, executed, queue, length, lost>>
    BY <1>7 DEF vars
  <2> QED  BY <2>1, <1>2
<1> QED  BY <1>1, <1>3, <1>4, <1>5, <1>6, <1>7 DEF Next, MainLoop
-----------------------------------------------------------------------------
(***************************************************************************)
(* The theorems                                                            *)
(***************************************************************************)
\* The first state is one the invariant allows.
LEMMA InitIInv == Init => IInv
<1> SUFFICES ASSUME Init PROVE IInv
  OBVIOUS
<1>0. /\ NumCmds \in Nat /\ NumCmds >= 1 /\ MaxCmdLen \in Nat /\ MaxCmdLen >= 1
      /\ RxCap \in Nat /\ QueueCap \in Nat
  BY UartConstants
<1>1. /\ waits \in BOOLEAN /\ cmd = 1 /\ pos = 1 /\ lineOpen = FALSE
      /\ length = [c \in 1..NumCmds |-> 0] /\ closed = 0
      /\ rx = <<>> /\ queue = <<>> /\ overflow = FALSE
      /\ pc = "poll" /\ executed = <<>> /\ lost = 0 /\ reported = 0
  BY DEF Init
<1>2. /\ rx \in Seq(Chars) /\ Len(rx) = 0
      /\ queue \in Seq(Seq(Chars) \ {<<>>}) /\ Len(queue) = 0
      /\ executed \in Seq(Seq(Chars)) /\ Len(executed) = 0
  BY <1>1, EmptySeq
<1>3. TypeOK
  <2>1. cmd \in 1..(NumCmds + 1) /\ pos \in 1..(MaxCmdLen + 1) /\ closed \in 0..NumCmds
        /\ lost \in Nat /\ reported \in 0..lost
    BY <1>0, <1>1
  <2>2. length \in [1..NumCmds -> 0..MaxCmdLen]
    BY <1>0, <1>1
  <2>3. \A i \in 1..Len(queue) : queue[i] \in Seq(Chars) /\ queue[i] # <<>>
    BY <1>2, QueueOfTexts
  <2>4. Len(rx) <= RxCap /\ Len(queue) <= QueueCap
    BY <1>0, <1>2
  <2>5. lineOpen \in BOOLEAN /\ overflow \in BOOLEAN /\ pc \in Steps
    BY <1>1 DEF Steps
  <2> QED  BY <1>1, <1>2, <2>1, <2>2, <2>3, <2>4, <2>5 DEF TypeOK
<1>4. Typed
  BY <1>1, <1>2, <1>3 DEF Typed
<1>5. Sent
  BY <1>0, <1>1 DEF Sent
<1>6. LineShape
  <2>1. 1..Len(rx) = {} /\ 1..(Len(rx) - 1) = {}
    BY <1>2
  <2> QED  BY <1>1, <2>1 DEF LineShape
<1>7. NeverSpliced
  <2>1. 1..Len(executed) = {} /\ 1..Len(queue) = {}
    BY <1>2
  <2> QED  BY <2>1 DEF NeverSpliced
<1>8. NothingLostWhenPaced
  <2>1. executed \o queue = <<>>
    BY <1>1, <1>2, ConcatEmptySeq
  <2>2. 1..closed = {}
    BY <1>1
  <2>3. [c \in 1..closed |-> Ending(c, 1)] = <<>>
    BY <2>2
  <2> QED  BY <2>1, <2>3 DEF NothingLostWhenPaced
<1>9. Paced
  BY <1>1 DEF Paced
<1> QED  BY <1>4, <1>5, <1>6, <1>7, <1>8, <1>9 DEF IInv

\* Every step keeps the invariant.
LEMMA IInvKept == IInv /\ [Next]_vars => IInv'
BY TypedSent, ShapeKept, SplicedKept, PacedKept, NothingLostKept DEF IInv

\* The invariant holds in every state.
THEOREM IInvHolds == Spec => []IInv
BY InitIInv, IInvKept, PTL DEF Spec

\* The line, the queue and the flag stay within the arrays and types of main.c:
\* a line never has more characters than uart_cmd_buf, nor the queue more
\* commands than uart_cmd_queue.
THEOREM TypeCorrect == Spec => []TypeOK
<1>1. IInv => TypeOK
  BY DEF IInv, Typed
<1> QED  BY <1>1, IInvHolds, PTL

\* A text that waits or is run is the end of one command that was sent, however
\* the receive interrupt and the main loop interleave and whatever overflows.
THEOREM NeverSplicedHolds == Spec => []NeverSpliced
<1>1. IInv => NeverSpliced
  BY DEF IInv
<1> QED  BY <1>1, IInvHolds, PTL

\* A sender that begins a line only when the board is quiet, and whose lines and
\* commands fit, has all of its commands run, whole and in order.
THEOREM NothingLostWhenPacedHolds == Spec => []NothingLostWhenPaced
<1>1. IInv => NothingLostWhenPaced
  BY DEF IInv
<1> QED  BY <1>1, IInvHolds, PTL
=============================================================================
