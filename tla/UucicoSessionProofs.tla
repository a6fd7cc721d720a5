------------------------- MODULE UucicoSessionProofs -------------------------
(***************************************************************************)
(* Proofs about the sessions of uucico, for any number of sessions, failed *)
(* forks and bytes and for any sizes of buffers and pipes; the last says   *)
(* that VaraSession, which has a session in four steps, may do so.         *)
(***************************************************************************)
EXTENDS UucicoSession, SequenceTheorems, TLAPS

(* What uucico_thread has done to the pipes and to the child.              *)
Phases ==
  /\ main \in {"fork", "close", "returned"} => open = PipeEnds
  /\ main \in {"waitpid", "closeRest"} => open = {"pipefd1[1]", "pipefd2[0]"}
  /\ child = "running" => main \in {"close", "waitpid"}

(* What in_buffer may hold.                                                *)
Any == Bytes \cup {Stale}

(* Its threads end after the child, and are joined.                        *)
Ending == {"count", "over"}

Threads ==
  /\ main \in {"fork", "returned"} \/ child = "running" =>
       reader.pc \notin Ending /\ writer.pc \notin Ending
  /\ main \in {"joinWriter", "clean", "over", "wait"} => reader.pc = "over"
  /\ main \in {"clean", "over", "wait"} => writer.pc = "over"

(* Either counter is the number of sessions that its thread has ended.     *)
CountersTell ==
  /\ session_counter_read = IF reader.pc = "over" THEN sessions ELSE sessions - 1
  /\ session_counter_write = IF writer.pc = "over" THEN sessions ELSE sessions - 1
  /\ main # "wait" => sessions # 0

(* A session that is called for is one the bound allows.                   *)
Called ==
  /\ ~ uucico_active => main = "wait"
  /\ uucico_active /\ main = "wait" => sessions < MaxSessions

(* What the child wrote is passed on without a gap: what went into         *)
(* in_buffer, then what the reader has in its buffer, then the pipe.       *)
Passed == wrote - Len(output) - Len(reader.buf)
Run(s, k) == \A i \in 1 .. Len(s) : s[i] = <<sessions, k + i>>

Follows(before, byte) ==
  \/ byte = <<before[1], before[2] + 1>>
  \/ byte[1] > before[1] /\ byte[2] = 1
Ordered(s) == \A i \in 2 .. Len(s) : Follows(s[i - 1], s[i])

LastIsPassed ==
  IF Passed = 0 THEN in_buffer[Len(in_buffer)][1] < sessions
  ELSE in_buffer[Len(in_buffer)] = <<sessions, Passed>>

(* As long as in_buffer is whole, what the reader waited for is there when *)
(* it copies.                                                              *)
Whole ==
  /\ Ordered(in_buffer)
  /\ in_buffer # <<>> => LastIsPassed
  /\ reader.pc = "copy" => Len(in_buffer) + Len(reader.buf) <= Capacity

OutputFollows ==
  /\ Passed \in Nat
  /\ Run(reader.buf, Passed) /\ Run(output, Passed + Len(reader.buf))
  /\ reader.pc \notin {"put", "copy"} => reader.buf = <<>>
  /\ ~ torn => Whole

(* A chunk is at most a buffer, and a clean-up goes on while it is asked   *)
(* for.                                                                    *)
Steady ==
  /\ Len(reader.buf) <= Buffer
  /\ cleaner # "look" => clean_buffers

Inv == TypeOK /\ Phases /\ Threads /\ CountersTell /\ Called /\ Steady

-----------------------------------------------------------------------------
(* What the sequence operators do, as the steps use them.                  *)
LEMMA Parts ==
  ASSUME NEW S, NEW s \in Seq(S), NEW n \in 0 .. Len(s)
  PROVE  /\ SubSeq(s, 1, n) \in Seq(S) /\ Len(SubSeq(s, 1, n)) = n
         /\ SubSeq(s, n + 1, Len(s)) \in Seq(S)
         /\ Len(SubSeq(s, n + 1, Len(s))) = Len(s) - n
         /\ \A i \in 1 .. n : SubSeq(s, 1, n)[i] = s[i]
         /\ \A i \in 1 .. Len(s) - n : SubSeq(s, n + 1, Len(s))[i] = s[n + i]
<1>1. Len(s) \in Nat /\ s \in [1 .. Len(s) -> S]
  BY LenProperties
<1>2. /\ SubSeq(s, 1, n) \in Seq(S) /\ Len(SubSeq(s, 1, n)) = n
      /\ \A i \in 1 .. n : SubSeq(s, 1, n)[i] = s[i]
  <2>1. CASE n = 0
    BY <1>1, <2>1, SubSeqProperties
  <2>2. CASE n # 0
    BY <1>1, <2>2, SubSeqProperties
  <2>. QED BY <2>1, <2>2
<1>3. /\ SubSeq(s, n + 1, Len(s)) \in Seq(S)
      /\ Len(SubSeq(s, n + 1, Len(s))) = Len(s) - n
      /\ \A i \in 1 .. Len(s) - n : SubSeq(s, n + 1, Len(s))[i] = s[n + i]
  <2> DEFINE m == n + 1
             l == Len(s)
  <2>1. m \in Int /\ l \in Int /\ \A i \in m .. l : s[i] \in S
    BY <1>1
  <2>2. /\ SubSeq(s, m, l) \in Seq(S)
        /\ Len(SubSeq(s, m, l)) = IF m <= l THEN l - m + 1 ELSE 0
        /\ \A i \in 1 .. l - m + 1 : SubSeq(s, m, l)[i] = s[m + i - 1]
    <3> HIDE DEF m, l
    <3>. QED BY <2>1, SubSeqProperties
  <2>3. n \in Nat /\ l \in Nat /\ n <= l
    BY <1>1
  <2>4. /\ l - m + 1 = l - n
        /\ m <= l \/ l - n = 0
        /\ \A i \in 1 .. l - n : m + i - 1 = n + i
    <3> HIDE DEF l
    <3>. QED BY <2>3
  <2>5. /\ Len(SubSeq(s, m, l)) = l - n
        /\ \A i \in 1 .. l - n : SubSeq(s, m, l)[i] = s[n + i]
    <3> HIDE DEF l, m
    <3>. QED BY <2>2, <2>3, <2>4
  <2>. QED BY <2>2, <2>5
<1>. QED BY <1>2, <1>3

(* What get_range and put_range leave fits in the ring, also when the size *)
(* is not what it was.                                                     *)
LEMMA RetreatedFits ==
  ASSUME NEW q \in Seq(Any), Len(q) <= Capacity, NEW n \in 0 .. Buffer
  PROVE  /\ Retreated(q, n) \in Seq(Any) /\ Len(Retreated(q, n)) <= Capacity
         /\ n <= Len(q) => /\ Len(Retreated(q, n)) = Len(q) - n
                          /\ \A i \in 1 .. Len(q) - n : Retreated(q, n)[i] = q[n + i]
<1> USE SizesAssumption
<1>1. Len(q) \in Nat
  BY LenProperties
<1>2. CASE n <= Len(q)
  <2>1. n \in 0 .. Len(q) /\ Retreated(q, n) = SubSeq(q, n + 1, Len(q))
    BY <1>1, <1>2 DEF Retreated
  <2>. QED BY <1>1, <2>1, Parts
<1>3. CASE n > Len(q)
  <2> DEFINE old == [i \in 1 .. Capacity - n |-> Stale]
  <2>1. Capacity - n \in Nat /\ Stale \in Any
    BY DEF Any
  <2>2. old \in Seq(Any) /\ Len(old) = Capacity - n
    <3> HIDE DEF Any, Stale
    <3>. QED BY <2>1, IsASeq, LenProperties
  <2>3. Retreated(q, n) = old \o q
    BY <1>1, <1>3 DEF Retreated
  <2> HIDE DEF old
  <2>4. old \o q \in Seq(Any) /\ Len(old \o q) = Capacity - n + Len(q)
    BY <2>2, ConcatProperties
  <2>. QED BY <1>1, <1>3, <2>3, <2>4
<1>. QED BY <1>1, <1>2, <1>3

LEMMA BytesAreAny ==
  ASSUME NEW b \in Seq(Bytes)
  PROVE  b \in Seq(Any)
<1>1. b \in [1 .. Len(b) -> Bytes] /\ Len(b) \in Nat
  BY LenProperties
<1>2. \A i \in 1 .. Len(b) : b[i] \in Any
  BY <1>1 DEF Any
<1>3. b = [i \in 1 .. Len(b) |-> b[i]]
  BY <1>1
<1>. QED BY <1>1, <1>2, <1>3, IsASeq

LEMMA AdvancedFits ==
  ASSUME NEW q \in Seq(Any), Len(q) <= Capacity,
         NEW b \in Seq(Bytes), Len(b) <= Buffer
  PROVE  /\ Advanced(q, b) \in Seq(Any) /\ Len(Advanced(q, b)) <= Capacity
         /\ Advanced(q, b) = <<>> => q = <<>>
<1> USE SizesAssumption
<1>1. Len(q) \in Nat /\ Len(b) \in Nat /\ b \in Seq(Any) /\ Len(<<>>) = 0
  BY BytesAreAny, LenProperties, EmptySeq
<1>2. CASE Len(q) + Len(b) <= Capacity
  <2>1. Advanced(q, b) = q \o b
    BY <1>2 DEF Advanced
  <2>2. q \o b \in Seq(Any) /\ Len(q \o b) = Len(q) + Len(b)
    BY <1>1, ConcatProperties
  <2>3. q \o b = <<>> => q = <<>>
    BY <1>1, <2>2, EmptySeq
  <2>. QED BY <1>2, <2>1, <2>2, <2>3
<1>3. CASE ~ (Len(q) + Len(b) <= Capacity)
  <2> DEFINE n == Capacity - Len(q)
  <2>1. n \in 0 .. Len(b)
    BY <1>1, <1>3
  <2>2. Advanced(q, b) = SubSeq(b, n + 1, Len(b))
    BY <1>3 DEF Advanced
  <2>3. Len(b) - n > 0 /\ Len(b) - n <= Capacity
    BY <1>1, <1>3
  <2> HIDE DEF n
  <2>4. SubSeq(b, n + 1, Len(b)) \in Seq(Any) /\ Len(SubSeq(b, n + 1, Len(b))) = Len(b) - n
    BY <1>1, <2>1, Parts
  <2>5. Advanced(q, b) # <<>>
    <3>1. Len(Advanced(q, b)) # 0
      BY <1>1, <2>1, <2>2, <2>3, <2>4
    <3>. QED BY <3>1, EmptySeq
  <2>. QED BY <2>2, <2>3, <2>4, <2>5
<1>. QED BY <1>2, <1>3

-----------------------------------------------------------------------------
LEMMA Initially == Init => Inv
<1> SUFFICES ASSUME Init PROVE Inv
  OBVIOUS
<1> USE SizesAssumption, BoundsAssumption
<1>1. <<>> \in Seq(Bytes) /\ <<>> \in Seq(Bytes \cup {Stale}) /\ Len(<<>>) = 0
  BY EmptySeq
<1>2. FlagsType
  BY DEF Init, FlagsType
<1>3. CountersType
  BY DEF Init, CountersType
<1>4. ThreadsType
  BY <1>1 DEF Init, ThreadsType
<1>5. BytesType
  BY <1>1 DEF Init, BytesType
<1>6. Phases /\ Threads /\ CountersTell /\ Called /\ Steady
  BY <1>1 DEF Init, Phases, Threads, CountersTell, Called, Ending, Steady
<1>. QED BY <1>2, <1>3, <1>4, <1>5, <1>6 DEF Inv, TypeOK

(* The flags are truth values: every step sets one of them or leaves them. *)
LEMMA FlagsKeep ==
  ASSUME FlagsType, Next
  PROVE  FlagsType'
<1> USE DEF FlagsType, buffers
<1>1. CASE UucicoThread \/ ForkFails
  BY <1>1 DEF UucicoThread, ForkFails, Start, Fork, CloseTheirs, WaitChild, CloseRest,
              JoinReader, JoinWriter, AskClean, SessionOver, Close, Join
<1>2. CASE ReadThread
  BY <1>2 DEF ReadThread, ReadAsk, ReadSlow, ReadFast, ReadBytes, ReadEnd, ReadPut,
              ReadCopy, ReadCount, Reader
<1>3. CASE WriteThread \/ WriteBytes
  BY <1>3 DEF WriteThread, WriteAsk, WriteIdle, WriteTake, WriteCopy, WriteBytes, WriteEnd,
              WriteCount, Writer
<1>4. CASE ChildWrites \/ ChildEnds
  BY <1>4 DEF ChildWrites, ChildEnds
<1>5. CASE CallUucico \/ Disconnected \/ CleanUp \/ SendTest \/ SendCopy \/ Receive
  BY <1>5 DEF CallUucico, Disconnected, CleanUp, CleanLook, CleanIn, CleanOut, CleanDone,
              Clean, SendTest, SendCopy, Receive
<1>. QED BY <1>1, <1>2, <1>3, <1>4, <1>5 DEF Next

(* uucico_thread: what it does to the pipes and to the child comes in the  *)
(* order in which the other two threads may find it.                       *)
LEMMA MainKeeps ==
  ASSUME Inv, FlagsType', UucicoThread \/ ForkFails
  PROVE  Inv'
<1> USE DEF Inv, TypeOK, Main, counters, buffers, modem, pipes, history
<1>1. <<>> \in Seq(Bytes) /\ Len(<<>>) = 0
  BY EmptySeq
<1> USE SizesAssumption, BoundsAssumption
<1>2. CASE Start
  <2>1. ThreadsType' /\ BytesType'
    BY <1>1, <1>2 DEF Start, ThreadsType, BytesType
  <2>2. CountersType' /\ CountersTell' /\ Called'
    BY <1>2 DEF Start, CountersType, CountersTell, Called, Threads
  <2>3. Phases' /\ Threads' /\ Steady'
    BY <1>1, <1>2 DEF Start, Phases, Threads, Ending, Steady
  <2>. QED BY <2>1, <2>2, <2>3
<1>3. CASE Fork
  BY <1>3 DEF Fork, ThreadsType, BytesType, CountersType, CountersTell, Called, Phases,
              Threads, Steady
<1>4. CASE ForkFails
  BY <1>4 DEF ForkFails, ThreadsType, BytesType, CountersType, CountersTell, Called,
              Phases, Threads, Steady
<1>5. CASE CloseTheirs
  BY <1>5 DEF CloseTheirs, Close, ThreadsType, BytesType, CountersType, CountersTell,
              Called, Phases, Threads, Steady, PipeEnds
<1>6. CASE WaitChild
  BY <1>6 DEF WaitChild, ThreadsType, BytesType, CountersType, CountersTell, Called,
              Phases, Threads, Steady
<1>7. CASE CloseRest
  BY <1>7 DEF CloseRest, Close, ThreadsType, BytesType, CountersType, CountersTell,
              Called, Phases, Threads, Steady, PipeEnds
<1>8. CASE JoinReader
  BY <1>8 DEF JoinReader, Join, ThreadsType, BytesType, CountersType, CountersTell,
              Called, Phases, Threads, Steady
<1>9. CASE JoinWriter
  BY <1>9 DEF JoinWriter, Join, ThreadsType, BytesType, CountersType, CountersTell,
              Called, Phases, Threads, Steady
<1>10. CASE AskClean
  BY <1>10 DEF AskClean, ThreadsType, BytesType, CountersType, CountersTell, Called,
               Phases, Threads, Steady
<1>11. CASE SessionOver
  BY <1>11 DEF SessionOver, ThreadsType, BytesType, CountersType, CountersTell, Called,
               Phases, Threads, Steady
<1>. QED
  BY <1>2, <1>3, <1>4, <1>5, <1>6, <1>7, <1>8, <1>9, <1>10, <1>11 DEF UucicoThread

(* What a step of the reader has to show: it is where the others expect it *)
(* to be, it is counted when it is over, and it keeps the types.           *)
LEMMA ReaderMoves ==
  ASSUME Inv, FlagsType', NEW from, NEW STATE next, Reader(from, next),
         next \in [pc : {"ask", "slow", "read", "put", "copy", "count", "over"},
                   len : 0 .. Buffer, buf : Seq(Bytes)],
         Len(next.buf) <= Buffer,
         in_buffer' \in Seq(Any), Len(in_buffer') <= Capacity,
         output' \in Seq(Bytes), Len(output') <= PipeSize,
         main \in {"fork", "returned"} \/ child = "running" => next.pc \notin Ending,
         reader.pc # "over",
         session_counter_read' = IF next.pc = "over" THEN sessions ELSE sessions - 1
  PROVE  Inv'
<1> USE DEF Inv, TypeOK, Reader, modem
<1> USE SizesAssumption, BoundsAssumption
<1>1. ThreadsType'
  BY DEF ThreadsType
<1>2. BytesType'
  BY DEF BytesType, Any
<1>3. sessions # 0
  BY DEF Threads, CountersTell, ThreadsType
<1>4. CountersType' /\ CountersTell'
  BY <1>3 DEF CountersType, CountersTell, history
<1>5. Called'
  BY DEF Called, history
<1>6. Phases' /\ Threads' /\ Steady'
  BY DEF Phases, Threads, Steady
<1>. QED BY <1>1, <1>2, <1>4, <1>5, <1>6

(* The same for a step of the writer.                                      *)
LEMMA WriterMoves ==
  ASSUME Inv, FlagsType', NEW from, NEW STATE next, Writer(from, next),
         next \in [pc : {"ask", "idle", "take", "copy", "write", "count", "over"},
                   len : 0 .. Buffer],
         out_buffer' \in 0 .. Capacity,
         main \in {"fork", "returned"} \/ child = "running" => next.pc \notin Ending,
         writer.pc # "over",
         session_counter_write' = IF next.pc = "over" THEN sessions ELSE sessions - 1
  PROVE  Inv'
<1> USE DEF Inv, TypeOK, Writer, modem
<1> USE SizesAssumption, BoundsAssumption
<1>1. ThreadsType'
  BY DEF ThreadsType
<1>2. BytesType'
  BY DEF BytesType, Any
<1>3. sessions # 0
  BY DEF Threads, CountersTell, ThreadsType
<1>4. CountersType' /\ CountersTell'
  BY <1>3 DEF CountersType, CountersTell, history
<1>5. Called'
  BY DEF Called, history
<1>6. Phases' /\ Threads' /\ Steady'
  BY DEF Phases, Threads, Steady
<1>. QED BY <1>1, <1>2, <1>4, <1>5, <1>6

(* The reader ends only at an end or an error of its pipe, and there is    *)
(* neither while the child lives.                                          *)
LEMMA ReaderKeeps ==
  ASSUME Inv, FlagsType', ReadThread
  PROVE  Inv'
<1> USE SizesAssumption
<1>1. /\ <<>> \in Seq(Bytes)
      /\ in_buffer \in Seq(Any) /\ Len(in_buffer) <= Capacity /\ Len(in_buffer) \in Nat
      /\ output \in Seq(Bytes) /\ Len(output) <= PipeSize /\ Len(output) \in Nat
  BY EmptySeq, LenProperties DEF Inv, TypeOK, BytesType, Any
<1>2. /\ reader \in [pc : {"ask", "slow", "read", "put", "copy", "count", "over"},
                    len : 0 .. Buffer, buf : Seq(Bytes)]
      /\ reader.len \in 0 .. Buffer /\ reader.buf \in Seq(Bytes)
      /\ Len(reader.buf) \in Nat /\ Len(reader.buf) <= Buffer
  BY LenProperties DEF Inv, TypeOK, ThreadsType, Steady
<1>3. reader.pc # "over" => session_counter_read = sessions - 1
  BY DEF Inv, CountersTell
<1>4. CASE ReadAsk
  <2> DEFINE len == IF output = <<>> THEN 1 ELSE Least(Len(output), Buffer)
             next == [reader EXCEPT !.pc = "slow", !.len = len]
  <2>1. len \in 0 .. Buffer
    BY <1>1 DEF Least
  <2>2. /\ Reader("ask", next) /\ reader.pc = "ask"
        /\ UNCHANGED <<session_counter_read, in_buffer, torn, output>>
    BY <1>4 DEF ReadAsk, Reader
  <2> HIDE DEF len
  <2>3. /\ next \in [pc : {"ask", "slow", "read", "put", "copy", "count", "over"},
                     len : 0 .. Buffer, buf : Seq(Bytes)]
        /\ next.pc = "slow" /\ next.buf = reader.buf
    BY <1>2, <2>1
  <2> HIDE DEF next
  <2>. QED BY <1>1, <1>2, <1>3, <2>2, <2>3, ReaderMoves DEF Ending
<1>5. CASE ReadSlow
  <2> DEFINE next == [reader EXCEPT !.len = 1]
  <2>1. /\ Reader("slow", next) /\ reader.pc = "slow"
        /\ UNCHANGED <<session_counter_read, in_buffer, torn, output>>
    BY <1>5 DEF ReadSlow, Reader
  <2>2. /\ next \in [pc : {"ask", "slow", "read", "put", "copy", "count", "over"},
                     len : 0 .. Buffer, buf : Seq(Bytes)]
        /\ next.pc = "slow" /\ next.buf = reader.buf
    BY <1>2, <2>1
  <2> HIDE DEF next
  <2>. QED BY <1>1, <1>2, <1>3, <2>1, <2>2, ReaderMoves DEF Ending
<1>6. CASE ReadFast
  <2> DEFINE next == [reader EXCEPT !.pc = "read"]
  <2>1. /\ Reader("slow", next) /\ reader.pc = "slow"
        /\ UNCHANGED <<session_counter_read, in_buffer, torn, output>>
    BY <1>6 DEF ReadFast, Reader
  <2>2. /\ next \in [pc : {"ask", "slow", "read", "put", "copy", "count", "over"},
                     len : 0 .. Buffer, buf : Seq(Bytes)]
        /\ next.pc = "read" /\ next.buf = reader.buf
    BY <1>2
  <2> HIDE DEF next
  <2>. QED BY <1>1, <1>2, <1>3, <2>1, <2>2, ReaderMoves DEF Ending
<1>7. CASE ReadBytes
  <2> DEFINE n == Least(reader.len, Len(output))
             next == [pc |-> "put", len |-> 0, buf |-> SubSeq(output, 1, n)]
  <2>1. n \in 0 .. Len(output) /\ n <= Buffer
    BY <1>1, <1>2 DEF Least
  <2>2. /\ Reader("read", next) /\ reader.pc = "read"
        /\ output' = SubSeq(output, n + 1, Len(output))
        /\ UNCHANGED <<session_counter_read, in_buffer, torn>>
    BY <1>7 DEF ReadBytes, Reader
  <2> HIDE DEF n
  <2>3. /\ SubSeq(output, 1, n) \in Seq(Bytes) /\ Len(SubSeq(output, 1, n)) = n
        /\ SubSeq(output, n + 1, Len(output)) \in Seq(Bytes)
        /\ Len(SubSeq(output, n + 1, Len(output))) <= PipeSize
    BY <1>1, <2>1, Parts
  <2>4. /\ next \in [pc : {"ask", "slow", "read", "put", "copy", "count", "over"},
                     len : 0 .. Buffer, buf : Seq(Bytes)]
        /\ next.pc = "put" /\ Len(next.buf) <= Buffer
    BY <2>1, <2>3
  <2>5. output' \in Seq(Bytes) /\ Len(output') <= PipeSize
    BY <2>2, <2>3
  <2> HIDE DEF next
  <2>. QED BY <1>1, <1>3, <2>2, <2>4, <2>5, ReaderMoves DEF Ending
<1>8. CASE ReadEnd
  <2> DEFINE next == [reader EXCEPT !.pc = "count"]
  <2>1. /\ Reader("read", next) /\ reader.pc = "read"
        /\ UNCHANGED <<session_counter_read, in_buffer, torn, output>>
    BY <1>8 DEF ReadEnd, Reader
  <2>2. /\ next \in [pc : {"ask", "slow", "read", "put", "copy", "count", "over"},
                     len : 0 .. Buffer, buf : Seq(Bytes)]
        /\ next.pc = "count" /\ next.buf = reader.buf
    BY <1>2
  <2>3. ~ (main \in {"fork", "returned"} \/ child = "running")
    BY <1>8 DEF ReadEnd, Inv, Phases, PipeEnds
  <2> HIDE DEF next
  <2>. QED BY <1>1, <1>2, <1>3, <2>1, <2>2, <2>3, ReaderMoves
<1>9. CASE ReadPut
  <2> DEFINE next == [reader EXCEPT !.pc = "copy"]
  <2>1. /\ Reader("put", next) /\ reader.pc = "put"
        /\ UNCHANGED <<session_counter_read, in_buffer, torn, output>>
    BY <1>9 DEF ReadPut, Reader
  <2>2. /\ next \in [pc : {"ask", "slow", "read", "put", "copy", "count", "over"},
                     len : 0 .. Buffer, buf : Seq(Bytes)]
        /\ next.pc = "copy" /\ next.buf = reader.buf
    BY <1>2
  <2> HIDE DEF next
  <2>. QED BY <1>1, <1>2, <1>3, <2>1, <2>2, ReaderMoves DEF Ending
<1>11. CASE ReadCopy
  <2> DEFINE next == [reader EXCEPT !.pc = "ask", !.buf = <<>>]
  <2>1. /\ Reader("copy", next) /\ reader.pc = "copy"
        /\ in_buffer' = Advanced(in_buffer, reader.buf)
        /\ UNCHANGED <<session_counter_read, torn, output>>
    BY <1>11 DEF ReadCopy, Reader
  <2>2. /\ next \in [pc : {"ask", "slow", "read", "put", "copy", "count", "over"},
                     len : 0 .. Buffer, buf : Seq(Bytes)]
        /\ next.pc = "ask" /\ next.buf = <<>> /\ Len(next.buf) <= Buffer
    <3>1. /\ next \in [pc : {"ask", "slow", "read", "put", "copy", "count", "over"},
                       len : 0 .. Buffer, buf : Seq(Bytes)]
          /\ next.pc = "ask" /\ next.buf = <<>>
      BY <1>1, <1>2
    <3>2. Len(<<>>) <= Buffer
      BY EmptySeq
    <3> HIDE DEF next
    <3>. QED BY <3>1, <3>2
  <2>3. in_buffer' \in Seq(Any) /\ Len(in_buffer') <= Capacity
    BY <1>1, <1>2, <2>1, AdvancedFits
  <2> HIDE DEF next
  <2>. QED BY <1>1, <1>3, <2>1, <2>2, <2>3, ReaderMoves DEF Ending
<1>10. CASE ReadCount
  <2> DEFINE next == [reader EXCEPT !.pc = "over"]
  <2>1. /\ Reader("count", next) /\ reader.pc = "count"
        /\ session_counter_read' = session_counter_read + 1
        /\ UNCHANGED <<in_buffer, torn, output>>
    BY <1>10 DEF ReadCount, Reader
  <2>2. /\ next \in [pc : {"ask", "slow", "read", "put", "copy", "count", "over"},
                     len : 0 .. Buffer, buf : Seq(Bytes)]
        /\ next.pc = "over" /\ next.buf = reader.buf
    BY <1>2
  <2>3. ~ (main \in {"fork", "returned"} \/ child = "running")
    BY <2>1 DEF Inv, Threads, Ending
  <2>4. session_counter_read' = sessions
    BY <1>3, <2>1 DEF Inv, TypeOK, CountersType
  <2> HIDE DEF next
  <2>. QED BY <1>1, <1>2, <2>1, <2>2, <2>3, <2>4, ReaderMoves
<1>. QED BY <1>4, <1>5, <1>6, <1>7, <1>8, <1>9, <1>10, <1>11 DEF ReadThread

(* The writer ends at an error, which a living child excludes, or when the *)
(* reader has been counted and it has not: not before the reader has ended *)
(* in this session, for the counters were equal when it began.             *)
LEMMA WriterKeeps ==
  ASSUME Inv, FlagsType', WriteThread \/ WriteBytes
  PROVE  Inv'
<1> USE SizesAssumption
<1>1. /\ writer \in [pc : {"ask", "idle", "take", "copy", "write", "count", "over"},
                    len : 0 .. Buffer]
      /\ writer.len \in 0 .. Buffer
      /\ out_buffer \in 0 .. Capacity
  BY DEF Inv, TypeOK, ThreadsType, BytesType
<1>2. writer.pc # "over" => session_counter_write = sessions - 1
  BY DEF Inv, CountersTell
<1> DEFINE at(pc) == [writer EXCEPT !.pc = pc]
<1>3. \A pc \in {"ask", "idle", "take", "copy", "write", "count", "over"} :
        /\ at(pc) \in [pc : {"ask", "idle", "take", "copy", "write", "count", "over"},
                       len : 0 .. Buffer]
        /\ at(pc).pc = pc
  BY <1>1
<1>4. CASE WriteAsk
  <2> DEFINE next == IF out_buffer = 0 THEN at("idle")
                     ELSE [pc |-> "take", len |-> Least(out_buffer, Buffer)]
  <2>1. /\ Writer("ask", next) /\ writer.pc = "ask"
        /\ UNCHANGED <<session_counter_write, out_buffer>>
    BY <1>4 DEF WriteAsk, Writer
  <2>2. Least(out_buffer, Buffer) \in 0 .. Buffer
    BY <1>1 DEF Least
  <2>3. /\ next \in [pc : {"ask", "idle", "take", "copy", "write", "count", "over"},
                     len : 0 .. Buffer]
        /\ next.pc \in {"idle", "take"}
    BY <1>3, <2>2
  <2> HIDE DEF next
  <2>. QED BY <1>1, <1>2, <2>1, <2>3, WriterMoves DEF Ending
<1>5. CASE WriteIdle
  <2> DEFINE next == at(IF session_counter_read > session_counter_write
                        THEN "count" ELSE "ask")
  <2>1. /\ Writer("idle", next) /\ writer.pc = "idle"
        /\ UNCHANGED <<session_counter_write, out_buffer>>
    BY <1>5 DEF WriteIdle, Writer
  <2>2. /\ next \in [pc : {"ask", "idle", "take", "copy", "write", "count", "over"},
                     len : 0 .. Buffer]
        /\ next.pc = IF session_counter_read > session_counter_write
                     THEN "count" ELSE "ask"
    BY <1>3
  <2>3. main \in {"fork", "returned"} \/ child = "running" =>
          ~ session_counter_read > session_counter_write
    BY <1>2, <2>1 DEF Inv, TypeOK, CountersType, CountersTell, Threads, Ending
  <2> HIDE DEF next
  <2>. QED BY <1>1, <1>2, <2>1, <2>2, <2>3, WriterMoves DEF Ending
<1>6. CASE WriteTake
  <2> DEFINE next == at(IF out_buffer >= writer.len THEN "copy" ELSE "write")
  <2>1. /\ Writer("take", next) /\ writer.pc = "take"
        /\ UNCHANGED <<session_counter_write, out_buffer>>
    BY <1>6 DEF WriteTake, Writer
  <2>2. /\ next \in [pc : {"ask", "idle", "take", "copy", "write", "count", "over"},
                     len : 0 .. Buffer]
        /\ next.pc \in {"copy", "write"}
    BY <1>3
  <2> HIDE DEF next
  <2>. QED BY <1>1, <1>2, <2>1, <2>2, WriterMoves DEF Ending
<1>10. CASE WriteCopy
  <2> DEFINE next == at("write")
  <2>1. /\ Writer("copy", next) /\ writer.pc = "copy"
        /\ UNCHANGED session_counter_write
    BY <1>10 DEF WriteCopy, Writer
  <2>2. out_buffer' \in 0 .. Capacity
    BY <1>1, <1>10 DEF WriteCopy
  <2>3. /\ next \in [pc : {"ask", "idle", "take", "copy", "write", "count", "over"},
                     len : 0 .. Buffer]
        /\ next.pc = "write"
    BY <1>3
  <2> HIDE DEF next
  <2>. QED BY <1>1, <1>2, <2>1, <2>2, <2>3, WriterMoves DEF Ending
<1>7. CASE WriteBytes
  <2> DEFINE next == [pc |-> "ask", len |-> 0]
  <2>1. /\ Writer("write", next) /\ writer.pc = "write"
        /\ UNCHANGED <<session_counter_write, out_buffer>>
    BY <1>7 DEF WriteBytes, Writer
  <2>2. /\ next \in [pc : {"ask", "idle", "take", "copy", "write", "count", "over"},
                     len : 0 .. Buffer]
        /\ next.pc = "ask"
    OBVIOUS
  <2> HIDE DEF next
  <2>. QED BY <1>1, <1>2, <2>1, <2>2, WriterMoves DEF Ending
<1>8. CASE WriteEnd
  <2> DEFINE next == at("count")
  <2>1. /\ Writer("write", next) /\ writer.pc = "write"
        /\ UNCHANGED <<session_counter_write, out_buffer>>
    BY <1>8 DEF WriteEnd, Writer
  <2>2. ~ (main \in {"fork", "returned"} \/ child = "running")
    BY <1>8 DEF WriteEnd, CanBeRead, Inv, Phases, PipeEnds
  <2>3. /\ next \in [pc : {"ask", "idle", "take", "copy", "write", "count", "over"},
                     len : 0 .. Buffer]
        /\ next.pc = "count"
    BY <1>3
  <2> HIDE DEF next
  <2>. QED BY <1>1, <1>2, <2>1, <2>2, <2>3, WriterMoves
<1>9. CASE WriteCount
  <2> DEFINE next == at("over")
  <2>1. /\ Writer("count", next) /\ writer.pc = "count"
        /\ session_counter_write' = session_counter_write + 1
        /\ UNCHANGED out_buffer
    BY <1>9 DEF WriteCount, Writer
  <2>2. ~ (main \in {"fork", "returned"} \/ child = "running")
    BY <2>1 DEF Inv, Threads, Ending
  <2>3. /\ next \in [pc : {"ask", "idle", "take", "copy", "write", "count", "over"},
                     len : 0 .. Buffer]
        /\ next.pc = "over"
    BY <1>3
  <2>4. session_counter_write' = sessions
    BY <1>2, <2>1 DEF Inv, TypeOK, CountersType
  <2> HIDE DEF next
  <2>. QED BY <1>1, <2>1, <2>2, <2>3, <2>4, WriterMoves
<1>. QED BY <1>4, <1>5, <1>6, <1>7, <1>8, <1>9, <1>10 DEF WriteThread

LEMMA OthersKeep ==
  ASSUME Inv, FlagsType',
         \/ ChildWrites \/ ChildEnds
         \/ CallUucico \/ Disconnected \/ CleanUp \/ SendTest \/ SendCopy \/ Receive
  PROVE  Inv'
<1> USE DEF Inv, TypeOK, counters, buffers, modem, pipes, history, Modem
<1> USE SizesAssumption, BoundsAssumption
<1>1. <<>> \in Seq(Bytes) /\ Len(<<>>) = 0 /\ Len(in_buffer) \in Nat /\ Len(output) \in Nat
  BY EmptySeq, LenProperties DEF BytesType
<1>2. CASE ChildWrites
  <2>1. <<sessions, wrote + 1>> \in Bytes
    BY <1>2 DEF ChildWrites, Bytes, BytesType, CountersType, CountersTell, Phases
  <2>2. /\ Append(output, <<sessions, wrote + 1>>) \in Seq(Bytes)
        /\ Len(Append(output, <<sessions, wrote + 1>>)) = Len(output) + 1
    BY <2>1, AppendProperties DEF BytesType
  <2>3. BytesType'
    BY <1>1, <1>2, <2>2 DEF ChildWrites, BytesType
  <2>. QED
    BY <1>2, <2>3 DEF ChildWrites, ThreadsType, CountersType, CountersTell, Called,
       Phases, Threads, Steady
<1>4. CASE ChildEnds
  BY <1>4 DEF ChildEnds, ThreadsType, BytesType, CountersType, CountersTell, Called,
              Phases, Threads, Steady
<1>5. CASE CallUucico
  BY <1>5 DEF CallUucico, ThreadsType, BytesType, CountersType, CountersTell, Called,
              Phases, Threads, Steady
<1>6. CASE Disconnected
  BY <1>6 DEF Disconnected, ThreadsType, BytesType, CountersType, CountersTell, Called,
              Phases, Threads, Steady
<1>7. CASE CleanUp
  <2>1. <<>> \in Seq(Bytes \cup {Stale})
    BY EmptySeq
  <2>2. BytesType' /\ ThreadsType' /\ Steady'
    <3>1. CASE CleanLook \/ CleanDone
      BY <3>1 DEF CleanLook, CleanDone, Clean, ThreadsType, BytesType, Steady
    <3>2. CASE CleanIn("in", "out") \/ CleanIn("again", "last")
      <4>1. /\ in_buffer' \in Seq(Bytes \cup {Stale}) /\ Len(in_buffer') <= Capacity
            /\ UNCHANGED <<output, out_buffer, wrote>>
        <5>1. in_buffer' = <<>> /\ UNCHANGED <<output, out_buffer, wrote>>
          BY <3>2 DEF CleanIn, Clean
        <5>2. Len(in_buffer') = 0
          BY <5>1, EmptySeq
        <5>. QED BY <2>1, <5>1, <5>2
      <4>2. BytesType'
        BY <4>1 DEF BytesType
      <4>. QED BY <3>2, <4>2 DEF CleanIn, Clean, ThreadsType, Steady
    <3>3. CASE CleanOut("out", "again") \/ CleanOut("last", "done")
      BY <3>3 DEF CleanOut, Clean, ThreadsType, BytesType, Steady
    <3>. QED BY <1>7, <3>1, <3>2, <3>3 DEF CleanUp
  <2>3. UNCHANGED <<uucico_active, main>>
    BY <1>7 DEF CleanUp, CleanLook, CleanIn, CleanOut, CleanDone, Clean
  <2>4. UNCHANGED <<counters, reader, writer, pipes, child, wrote, history>>
    BY <1>7 DEF CleanUp, CleanLook, CleanIn, CleanOut, CleanDone, Clean
  <2>. QED
    BY <2>2, <2>3, <2>4 DEF CountersType, CountersTell, Called, Phases, Threads
<1>3. CASE SendTest
  <2>1. sender' \in 0 .. Buffer
    BY <1>1, <1>3 DEF SendTest, Least
  <2>2. UNCHANGED <<uucico_active, clean_buffers, buffers, cleaner>> /\ Modem
    BY <1>3 DEF SendTest
  <2>3. ThreadsType' /\ BytesType' /\ Steady'
    BY <2>1, <2>2 DEF ThreadsType, BytesType, Steady
  <2>. QED
    BY <2>2, <2>3 DEF CountersType, CountersTell, Called, Phases, Threads
<1>8. CASE SendCopy
  <2>1. sender \in 0 .. Buffer /\ in_buffer \in Seq(Any) /\ Len(in_buffer) <= Capacity
    BY DEF ThreadsType, BytesType, Any
  <2>2. in_buffer' \in Seq(Any) /\ Len(in_buffer') <= Capacity
    BY <1>8, <2>1, RetreatedFits DEF SendCopy
  <2>3. BytesType'
    BY <1>8, <2>2 DEF SendCopy, BytesType, Any
  <2>. QED
    BY <1>8, <2>3 DEF SendCopy, ThreadsType, CountersType, CountersTell, Called, Phases,
       Threads, Steady
<1>9. CASE Receive
  BY <1>9 DEF Receive, ThreadsType, BytesType, CountersType, CountersTell, Called,
              Phases, Threads, Steady
<1>. QED BY <1>2, <1>3, <1>4, <1>5, <1>6, <1>7, <1>8, <1>9

LEMMA NextKeeps == Inv /\ [Next]_vars => Inv'
<1> SUFFICES ASSUME Inv, [Next]_vars PROVE Inv'
  OBVIOUS
<1>1. CASE Next
  <2>1. FlagsType'
    BY <1>1, FlagsKeep DEF Inv, TypeOK
  <2>. QED
    BY <1>1, <2>1, MainKeeps, ReaderKeeps, WriterKeeps, OthersKeep DEF Next
<1>2. CASE UNCHANGED vars
  BY <1>2 DEF vars, counters, buffers, modem, pipes, history, Steady, Inv, TypeOK, FlagsType,
              CountersType, ThreadsType, BytesType, Phases, Threads, CountersTell, Called
<1>. QED BY <1>1, <1>2

LEMMA Invariance == Spec => []Inv
BY Initially, NextKeeps, PTL DEF Spec

-----------------------------------------------------------------------------
(* The order of the child's bytes.                                         *)
LEMMA Joined ==
  ASSUME NEW s \in Seq(Any), NEW b \in Seq(Any), Ordered(s), Ordered(b),
         s # <<>> /\ b # <<>> => Follows(s[Len(s)], b[1])
  PROVE  /\ s \o b \in Seq(Any) /\ Ordered(s \o b)
         /\ b = <<>> => s \o b = s
         /\ b # <<>> => s \o b # <<>> /\ (s \o b)[Len(s \o b)] = b[Len(b)]
<1> DEFINE c == s \o b
<1>1. /\ c \in Seq(Any) /\ Len(c) = Len(s) + Len(b) /\ Len(s) \in Nat /\ Len(b) \in Nat
      /\ \A i \in 1 .. Len(s) : c[i] = s[i]
      /\ \A i \in 1 .. Len(b) : c[Len(s) + i] = b[i]
      /\ (b # <<>> => Len(b) # 0) /\ (s # <<>> => Len(s) # 0) /\ Len(<<>>) = 0
  <2>1. c \in Seq(Any) /\ Len(c) = Len(s) + Len(b) /\ Len(s) \in Nat /\ Len(b) \in Nat
    BY ConcatProperties, LenProperties
  <2>2. \A i \in 1 .. Len(s) + Len(b) : c[i] = IF i <= Len(s) THEN s[i] ELSE b[i - Len(s)]
    BY ConcatProperties
  <2>3. (b # <<>> => Len(b) # 0) /\ (s # <<>> => Len(s) # 0) /\ Len(<<>>) = 0
    BY EmptySeq
  <2> HIDE DEF c
  <2>4. \A i \in 1 .. Len(s) : c[i] = s[i]
    BY <2>1, <2>2
  <2>5. ASSUME NEW i \in 1 .. Len(b) PROVE c[Len(s) + i] = b[i]
    <3>1. Len(s) + i \in 1 .. Len(s) + Len(b) /\ ~ (Len(s) + i <= Len(s))
          /\ Len(s) + i - Len(s) = i
      BY <2>1
    <3>. QED BY <2>2, <3>1
  <2>. QED BY <2>1, <2>3, <2>4, <2>5
<1>2. b = <<>> => c = s
  BY ConcatEmptySeq
<1> HIDE DEF c
<1>3. b # <<>> => c # <<>> /\ c[Len(c)] = b[Len(b)]
  BY <1>1
<1>4. ASSUME NEW i \in 2 .. Len(c) PROVE Follows(c[i - 1], c[i])
  <2>1. CASE i <= Len(s)
    <3>1. i \in 2 .. Len(s) /\ i - 1 \in 1 .. Len(s) /\ i \in 1 .. Len(s)
      BY <1>1, <2>1
    <3>2. Follows(s[i - 1], s[i])
      BY <3>1 DEF Ordered
    <3>. QED BY <1>1, <3>1, <3>2
  <2>2. CASE i = Len(s) + 1
    <3>1. Len(s) \in 1 .. Len(s) /\ 1 \in 1 .. Len(b) /\ i - 1 = Len(s) /\ s # <<>> /\ b # <<>>
      BY <1>1, <2>2
    <3>2. c[i - 1] = s[Len(s)] /\ c[i] = b[1]
      BY <1>1, <2>2, <3>1
    <3>. QED BY <3>1, <3>2
  <2>3. CASE i > Len(s) + 1
    <3> DEFINE j == i - Len(s)
    <3>1. j \in 2 .. Len(b) /\ j - 1 \in 1 .. Len(b) /\ j \in 1 .. Len(b)
          /\ Len(s) + j = i /\ Len(s) + (j - 1) = i - 1
      BY <1>1, <2>3
    <3> HIDE DEF j
    <3>2. c[i] = b[j] /\ c[i - 1] = b[j - 1]
      BY <1>1, <3>1
    <3>3. Follows(b[j - 1], b[j])
      BY <3>1 DEF Ordered
    <3>. QED BY <3>2, <3>3
  <2>. QED BY <1>1, <2>1, <2>2, <2>3
<1>. QED BY <1>1, <1>2, <1>3, <1>4 DEF Ordered, c

LEMMA RunOrdered ==
  ASSUME NEW s \in Seq(Bytes), NEW k \in Nat, Run(s, k)
  PROVE  Ordered(s)
<1> SUFFICES ASSUME NEW i \in 2 .. Len(s) PROVE Follows(s[i - 1], s[i])
  BY DEF Ordered
<1>1. Len(s) \in Nat
  BY LenProperties
<1>2. i - 1 \in 1 .. Len(s) /\ i \in 1 .. Len(s) /\ k + i = (k + (i - 1)) + 1
  BY <1>1
<1>3. s[i - 1] = <<sessions, k + (i - 1)>> /\ s[i] = <<sessions, k + i>>
  BY <1>2 DEF Run
<1>. QED BY <1>2, <1>3 DEF Follows

(* A step that leaves the stream alone.                                    *)
LEMMA StreamUntouched ==
  ASSUME OutputFollows, UNCHANGED <<wrote, output, in_buffer, torn, sessions>>,
         reader'.buf = reader.buf, reader'.pc = "copy" => reader.pc = "copy",
         reader'.pc \notin {"put", "copy"} => reader.pc \notin {"put", "copy"}
  PROVE  OutputFollows'
<1>1. Passed' = Passed
  BY DEF Passed
<1>2. Run(reader.buf, Passed)' /\ Run(output, Passed + Len(reader.buf))'
  <2>1. /\ \A i \in 1 .. Len(reader.buf) : reader.buf[i] = <<sessions, Passed + i>>
        /\ \A i \in 1 .. Len(output) :
             output[i] = <<sessions, Passed + Len(reader.buf) + i>>
    BY DEF OutputFollows, Run
  <2>. QED BY <1>1, <2>1 DEF Run
<1>3. Whole => Whole'
  BY <1>1 DEF Whole, Ordered, LastIsPassed
<1>4. reader'.pc \notin {"put", "copy"} => reader'.buf = <<>>
  BY DEF OutputFollows
<1>. QED BY <1>1, <1>2, <1>3, <1>4 DEF OutputFollows

LEMMA MainFollows ==
  ASSUME Inv, OutputFollows, UucicoThread \/ ForkFails
  PROVE  OutputFollows'
<1>1. CASE Start
  <2>1. wrote' = 0 /\ output' = <<>> /\ reader'.buf = <<>> /\ reader'.pc = "ask"
        /\ sessions' = sessions + 1 /\ UNCHANGED <<in_buffer, torn>>
    BY <1>1 DEF Start, buffers
  <2>2. sessions \in Nat /\ in_buffer \in Seq(Any)
    BY BoundsAssumption DEF Inv, TypeOK, CountersType, BytesType, Any
  <2>3. Passed' = 0 /\ Run(reader.buf, Passed)' /\ Run(output, Passed + Len(reader.buf))'
    <3>1. Len(output') = 0 /\ Len(reader'.buf) = 0
      BY <2>1, EmptySeq
    <3>2. Passed' = wrote' - Len(output') - Len(reader'.buf)
      BY DEF Passed
    <3>3. Passed' = 0
      BY <2>1, <3>1, <3>2
    <3>. QED BY <3>1, <3>3 DEF Run
  <2>4. Whole /\ in_buffer # <<>> => LastIsPassed'
    <3>1. ASSUME Whole, in_buffer # <<>>
          PROVE  in_buffer[Len(in_buffer)][1] < sessions'
      <4>1. in_buffer[Len(in_buffer)] \in Any
        BY <2>2, <3>1, EmptySeq, LenProperties
      <4>2. in_buffer[Len(in_buffer)][1] \in Nat
        BY <4>1, BoundsAssumption DEF Bytes, Any, Stale
      <4>3. in_buffer[Len(in_buffer)][1] <= sessions
        BY <2>2, <3>1, <4>2 DEF Whole, LastIsPassed
      <4> HIDE DEF OutputFollows
      <4>. QED BY <2>1, <2>2, <4>2, <4>3
    <3>. QED BY <2>1, <2>3, <3>1 DEF LastIsPassed
  <2>. QED BY <2>1, <2>3, <2>4 DEF OutputFollows, Whole, Ordered
<1>2. CASE ForkFails \/ (UucicoThread /\ ~ Start)
  <2>1. UNCHANGED <<wrote, output, in_buffer, torn, sessions, reader>>
    BY <1>2 DEF UucicoThread, ForkFails, Fork, CloseTheirs, WaitChild, CloseRest, JoinReader,
                JoinWriter, AskClean, SessionOver, Close, Join, buffers, pipes, history
  <2>. QED BY <2>1, StreamUntouched
<1>. QED BY <1>1, <1>2

(* The reader takes the front of the pipe, and puts it behind what it put. *)
LEMMA ReaderFollows ==
  ASSUME Inv, OutputFollows, ReadThread
  PROVE  OutputFollows'
<1>1. /\ in_buffer \in Seq(Any) /\ output \in Seq(Bytes) /\ reader.buf \in Seq(Bytes)
      /\ Len(output) \in Nat /\ Len(reader.buf) \in Nat /\ reader.len \in Nat /\ wrote \in Nat
      /\ sessions \in Nat
      /\ Len(in_buffer) \in Nat
  BY LenProperties, SizesAssumption, BoundsAssumption
     DEF Inv, TypeOK, BytesType, ThreadsType, CountersType, Any
<1>2. reader \in [pc : {"ask", "slow", "read", "put", "copy", "count", "over"}, len : 0 .. Buffer,
                  buf : Seq(Bytes)]
  BY DEF Inv, TypeOK, ThreadsType
<1>3. UNCHANGED <<wrote, sessions>>
  BY DEF ReadThread, ReadAsk, ReadSlow, ReadFast, ReadBytes, ReadEnd, ReadPut, ReadCopy,
         ReadCount, Reader, history
<1>4. CASE ReadAsk \/ ReadSlow \/ ReadFast \/ ReadEnd \/ ReadCount
  <2>1. UNCHANGED <<output, in_buffer, torn>>
    BY <1>4 DEF ReadAsk, ReadSlow, ReadFast, ReadEnd, ReadCount
  <2>2. reader'.buf = reader.buf /\ {reader.pc, reader'.pc} \cap {"put", "copy"} = {}
    BY <1>2, <1>4 DEF ReadAsk, ReadSlow, ReadFast, ReadEnd, ReadCount, Reader
  <2>. QED BY <1>3, <2>1, <2>2, StreamUntouched
<1>5. CASE ReadBytes
  <2> DEFINE n == Least(reader.len, Len(output))
             front == SubSeq(output, 1, n)
             rest == SubSeq(output, n + 1, Len(output))
  <2>1. n \in 0 .. Len(output)
    BY <1>1 DEF Least
  <2>2. /\ reader.pc = "read" /\ reader'.pc = "put" /\ reader'.buf = front /\ output' = rest
        /\ UNCHANGED <<in_buffer, torn>>
    BY <1>2, <1>5 DEF ReadBytes, Reader
  <2> HIDE DEF n
  <2>3. /\ Len(front) = n /\ Len(rest) = Len(output) - n
        /\ \A i \in 1 .. n : front[i] = output[i]
        /\ \A i \in 1 .. Len(output) - n : rest[i] = output[n + i]
    <3>1. output \in Seq(Bytes)
      BY <1>1
    <3>. QED BY <2>1, <3>1, Parts
  <2> HIDE DEF front, rest
  <2>4. Len(reader.buf) = 0
    BY <2>2, EmptySeq DEF OutputFollows
  <2>5. Passed' = Passed /\ Passed \in Nat
    BY <1>1, <1>3, <2>1, <2>2, <2>3, <2>4 DEF Passed, OutputFollows
  <2>6. \A i \in 1 .. Len(output) : output[i] = <<sessions, Passed + i>>
    BY <2>4, <2>5 DEF OutputFollows, Run
  <2>7. Run(reader.buf, Passed)'
    <3>1. ASSUME NEW i \in 1 .. n PROVE front[i] = <<sessions, Passed + i>>
      <4>1. i \in 1 .. Len(output)
        BY <1>1, <2>1
      <4>. QED BY <2>3, <2>6, <4>1
    <3>. QED BY <1>3, <2>2, <2>3, <2>5, <3>1 DEF Run
  <2>8. Run(output, Passed + Len(reader.buf))'
    <3>1. ASSUME NEW i \in 1 .. Len(output) - n PROVE rest[i] = <<sessions, Passed + n + i>>
      <4>1. n + i \in 1 .. Len(output) /\ Passed + (n + i) = Passed + n + i
        BY <1>1, <2>1, <2>5
      <4>. QED BY <2>3, <2>6, <4>1
    <3>. QED BY <1>3, <2>2, <2>3, <2>5, <3>1 DEF Run
  <2>9. Whole => Whole'
    BY <1>3, <2>2, <2>5 DEF Whole, Ordered, LastIsPassed
  <2>. QED BY <2>2, <2>5, <2>7, <2>8, <2>9 DEF OutputFollows
<1>6. CASE ReadPut
  <2>1. /\ reader.pc = "put" /\ reader'.pc = "copy" /\ reader'.buf = reader.buf
        /\ UNCHANGED <<output, in_buffer, torn>>
        /\ Capacity - Len(in_buffer) >= Len(reader.buf)
    BY <1>2, <1>6 DEF ReadPut, Reader
  <2>2. Passed' = Passed
    BY <1>3, <2>1 DEF Passed
  <2>3. Run(reader.buf, Passed)' /\ Run(output, Passed + Len(reader.buf))'
    BY <1>3, <2>1, <2>2 DEF OutputFollows, Run
  <2>4. Whole => Whole'
    BY <1>1, <1>3, <2>1, <2>2, SizesAssumption DEF Whole, Ordered, LastIsPassed
  <2>. QED BY <2>1, <2>2, <2>3, <2>4 DEF OutputFollows
<1>7. CASE ReadCopy
  <2> DEFINE b == reader.buf
             k == Len(b)
  <2>1. /\ reader.pc = "copy" /\ reader'.pc = "ask" /\ reader'.buf = <<>>
        /\ UNCHANGED <<output, torn>>
        /\ in_buffer' = Advanced(in_buffer, b)
    BY <1>2, <1>7 DEF ReadCopy, Reader
  <2>2. /\ Passed \in Nat /\ Run(b, Passed) /\ Run(output, Passed + k)
        /\ b \in Seq(Bytes) /\ b \in Seq(Any) /\ k \in Nat
    BY <1>1, BytesAreAny DEF OutputFollows
  <2>3. b # <<>> => k # 0 /\ b[1] = <<sessions, Passed + 1>> /\ b[k] = <<sessions, Passed + k>>
    <3>1. b # <<>> => k # 0
      BY <2>2, EmptySeq
    <3> HIDE DEF b
    <3>. QED BY <2>2, <3>1 DEF Run
  <2>4. Len(reader'.buf) = 0 /\ Passed' = Passed + k
    <3>1. Len(reader'.buf) = 0
      BY <2>1, EmptySeq
    <3>2. Passed = wrote - Len(output) - k
      BY DEF Passed
    <3>3. Passed' = wrote - Len(output) - 0
      BY <1>3, <2>1, <3>1 DEF Passed
    <3> HIDE DEF k
    <3>. QED BY <1>1, <2>2, <3>1, <3>2, <3>3
  <2>5. Ordered(b)
    BY <2>2, RunOrdered
  <2>6. Run(reader.buf, Passed)' /\ Run(output, Passed + Len(reader.buf))'
    <3>1. Passed' + 0 = Passed + k
      BY <2>2, <2>4
    <3>. QED BY <1>3, <2>1, <2>2, <2>4, <3>1 DEF Run
  <2>7. Passed' \in Nat
    BY <2>2, <2>4
  <2>8. ASSUME Whole PROVE Whole'
    <3>1. Advanced(in_buffer, b) = in_buffer \o b
      BY <2>1, <2>8 DEF Whole, Advanced
    <3> HIDE DEF b
    <3>2. ASSUME in_buffer # <<>>, b # <<>> PROVE Follows(in_buffer[Len(in_buffer)], b[1])
      <4>1. CASE Passed = 0
        BY <2>2, <2>3, <2>8, <3>2, <4>1, <1>1 DEF Whole, LastIsPassed, Follows
      <4>2. CASE Passed # 0
        BY <2>2, <2>3, <2>8, <3>2, <4>2 DEF Whole, LastIsPassed, Follows
      <4>. QED BY <4>1, <4>2
    <3>3. /\ Ordered(in_buffer') /\ (b = <<>> => in_buffer' = in_buffer)
          /\ b # <<>> => in_buffer'[Len(in_buffer')] = b[k]
      BY <1>1, <2>1, <2>2, <2>5, <2>8, <3>1, <3>2, Joined DEF Whole
    <3>4. in_buffer' # <<>> => LastIsPassed'
      <4>1. CASE b = <<>>
        <5>1. Passed' = Passed
          BY <2>2, <2>4, <4>1, EmptySeq
        <5>. QED BY <1>3, <2>8, <3>3, <4>1, <5>1 DEF Whole, LastIsPassed
      <4>2. CASE b # <<>>
        <5>1. Passed' # 0
          BY <2>2, <2>3, <2>4, <4>2
        <5>. QED BY <1>3, <2>3, <2>4, <3>3, <4>2, <5>1 DEF LastIsPassed
      <4>. QED BY <4>1, <4>2
    <3>. QED BY <2>1, <3>3, <3>4 DEF Whole, Ordered
  <2>. QED BY <2>1, <2>6, <2>7, <2>8 DEF OutputFollows
<1>. QED BY <1>4, <1>5, <1>6, <1>7 DEF ReadThread

(* What is sent or thrown away is the front of in_buffer, or all of it.    *)
LEMMA OthersFollow ==
  ASSUME Inv, OutputFollows,
         \/ WriteThread \/ WriteBytes \/ ChildWrites \/ ChildEnds
         \/ CallUucico \/ Disconnected \/ CleanUp \/ SendTest \/ SendCopy \/ Receive
  PROVE  OutputFollows'
<1>1. /\ in_buffer \in Seq(Any) /\ output \in Seq(Bytes) /\ Len(in_buffer) \in Nat
      /\ Len(output) \in Nat /\ wrote \in Nat /\ Passed \in Nat
      /\ Len(reader.buf) \in Nat
  BY LenProperties, BoundsAssumption DEF Any, Inv, TypeOK, BytesType, ThreadsType, OutputFollows
<1>2. CASE \/ WriteThread \/ WriteBytes \/ ChildEnds \/ CallUucico \/ Disconnected
           \/ SendTest \/ Receive
  <2>1. UNCHANGED <<wrote, output, in_buffer, torn, sessions, reader>>
    BY <1>2 DEF WriteThread, WriteAsk, WriteIdle, WriteTake, WriteCopy, WriteBytes, WriteEnd,
                WriteCount, Writer, ChildEnds, CallUucico, Disconnected, SendTest, Receive,
                Modem, buffers, pipes, history
  <2>. QED BY <2>1, StreamUntouched
<1>3. CASE ChildWrites
  <2> DEFINE byte == <<sessions, wrote + 1>>
  <2>1. /\ wrote' = wrote + 1 /\ output' = Append(output, byte)
        /\ UNCHANGED <<in_buffer, torn, sessions, reader>>
    BY <1>3 DEF ChildWrites, buffers, history
  <2>2. byte \in Bytes
    BY <1>3, BoundsAssumption
       DEF ChildWrites, Bytes, Inv, TypeOK, BytesType, CountersType, CountersTell, Phases
  <2>3. /\ Len(output') = Len(output) + 1
        /\ \A i \in 1 .. Len(output) : output'[i] = output[i]
        /\ output'[Len(output) + 1] = byte
    <3> HIDE DEF byte
    <3>. QED BY <1>1, <2>1, <2>2, AppendProperties
  <2>4. Passed' = Passed
    <3>1. Passed' = wrote' - Len(output') - Len(reader.buf)
      BY <2>1 DEF Passed
    <3>. QED BY <1>1, <2>1, <2>3, <3>1 DEF Passed
  <2>5. Run(output, Passed + Len(reader.buf))'
    <3>1. ASSUME NEW i \in 1 .. Len(output) + 1
          PROVE  output'[i] = <<sessions, Passed + Len(reader.buf) + i>>
      <4>1. CASE i = Len(output) + 1
        <5>1. Passed + Len(reader.buf) + i = wrote + 1
          BY <1>1, <4>1 DEF Passed
        <5>. QED BY <2>3, <4>1, <5>1
      <4>2. CASE i # Len(output) + 1
        <5>1. i \in 1 .. Len(output)
          BY <1>1, <4>2
        <5>. QED BY <2>3, <5>1 DEF OutputFollows, Run
      <4>. QED BY <4>1, <4>2
    <3>. QED BY <2>1, <2>3, <2>4, <3>1 DEF Run
  <2>6. Run(reader.buf, Passed)'
    BY <2>1, <2>4 DEF OutputFollows, Run
  <2>7. Whole => Whole'
    BY <2>1, <2>4 DEF Whole, Ordered, LastIsPassed
  <2>. QED BY <2>1, <2>4, <2>5, <2>6, <2>7 DEF OutputFollows
<1>4. CASE CleanUp \/ SendCopy
  <2>1. UNCHANGED <<wrote, output, sessions, reader>>
    BY <1>4 DEF CleanUp, CleanLook, CleanIn, CleanOut, CleanDone, Clean, SendCopy, Modem,
                pipes, history
  <2>2. Passed' = Passed /\ Run(reader.buf, Passed)' /\ Run(output, Passed + Len(reader.buf))'
    BY <2>1 DEF Passed, OutputFollows, Run
  <2>3. CASE CleanUp /\ UNCHANGED <<in_buffer, torn>>
    BY <2>1, <2>2, <2>3, StreamUntouched
  <2>4. CASE CleanUp /\ ~ UNCHANGED <<in_buffer, torn>>
    <3>1. in_buffer' = <<>> /\ Len(in_buffer') = 0
      BY <2>4, EmptySeq DEF CleanUp, CleanLook, CleanIn, CleanOut, CleanDone, buffers
    <3>2. Len(reader.buf) <= Capacity
      BY <1>1, SizesAssumption DEF Inv, Steady
    <3>3. Whole'
      BY <1>1, <2>1, <3>1, <3>2 DEF Whole, Ordered
    <3>. QED BY <2>1, <2>2, <3>3 DEF OutputFollows
  <2>5. CASE SendCopy
    <3> DEFINE n == sender
    <3>1. /\ n \in 0 .. Buffer /\ in_buffer \in Seq(Any) /\ Len(in_buffer) <= Capacity
          /\ in_buffer' = Retreated(in_buffer, n)
          /\ torn' = (torn \/ n > Len(in_buffer)) /\ torn \in BOOLEAN
      BY <2>5 DEF SendCopy, Inv, TypeOK, FlagsType, ThreadsType, BytesType, Any
    <3> HIDE DEF n
    <3>2. ASSUME ~ torn' PROVE ~ torn /\ n <= Len(in_buffer)
      <4>1. ~ torn /\ ~ (n > Len(in_buffer))
        BY <3>1, <3>2, Zenon
      <4>. QED BY <1>1, <3>1, <4>1, SizesAssumption
    <3>3. ASSUME Whole, n <= Len(in_buffer) PROVE Whole'
      <4>1. /\ Len(in_buffer') = Len(in_buffer) - n
            /\ \A i \in 1 .. Len(in_buffer) - n : in_buffer'[i] = in_buffer[n + i]
            /\ n \in Nat /\ in_buffer' \in Seq(Any)
        BY <3>1, <3>3, RetreatedFits, SizesAssumption
      <4>2. ASSUME NEW i \in 2 .. Len(in_buffer')
            PROVE  Follows(in_buffer'[i - 1], in_buffer'[i])
        <5>1. /\ n + i \in 2 .. Len(in_buffer) /\ n + (i - 1) = (n + i) - 1
              /\ i \in 1 .. Len(in_buffer) - n /\ i - 1 \in 1 .. Len(in_buffer) - n
          BY <1>1, <4>1
        <5>2. Follows(in_buffer[(n + i) - 1], in_buffer[n + i])
          BY <3>3, <5>1 DEF Whole, Ordered
        <5>. QED BY <4>1, <5>1, <5>2
      <4>3. ASSUME in_buffer' # <<>>
            PROVE  /\ in_buffer # <<>>
                   /\ in_buffer'[Len(in_buffer')] = in_buffer[Len(in_buffer)]
        <5>1. Len(in_buffer') \in Nat \ {0}
          BY <4>1, <4>3, EmptySeq, LenProperties
        <5>2. Len(in_buffer') \in 1 .. Len(in_buffer) - n /\ n + Len(in_buffer') = Len(in_buffer)
          BY <1>1, <4>1, <5>1
        <5>3. in_buffer # <<>>
          BY <1>1, <4>1, <5>1, EmptySeq
        <5>. QED BY <4>1, <5>2, <5>3
      <4>4. Len(in_buffer') + Len(reader.buf) <= Len(in_buffer) + Len(reader.buf)
        BY <1>1, <4>1
      <4>5. reader'.pc = "copy" => Len(in_buffer') + Len(reader'.buf) <= Capacity
        BY <1>1, <2>1, <3>3, <4>1, SizesAssumption DEF Whole
      <4>. QED BY <2>1, <2>2, <3>3, <4>2, <4>3, <4>5 DEF Whole, Ordered, LastIsPassed
    <3>. QED BY <2>1, <2>2, <3>2, <3>3 DEF OutputFollows
  <2>. QED BY <1>4, <2>3, <2>4, <2>5
<1>. QED BY <1>2, <1>3, <1>4

LEMMA FollowsAlways == Spec => [](Inv /\ OutputFollows)
<1>1. Init => OutputFollows
  <2> SUFFICES ASSUME Init PROVE OutputFollows
    OBVIOUS
  <2>1. /\ Len(output) = 0 /\ Len(reader.buf) = 0 /\ Len(in_buffer) = 0 /\ wrote = 0
        /\ in_buffer = <<>> /\ reader.buf = <<>>
    BY EmptySeq DEF Init
  <2>2. Passed = 0
    BY <2>1 DEF Passed
  <2>. QED BY <2>1, <2>2 DEF Init, OutputFollows, Whole, Run, Ordered
<1>2. Inv /\ OutputFollows /\ [Next]_vars => (Inv /\ OutputFollows)'
  <2> SUFFICES ASSUME Inv, OutputFollows, [Next]_vars PROVE OutputFollows'
    BY NextKeeps
  <2>1. CASE UNCHANGED vars
    <3>1. UNCHANGED <<wrote, output, in_buffer, torn, sessions, reader>>
      BY <2>1 DEF vars, buffers, pipes, history
    <3>. QED BY <3>1, StreamUntouched
  <2>2. CASE Next
    BY <2>2, MainFollows, ReaderFollows, OthersFollow DEF Next
  <2>. QED BY <2>1, <2>2
<1>. QED BY <1>1, <1>2, Initially, PTL DEF Spec

(* The flags, the counters, the threads' places and what buffers and pipes *)
(* hold keep their types, for any sizes, sessions and failing forks.       *)
THEOREM TypeCorrect == Spec => []TypeOK
<1>1. Inv => TypeOK
  BY DEF Inv
<1>. QED BY <1>1, Invariance, PTL

(* A session is served in both directions as long as its child lives: the  *)
(* handshake of the two counters survives every order in which the threads *)
(* of earlier sessions ended.                                              *)
THEOREM SessionsServed == Spec => []ServedBothWays
<1>1. Inv => ServedBothWays
  BY DEF Inv, Threads, ServedBothWays, Ending
<1>. QED BY <1>1, Invariance, PTL

(* The output of a child stands in in_buffer in order and without gaps,    *)
(* and no byte of one session behind a byte of the next, for any sizes and *)
(* whenever pipes are closed, rings reset and sessions begun, but for a    *)
(* ring that was reset inside a get_range, until it is reset again.        *)
THEOREM OutputInOrder == Spec => []SessionsInOrder
<1>1. OutputFollows => SessionsInOrder
  BY DEF OutputFollows, Whole, Ordered, Follows, SessionsInOrder
<1>. QED BY <1>1, FollowsAlways, PTL

-----------------------------------------------------------------------------
(* The sessions as VaraSession has them.                                   *)

(* Where VaraSession has uucico_thread.  It has no fork that fails: a      *)
(* session without a child is one that goes on for ever.                   *)
SessionPlace ==
  CASE main = "wait"  -> "wait"
    [] main = "clean" -> "joined"
    [] main = "over"  -> "over"
    [] OTHER          -> "running"

(* The station with its other threads left out.                            *)
Station == INSTANCE VaraSession WITH
  active <- uucico_active, clean <- clean_buffers, pending <- (in_buffer # <<>>),
  uucico <- SessionPlace,
  connected <- FALSE, waiting <- FALSE, tx <- "top", rx <- "read", data <- "poll",
  uuport <- "none", portWrite <- "over", ports <- 0,
  link <- "down", incoming <- 0, commands <- <<>>, events <- <<>>,
  MaxIncoming <- 0, MaxPorts <- 0, MaxUnread <- 0

View == <<uucico_active, clean_buffers, in_buffer # <<>>, SessionPlace>>

(* What these do to the flags and to in_buffer: a call, the end of the     *)
(* link, the clean-up, and the data thread between a get_range's test and  *)
(* its copy.                                                               *)
FlagSteps ==
  /\ UNCHANGED SessionPlace
  /\ \/ ~ uucico_active /\ uucico_active' /\ UNCHANGED <<clean_buffers, in_buffer>>
     \/ clean_buffers' /\ UNCHANGED <<uucico_active, in_buffer>>
     \/ clean_buffers /\ in_buffer' = <<>> /\ UNCHANGED <<uucico_active, clean_buffers>>
     \/ clean_buffers /\ ~ clean_buffers' /\ UNCHANGED <<uucico_active, in_buffer>>
     \/ sender # 0 /\ UNCHANGED <<uucico_active, clean_buffers>>

LEMMA MainAsInStation ==
  ASSUME Inv, UucicoThread \/ ForkFails
  PROVE  Station!UucicoThread \/ UNCHANGED View
<1> USE DEF SessionPlace, View, Main
<1>1. CASE Start
  <2>1. Station!SessionStart
    BY <1>1 DEF Start, buffers, Station!SessionStart, Station!UucicoStep, Station!flags,
                Station!port, Station!modem
  <2>. QED BY <2>1 DEF Station!UucicoThread
<1>2. CASE Fork \/ ForkFails \/ CloseTheirs \/ WaitChild \/ CloseRest \/ JoinReader
  BY <1>2 DEF Fork, ForkFails, CloseTheirs, WaitChild, CloseRest, JoinReader, Close, Join,
              buffers
<1>3. CASE JoinWriter
  <2>1. Station!SessionEnd
    BY <1>3 DEF JoinWriter, Join, buffers, Station!SessionEnd, Station!UucicoStep,
                Station!flags, Station!port, Station!modem
  <2>. QED BY <2>1 DEF Station!UucicoThread
<1>4. CASE AskClean
  <2>1. Station!SessionClean
    BY <1>4 DEF AskClean, buffers, Station!SessionClean, Station!UucicoStep,
                Station!port, Station!modem
  <2>. QED BY <2>1 DEF Station!UucicoThread
<1>5. CASE SessionOver
  <2>1. Station!SessionOver
    BY <1>5 DEF SessionOver, buffers, Station!SessionOver, Station!UucicoStep,
                Station!port, Station!modem
  <2>. QED BY <2>1 DEF Station!UucicoThread
<1>. QED BY <1>1, <1>2, <1>3, <1>4, <1>5 DEF UucicoThread

LEMMA ReaderAsInStation ==
  ASSUME Inv, ReadThread
  PROVE  Station!UucicoThread \/ UNCHANGED View
<1>1. UNCHANGED <<uucico_active, clean_buffers, main>>
  BY DEF ReadThread, ReadAsk, ReadSlow, ReadFast, ReadBytes, ReadEnd, ReadPut, ReadCopy,
         ReadCount, Reader
<1>2. UNCHANGED SessionPlace
  BY <1>1 DEF SessionPlace
<1>3. CASE ReadCopy /\ in_buffer' # <<>>
  <2>1. reader.pc = "copy" /\ SessionPlace = "running"
    BY <1>3 DEF ReadCopy, Reader, Inv, Threads, SessionPlace
  <2>2. Station!SessionWrite
    BY <1>1, <1>2, <1>3, <2>1
       DEF Station!SessionWrite, Station!flags, Station!port, Station!modem
  <2>. QED BY <2>2 DEF Station!UucicoThread
<1>4. CASE ReadCopy /\ in_buffer' = <<>>
  <2>1. /\ in_buffer \in Seq(Any) /\ Len(in_buffer) <= Capacity
        /\ reader.buf \in Seq(Bytes) /\ Len(reader.buf) <= Buffer
    BY DEF Inv, TypeOK, ThreadsType, BytesType, Steady, Any
  <2>2. in_buffer = <<>>
    BY <1>4, <2>1, AdvancedFits DEF ReadCopy
  <2>. QED BY <1>1, <1>2, <1>4, <2>2 DEF View
<1>5. CASE ReadAsk \/ ReadSlow \/ ReadFast \/ ReadBytes \/ ReadEnd \/ ReadPut \/ ReadCount
  <2>1. UNCHANGED in_buffer
    BY <1>5 DEF ReadAsk, ReadSlow, ReadFast, ReadBytes, ReadEnd, ReadPut, ReadCount
  <2>. QED BY <1>1, <1>2, <2>1 DEF View
<1>. QED BY <1>3, <1>4, <1>5 DEF ReadThread

(* In these terms a session is what it is in VaraSession: it begins with   *)
(* uucico_active set, puts bytes into in_buffer only until its threads are *)
(* joined, then asks for the clean-up and then clears uucico_active, the   *)
(* only flag it ever clears; so it may be taken for four steps there.      *)
SessionOfStation == Station!Init /\ [][Station!UucicoThread \/ FlagSteps]_View

THEOREM SessionAsInStation == Spec => SessionOfStation
<1>1. Init => Station!Init
  BY DEF Init, Station!Init, SessionPlace
<1>2. Inv /\ [Next]_vars => [Station!UucicoThread \/ FlagSteps]_View
  <2> SUFFICES ASSUME Inv, [Next]_vars
               PROVE  Station!UucicoThread \/ FlagSteps \/ UNCHANGED View
    OBVIOUS
  <2>1. CASE UucicoThread \/ ForkFails \/ ReadThread
    BY <2>1, MainAsInStation, ReaderAsInStation
  <2>2. CASE \/ WriteThread \/ WriteBytes \/ ChildWrites \/ ChildEnds \/ SendTest \/ Receive
             \/ UNCHANGED vars
    <3>1. UNCHANGED <<uucico_active, clean_buffers, in_buffer, main>>
      BY <2>2 DEF WriteThread, WriteAsk, WriteIdle, WriteTake, WriteCopy, WriteBytes,
                  WriteEnd, WriteCount, Writer, ChildWrites, ChildEnds, SendTest, Receive,
                  Modem, vars, buffers
    <3>. QED BY <3>1 DEF View, SessionPlace
  <2>3. CASE CallUucico \/ Disconnected \/ SendCopy
    <3>1. UNCHANGED SessionPlace
      BY <2>3 DEF CallUucico, Disconnected, SendCopy, Modem, SessionPlace
    <3>. QED
      BY <2>3, <3>1 DEF CallUucico, Disconnected, SendCopy, FlagSteps, buffers
  <2>4. CASE CleanUp
    <3>1. CASE UNCHANGED <<in_buffer, clean_buffers>>
      <4>1. UNCHANGED <<uucico_active, main>>
        BY <2>4 DEF CleanUp, CleanLook, CleanIn, CleanOut, CleanDone, Clean, Modem
      <4>. QED BY <3>1, <4>1 DEF View, SessionPlace
    <3>2. CASE ~ UNCHANGED <<in_buffer, clean_buffers>>
      <4>1. UNCHANGED <<uucico_active, main>> /\ clean_buffers
        BY <2>4, <3>2 DEF CleanUp, CleanLook, CleanIn, CleanOut, CleanDone, Clean, Modem,
                          buffers, Inv, Steady
      <4>2. \/ in_buffer' = <<>> /\ UNCHANGED clean_buffers
            \/ ~ clean_buffers' /\ UNCHANGED in_buffer
        BY <2>4, <3>2 DEF CleanUp, CleanLook, CleanIn, CleanOut, CleanDone, buffers
      <4>. QED BY <4>1, <4>2 DEF FlagSteps, SessionPlace
    <3>. QED BY <3>1, <3>2
  <2>. QED BY <2>1, <2>2, <2>3, <2>4 DEF Next
<1>. QED BY <1>1, <1>2, Invariance, PTL DEF Spec, SessionOfStation

=============================================================================
