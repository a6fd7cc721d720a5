---------------------------- MODULE UucicoSession ----------------------------
(***************************************************************************)
(* The sessions of uucico that answer calls (uucpd/call_uucico.c): the     *)
(* uucico_thread, which opens two pipes, starts two threads and forks the  *)
(* child; uucico_read_thread, from the child's output to in_buffer;        *)
(* uucico_write_thread, from out_buffer to the child's input.  The two     *)
(* threads find out that a session is over from the pipes, from each       *)
(* other's counters, and from nothing else.                                *)
(*                                                                         *)
(* The child is external and modelled from how the code uses it: it reads  *)
(* and writes its pipes as it likes and ends in the end.  The threads of   *)
(* VARA appear by what they do to the buffers and flags (VaraSession       *)
(* models their steps).  A ring is a sequence here, what lies between tail *)
(* and head, and each of its critical sections that can matter is a step   *)
(* (CircularBuffer models its inside): a clean-up that resets it between   *)
(* the test and the copy of a get_range leaves a false size and old bytes. *)
(* Of the bytes for the child only the number is kept.  A byte of the      *)
(* child is named by its session and its number in it.                     *)
(***************************************************************************)
EXTENDS Naturals, Sequences

CONSTANTS
  Capacity,     \* of in_buffer and of out_buffer (INTERNAL_BUFFER_SIZE)
  Buffer,       \* a thread's private buffer (BUFFER_SIZE)
  PipeSize,     \* of a pipe
  MaxSessions,  \* bound: sessions in a behaviour
  MaxOutput,    \* bound: bytes the child of each session writes
  MaxForkFails  \* bound: calls of fork() that fail

ASSUME SizesAssumption ==
  /\ Capacity \in Nat /\ Buffer \in Nat \ {0} /\ PipeSize \in Nat
  /\ Buffer <= Capacity /\ Buffer <= PipeSize

ASSUME BoundsAssumption ==
  /\ MaxSessions \in Nat /\ MaxForkFails \in Nat
  /\ MaxOutput \in [1 .. MaxSessions -> Nat]

VARIABLES
  uucico_active, clean_buffers,  \* flags of rhizo_conn
  session_counter_read, session_counter_write,
  in_buffer,    \* from the child to the modem, oldest byte first
  torn,         \* history: in_buffer has a false size since its last reset
  out_buffer,   \* number of bytes from the modem to the child
  main,         \* where uucico_thread is
  reader,       \* uucico_read_thread: [pc, len, buf]
  writer,       \* uucico_write_thread: [pc, len]
  sender,       \* vara_data_worker_thread_tx: bytes that get_range has found
                \* in in_buffer and not yet copied
  cleaner,      \* where the control thread is in its clean-up
  open,         \* the pipe ends uucpd has open
  child,        \* none, running, or ended and not waited for
  output,       \* pipefd2: the bytes on their way from the child
  wrote,        \* history: bytes the child wrote
  sessions, forkFails   \* history

buffers == <<in_buffer, torn, out_buffer>>
modem == <<sender, cleaner>>
counters == <<session_counter_read, session_counter_write>>
pipes == <<open, output>>
history == <<sessions, forkFails>>
vars == <<uucico_active, clean_buffers, counters, buffers, main, reader, writer,
          modem, pipes, child, wrote, history>>

PipeEnds == {"pipefd1[0]", "pipefd1[1]", "pipefd2[0]", "pipefd2[1]"}
Least(a, b) == IF a < b THEN a ELSE b

(* What circular_buf_get_range's copy leaves of a ring, and put_range's:   *)
(* neither looks at the size again.  Taking more than there is moves tail  *)
(* past head, and all the ring from there holds counts, whatever it is;    *)
(* adding too much moves head past tail, and only what lies beyond counts. *)
Stale == <<0, 0>>
Retreated(q, n) ==
  IF n <= Len(q) THEN SubSeq(q, n + 1, Len(q))
  ELSE [i \in 1 .. Capacity - n |-> Stale] \o q
Advanced(q, b) ==
  IF Len(q) + Len(b) <= Capacity THEN q \o b
  ELSE SubSeq(b, Capacity - Len(q) + 1, Len(b))

Init ==
  /\ uucico_active = FALSE /\ clean_buffers = FALSE
  /\ session_counter_read = 0 /\ session_counter_write = 0
  /\ in_buffer = <<>> /\ torn = FALSE /\ out_buffer = 0
  /\ sender = 0 /\ cleaner = "look"
  /\ main = "wait"
  /\ reader = [pc |-> "over", len |-> 0, buf |-> <<>>]
  /\ writer = [pc |-> "over", len |-> 0]
  /\ open = {} /\ child = "none" /\ output = <<>> /\ wrote = 0
  /\ sessions = 0 /\ forkFails = 0

-----------------------------------------------------------------------------
(* uucico_thread.                                                          *)
Main(from, to) == main = from /\ main' = to /\ UNCHANGED modem

(* Pipes, then threads: they run before there is a child.                  *)
Start ==
  /\ uucico_active
  /\ Main("wait", "fork")
  /\ open' = PipeEnds /\ output' = <<>>
  /\ reader' = [pc |-> "ask", len |-> 0, buf |-> <<>>]
  /\ writer' = [pc |-> "ask", len |-> 0]
  /\ sessions' = sessions + 1 /\ wrote' = 0
  /\ UNCHANGED <<uucico_active, clean_buffers, counters, buffers, child, forkFails>>

Fork ==
  /\ Main("fork", "close")
  /\ child' = "running"
  /\ UNCHANGED <<uucico_active, clean_buffers, counters, buffers, reader, writer,
                 pipes, wrote, history>>

(* fork() error: the thread returns, everything else stays as it is.       *)
ForkFails ==
  /\ forkFails < MaxForkFails
  /\ forkFails' = forkFails + 1
  /\ Main("fork", "returned")
  /\ UNCHANGED <<uucico_active, clean_buffers, counters, buffers, reader, writer,
                 pipes, child, wrote, sessions>>

Close(from, to, ends) ==
  /\ Main(from, to)
  /\ open' = open \ ends
  /\ UNCHANGED <<uucico_active, clean_buffers, counters, buffers, reader, writer,
                 output, child, wrote, history>>

(* The ends the child uses.                                                *)
CloseTheirs == Close("close", "waitpid", {"pipefd1[0]", "pipefd2[1]"})

WaitChild ==
  /\ Main("waitpid", "closeRest")
  /\ child = "ended" /\ child' = "none"
  /\ UNCHANGED <<uucico_active, clean_buffers, counters, buffers, reader, writer,
                 pipes, wrote, history>>

CloseRest == Close("closeRest", "joinReader", {"pipefd1[1]", "pipefd2[0]"})

Join(from, to, pc) ==
  /\ Main(from, to)
  /\ pc = "over"
  /\ UNCHANGED <<uucico_active, clean_buffers, counters, buffers, reader, writer,
                 pipes, child, wrote, history>>

JoinReader == Join("joinReader", "joinWriter", reader.pc)

JoinWriter == Join("joinWriter", "clean", writer.pc)

AskClean ==
  /\ Main("clean", "over")
  /\ clean_buffers' = TRUE
  /\ UNCHANGED <<uucico_active, counters, buffers, reader, writer, pipes, child,
                 wrote, history>>

SessionOver ==
  /\ Main("over", "wait")
  /\ uucico_active' = FALSE
  /\ UNCHANGED <<clean_buffers, counters, buffers, reader, writer, pipes, child,
                 wrote, history>>

UucicoThread ==
  \/ Start \/ Fork \/ CloseTheirs \/ WaitChild \/ CloseRest
  \/ JoinReader \/ JoinWriter \/ AskClean \/ SessionOver

-----------------------------------------------------------------------------
(* uucico_read_thread.                                                     *)
Reader(from, next) ==
  /\ reader.pc = from /\ reader' = next
  /\ UNCHANGED <<uucico_active, clean_buffers, session_counter_write, out_buffer,
                 main, writer, modem, open, child, wrote, history>>

(* How much to read: what the pipe holds, at least one byte so that read   *)
(* waits, at most a buffer.  On a closed pipe, where the answer is the     *)
(* last one, read fails for any length.                                    *)
ReadAsk ==
  /\ Reader("ask", [reader EXCEPT !.pc = "slow",
       !.len = IF output = <<>> THEN 1 ELSE Least(Len(output), Buffer)])
  /\ UNCHANGED <<session_counter_read, in_buffer, torn, output>>

(* With half a buffer in in_buffer it waits, and then reads one byte.      *)
ReadSlow ==
  /\ Len(in_buffer) > Buffer \div 2
  /\ reader.len # 1
  /\ Reader("slow", [reader EXCEPT !.len = 1])
  /\ UNCHANGED <<session_counter_read, in_buffer, torn, output>>

ReadFast ==
  /\ Len(in_buffer) <= Buffer \div 2
  /\ Reader("slow", [reader EXCEPT !.pc = "read"])
  /\ UNCHANGED <<session_counter_read, in_buffer, torn, output>>

ReadBytes ==
  LET n == Least(reader.len, Len(output)) IN
  /\ "pipefd2[0]" \in open
  /\ output # <<>>
  /\ Reader("read", [pc |-> "put", len |-> 0, buf |-> SubSeq(output, 1, n)])
  /\ output' = SubSeq(output, n + 1, Len(output))
  /\ UNCHANGED <<session_counter_read, in_buffer, torn>>

(* Mutant: an error of read() does not end the loop.                       *)
MutantReadEnd ==
  /\ "pipefd2[0]" \in open
  /\ output = <<>> /\ "pipefd2[1]" \notin open /\ child # "running"
  /\ Reader("read", [reader EXCEPT !.pc = "count"])
  /\ UNCHANGED <<session_counter_read, in_buffer, torn, output>>

(* The end of the pipe, which nobody can write to any more, or an error on *)
(* one that uucico_thread has closed.                                      *)
ReadEnd ==
  /\ \/ "pipefd2[0]" \notin open
     \/ output = <<>> /\ "pipefd2[1]" \notin open /\ child # "running"
  /\ Reader("read", [reader EXCEPT !.pc = "count"])
  /\ UNCHANGED <<session_counter_read, in_buffer, torn, output>>

(* It waits until the chunk fits.  put_range then tests that the ring is   *)
(* not full, and it is not: nobody else fills it, and a false size is      *)
(* below Capacity.                                                         *)
ReadPut ==
  /\ Capacity - Len(in_buffer) >= Len(reader.buf)
  /\ Reader("put", [reader EXCEPT !.pc = "copy"])
  /\ UNCHANGED <<session_counter_read, in_buffer, torn, output>>

(* Mutant: head moves on and the size with it, past what the ring can hold. *)
MutantReadCopy ==
  /\ Reader("copy", [reader EXCEPT !.pc = "ask", !.buf = <<>>])
  /\ in_buffer' = in_buffer \o reader.buf
  /\ UNCHANGED <<session_counter_read, torn, output>>

ReadCopy ==
  /\ Reader("copy", [reader EXCEPT !.pc = "ask", !.buf = <<>>])
  /\ in_buffer' = Advanced(in_buffer, reader.buf)
  /\ UNCHANGED <<session_counter_read, torn, output>>

ReadCount ==
  /\ Reader("count", [reader EXCEPT !.pc = "over"])
  /\ session_counter_read' = session_counter_read + 1
  /\ UNCHANGED <<in_buffer, torn, output>>

ReadThread ==
  \/ ReadAsk \/ ReadSlow \/ ReadFast \/ ReadBytes \/ ReadEnd
  \/ ReadPut \/ ReadCopy \/ ReadCount

-----------------------------------------------------------------------------
(* uucico_write_thread.                                                    *)
Writer(from, next) ==
  /\ writer.pc = from /\ writer' = next
  /\ UNCHANGED <<uucico_active, clean_buffers, session_counter_read, in_buffer,
                 torn, main, reader, modem, open, output, child, wrote, history>>

WriteAsk ==
  /\ Writer("ask", IF out_buffer = 0 THEN [writer EXCEPT !.pc = "idle"]
                   ELSE [pc |-> "take", len |-> Least(out_buffer, Buffer)])
  /\ UNCHANGED <<session_counter_write, out_buffer>>

(* Without bytes it looks whether the reader has ended.                    *)
WriteIdle ==
  /\ Writer("idle", [writer EXCEPT !.pc =
       IF session_counter_read > session_counter_write THEN "count" ELSE "ask"])
  /\ UNCHANGED <<session_counter_write, out_buffer>>

(* get_range's test.  After a clean-up it fails, which is not looked at,   *)
(* and what the private buffer still holds is written.                     *)
WriteTake ==
  /\ Writer("take", [writer EXCEPT !.pc =
       IF out_buffer >= writer.len THEN "copy" ELSE "write"])
  /\ UNCHANGED <<session_counter_write, out_buffer>>

WriteCopy ==
  /\ Writer("copy", [writer EXCEPT !.pc = "write"])
  /\ out_buffer' = IF out_buffer >= writer.len THEN out_buffer - writer.len
                   ELSE Capacity - writer.len + out_buffer
  /\ UNCHANGED session_counter_write

CanBeRead == "pipefd1[0]" \in open \/ child = "running"

(* A write waits as long as the pipe is full, which is left to the child.  *)
WriteBytes ==
  /\ "pipefd1[1]" \in open /\ CanBeRead
  /\ Writer("write", [pc |-> "ask", len |-> 0])
  /\ UNCHANGED <<session_counter_write, out_buffer>>

(* EPIPE (SIGPIPE is ignored), or an error on a pipe that is closed.       *)
WriteEnd ==
  /\ ~ ("pipefd1[1]" \in open /\ CanBeRead)
  /\ Writer("write", [writer EXCEPT !.pc = "count"])
  /\ UNCHANGED <<session_counter_write, out_buffer>>

(* Mutant: after an error the thread returns without being counted.        *)
MutantWriteCount ==
  /\ Writer("count", [writer EXCEPT !.pc = "over"])
  /\ session_counter_write' =
       IF CanBeRead THEN session_counter_write + 1 ELSE session_counter_write
  /\ UNCHANGED out_buffer

WriteCount ==
  /\ Writer("count", [writer EXCEPT !.pc = "over"])
  /\ session_counter_write' = session_counter_write + 1
  /\ UNCHANGED out_buffer

WriteThread ==
  \/ WriteAsk \/ WriteIdle \/ WriteTake \/ WriteCopy \/ WriteEnd \/ WriteCount

-----------------------------------------------------------------------------
(* The child (external).                                                   *)
ChildWrites ==
  /\ child = "running"
  /\ wrote < MaxOutput[sessions] /\ wrote' = wrote + 1
  /\ Len(output) < PipeSize
  /\ output' = Append(output, <<sessions, wrote + 1>>)
  /\ UNCHANGED <<uucico_active, clean_buffers, counters, buffers, main, reader,
                 writer, modem, open, child, history>>

ChildEnds ==
  /\ child = "running" /\ child' = "ended"
  /\ UNCHANGED <<uucico_active, clean_buffers, counters, buffers, main, reader,
                 writer, modem, pipes, wrote, history>>

-----------------------------------------------------------------------------
(* The threads of the modem.                                               *)
Modem ==
  UNCHANGED <<counters, main, reader, writer, pipes, child, wrote, history>>

(* call_uucico, when a call comes in; with a session already there it only *)
(* warns.                                                                  *)
CallUucico ==
  /\ ~ uucico_active /\ sessions < MaxSessions
  /\ uucico_active' = TRUE
  /\ UNCHANGED <<clean_buffers, buffers, modem>> /\ Modem

Disconnected ==
  /\ clean_buffers' = TRUE
  /\ UNCHANGED <<uucico_active, buffers, modem>> /\ Modem

(* The clean-up: in_buffer, out_buffer, and both again when the link is    *)
(* down; the uucico it kills ends as any other.                            *)
Clean(from, to) ==
  /\ cleaner = from /\ cleaner' = to
  /\ UNCHANGED <<uucico_active, sender>> /\ Modem

CleanLook ==
  /\ clean_buffers
  /\ Clean("look", "in") /\ UNCHANGED <<clean_buffers, buffers>>

CleanIn(from, to) ==
  /\ Clean(from, to)
  /\ in_buffer' = <<>> /\ torn' = FALSE
  /\ UNCHANGED <<clean_buffers, out_buffer>>

CleanOut(from, to) ==
  /\ Clean(from, to)
  /\ out_buffer' = 0
  /\ UNCHANGED <<clean_buffers, in_buffer, torn>>

CleanDone ==
  /\ Clean("done", "look")
  /\ clean_buffers' = FALSE
  /\ UNCHANGED buffers

CleanUp ==
  \/ CleanLook \/ CleanIn("in", "out") \/ CleanOut("out", "again")
  \/ CleanIn("again", "last") \/ CleanOut("last", "done") \/ CleanDone

(* The data threads.  A get_range for the modem, of what was there when    *)
(* the size was asked for: its test, when it does not fail, and its copy.  *)
SendTest ==
  /\ sender = 0
  /\ sender' \in 1 .. Least(Len(in_buffer), Buffer)
  /\ UNCHANGED <<uucico_active, clean_buffers, buffers, cleaner>> /\ Modem

(* Mutant: head is moved back instead of tail forward.                     *)
MutantSendCopy ==
  /\ sender # 0 /\ sender' = 0
  /\ in_buffer' = IF sender > Len(in_buffer) THEN Retreated(in_buffer, sender)
                  ELSE SubSeq(in_buffer, 1, Len(in_buffer) - sender)
  /\ torn' = (torn \/ sender > Len(in_buffer))
  /\ UNCHANGED <<uucico_active, clean_buffers, out_buffer, cleaner>> /\ Modem

SendCopy ==
  /\ sender # 0 /\ sender' = 0
  /\ in_buffer' = Retreated(in_buffer, sender)
  /\ torn' = (torn \/ sender > Len(in_buffer))
  /\ UNCHANGED <<uucico_active, clean_buffers, out_buffer, cleaner>> /\ Modem

(* A byte from the modem is put as soon as there is room for one; what is  *)
(* taken meanwhile leaves room for it, a false size too.                   *)
Receive ==
  /\ out_buffer < Capacity
  /\ out_buffer' = out_buffer + 1
  /\ UNCHANGED <<uucico_active, clean_buffers, in_buffer, torn, modem>> /\ Modem

-----------------------------------------------------------------------------
Next ==
  \/ UucicoThread \/ ForkFails \/ ReadThread \/ WriteThread \/ WriteBytes
  \/ ChildWrites \/ ChildEnds
  \/ CallUucico \/ Disconnected \/ CleanUp \/ SendTest \/ SendCopy \/ Receive

Spec == Init /\ [][Next]_vars

(* The threads run, a child ends in the end, by its own timers or killed,  *)
(* and what is in in_buffer is sent or thrown away.  Nobody is obliged to  *)
(* call, to write, to read, or to stop sending.                            *)
Fairness ==
  /\ WF_vars(UucicoThread) /\ WF_vars(ReadThread) /\ WF_vars(WriteThread)
  /\ WF_vars(ChildEnds) /\ WF_vars(CleanUp \/ SendTest \/ SendCopy)

FairSpec == Spec /\ Fairness

-----------------------------------------------------------------------------
Bytes == (1 .. MaxSessions) \X (Nat \ {0})

FlagsType == uucico_active \in BOOLEAN /\ clean_buffers \in BOOLEAN /\ torn \in BOOLEAN

CountersType ==
  /\ session_counter_read \in 0 .. MaxSessions
  /\ session_counter_write \in 0 .. MaxSessions
  /\ sessions \in 0 .. MaxSessions /\ forkFails \in 0 .. MaxForkFails

ThreadsType ==
  /\ main \in {"wait", "fork", "close", "waitpid", "closeRest", "joinReader",
               "joinWriter", "clean", "over", "returned"}
  /\ reader \in [pc : {"ask", "slow", "read", "put", "copy", "count", "over"},
                 len : 0 .. Buffer, buf : Seq(Bytes)]
  /\ writer \in [pc : {"ask", "idle", "take", "copy", "write", "count", "over"},
                 len : 0 .. Buffer]
  /\ sender \in 0 .. Buffer
  /\ cleaner \in {"look", "in", "out", "again", "last", "done"}
  /\ open \subseteq PipeEnds
  /\ child \in {"none", "running", "ended"}

BytesType ==
  /\ in_buffer \in Seq(Bytes \cup {Stale}) /\ Len(in_buffer) <= Capacity
  /\ output \in Seq(Bytes) /\ Len(output) <= PipeSize
  /\ out_buffer \in 0 .. Capacity
  /\ wrote \in Nat

TypeOK == FlagsType /\ CountersType /\ ThreadsType /\ BytesType

(* As long as its child lives a session is served in both directions: the  *)
(* writer, which ends when one counter has passed the other, does not take *)
(* the counts of an earlier session, that ended in whatever order and      *)
(* whatever way, for the end of this one.                                  *)
ServedBothWays ==
  child = "running" =>
    reader.pc \notin {"count", "over"} /\ writer.pc \notin {"count", "over"}

(* In in_buffer the output of a child stands in order and without gaps,    *)
(* and no byte of one session stands behind a byte of the next, although   *)
(* the child's pipe is closed under the thread that reads it and the ring  *)
(* is emptied between any two steps of the threads that use it: what is    *)
(* lost is the end of a session.  The one exception is a ring that was     *)
(* reset between the test and the copy of the get_range for the modem,     *)
(* until it is reset again.                                                *)
SessionsInOrder ==
  ~ torn =>
  \A i \in 2 .. Len(in_buffer) :
    LET before == in_buffer[i - 1]
        byte == in_buffer[i]
    IN  \/ byte = <<before[1], before[2] + 1>>
        \/ byte[1] > before[1] /\ byte[2] = 1

(* A session ends, and uucico_active with it, when its child has ended,    *)
(* also when in_buffer is full, when the other station goes on sending to  *)
(* a child that is gone, or when the pipe to it is full; only where fork   *)
(* failed it does not.  (in_buffer is not torn for ever: clean-ups that    *)
(* tear it again and again could make a chunk miss the room every time.)   *)
SessionEnds ==
  []<>(~ uucico_active \/ torn \/ main = "returned")

=============================================================================
