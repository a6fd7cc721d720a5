--------------------------- MODULE CircularBuffer ---------------------------
(***************************************************************************)
(* The byte ring of uucpd/circular_buffer.c, kept in System V shared       *)
(* memory and used by the threads of uucpd and of uuport.  Every function  *)
(* of the file runs its critical sections under the spin flag "acquire",   *)
(* so one critical section is one step here; a function that enters        *)
(* several of them (put_range and get_range test the ring in one and copy  *)
(* in another) is several steps, between which other threads run.          *)
(*                                                                         *)
(* The threads are the callers in the tree, reduced to what they do to the *)
(* ring: a writer polls free_size until its chunk fits and calls           *)
(* put_range; a reader asks for size, caps it at its own buffer, calls     *)
(* get_range and passes its buffer on without looking at the result; the   *)
(* control thread resets.  Bytes are numbered in the order they are put,   *)
(* from 1; Unwritten is what a slot holds before any byte is put there.    *)
(***************************************************************************)
EXTENDS Integers

CONSTANTS
  Max,          \* capacity of the ring (INTERNAL_BUFFER_SIZE)
  MaxChunk,     \* size of a thread's private buffer (BUFFER_SIZE)
  Writers,      \* threads that call put_range
  Readers,      \* threads that call get_range
  MaxWritten,   \* bound: no chunk is produced that takes written beyond it
  MaxPassed,    \* bound: no chunk is taken once so many bytes were passed on
  MaxResets     \* bound: resets in a behaviour

ASSUME SizesAssumption ==
  /\ Max \in Nat \ {0}
  /\ MaxChunk \in Nat \ {0}
  /\ MaxChunk <= Max

ASSUME BoundsAssumption == 
  MaxWritten \in Nat /\ MaxPassed \in Nat /\ MaxResets \in Nat

VARIABLES
  ring,     \* struct circular_buf_t_aux: head, tail, full (max is constant)
  slots,    \* cbuf->buffer
  writer,   \* [Writers -> [pc, len]]: the put_range call in progress
  reader,   \* [Readers -> [pc, len, buf]]: the get_range call in progress
  written,  \* history: bytes put so far
  stored,   \* history: bytes put and neither taken nor reset since
  passed,   \* history: bytes the readers passed on so far
  resets    \* history: resets so far

vars == <<ring, slots, writer, reader, written, stored, passed, resets>>

Unwritten == 0
Index == 0 .. Max - 1
Chunk == 0 .. MaxChunk - 1
Ring == [head : Index, tail : Index, full : BOOLEAN]

-----------------------------------------------------------------------------
(* The pointer arithmetic.                                                 *)

Size(r) ==
  IF r.full THEN Max
  ELSE IF r.head >= r.tail THEN r.head - r.tail
  ELSE Max + r.head - r.tail

FreeSize(r) ==
  IF r.full THEN 0
  ELSE IF r.head >= r.tail THEN Max - (r.head - r.tail)
  ELSE r.tail - r.head

EmptyRing == [head |-> 0, tail |-> 0, full |-> FALSE]

(* Mutant: a ring that has just been filled counts as empty.               *)
MutantAdvancePointerN(r, len) ==
  [head |-> (r.head + len) % Max, tail |-> r.tail, full |-> FALSE]

AdvancePointerN(r, len) ==
  LET tail == IF r.full THEN (r.tail + len) % Max ELSE r.tail
      head == (r.head + len) % Max
  IN  [head |-> head, tail |-> tail, full |-> head = tail]

(* Mutant: taking bytes leaves the full flag set.                          *)
MutantRetreatPointerN(r, len) ==
  [head |-> r.head, tail |-> (r.tail + len) % Max, full |-> r.full]

RetreatPointerN(r, len) ==
  [head |-> r.head, tail |-> (r.tail + len) % Max, full |-> FALSE]

(* The offset of slot i from position p, going forward round the ring.     *)
Offset(i, p) == IF i >= p THEN i - p ELSE Max + i - p

(* Mutant: without the second memcpy the bytes that wrap are not stored.   *)
MutantCopyIn(len) ==
  [i \in Index |-> IF i >= ring.head /\ Offset(i, ring.head) < len
                   THEN written + 1 + Offset(i, ring.head)
                   ELSE slots[i]]

(* The two memcpy calls of put_range: the next len bytes go to the slots   *)
(* from head on, wrapping at the end of the buffer.                        *)
CopyIn(len) ==
  [i \in Index |-> IF Offset(i, ring.head) < len
                   THEN written + 1 + Offset(i, ring.head)
                   ELSE slots[i]]

(* The two memcpy calls of get_range into the private buffer buf, whose    *)
(* bytes from len on are left as they were.                                *)
CopyOut(buf, len) ==
  [k \in Chunk |-> IF k < len THEN slots[(ring.tail + k) % Max] ELSE buf[k]]

-----------------------------------------------------------------------------
Init ==
  /\ ring = EmptyRing
  /\ slots = [i \in Index |-> Unwritten]
  /\ writer = [w \in Writers |-> [pc |-> "idle", len |-> 0]]
  /\ reader = [r \in Readers |->
                 [pc |-> "idle", len |-> 0,
                  buf |-> [k \in Chunk |-> Unwritten]]]
  /\ written = 0 /\ stored = 0 /\ passed = 0 /\ resets = 0

(* A writer holds a chunk of n bytes and polls free_size until it fits.    *)
WaitFree(w, n) ==
  /\ writer[w].pc = "idle"
  /\ FreeSize(ring) >= n
  /\ written + n <= MaxWritten
  /\ writer' = [writer EXCEPT ![w] = [pc |-> "fits", len |-> n]]
  /\ UNCHANGED <<ring, slots, reader, written, stored, passed, resets>>

(* put_range tests circular_buf_full, not the free space; on a full ring   *)
(* it returns -1 and the caller drops the chunk.                           *)
TestFull(w) ==
  /\ writer[w].pc = "fits"
  /\ writer' = [writer EXCEPT
       ![w] = IF ring.full THEN [pc |-> "idle", len |-> 0]
              ELSE [pc |-> "copy", len |-> @.len]]
  /\ UNCHANGED <<ring, slots, reader, written, stored, passed, resets>>

(* The second critical section of put_range.                               *)
PutRange(w) ==
  LET len == writer[w].len IN
  /\ writer[w].pc = "copy"
  /\ slots' = CopyIn(len)
  /\ ring' = AdvancePointerN(ring, len)
  /\ written' = written + len
  /\ stored' = stored + len
  /\ writer' = [writer EXCEPT ![w] = [pc |-> "idle", len |-> 0]]
  /\ UNCHANGED <<reader, passed, resets>>

(* A reader asks for the size and caps it; with nothing stored it polls.   *)
AskSize(r) ==
  LET size == Size(ring) IN
  /\ reader[r].pc = "idle"
  /\ size > 0
  /\ passed < MaxPassed
  /\ reader' = [reader EXCEPT
       ![r] = [pc |-> "sized", len |-> IF size > MaxChunk THEN MaxChunk ELSE size,
               buf |-> @.buf]]
  /\ UNCHANGED <<ring, slots, writer, written, stored, passed, resets>>

(* get_range tests that len bytes are stored; if not it returns -1, which  *)
(* its callers ignore: the private buffer goes out as it is.               *)
TestSize(r) ==
  /\ reader[r].pc = "sized"
  /\ reader' = [reader EXCEPT
       ![r] = [pc |-> IF Size(ring) >= @.len THEN "copy" ELSE "pass",
               len |-> @.len, buf |-> @.buf]]
  /\ UNCHANGED <<ring, slots, writer, written, stored, passed, resets>>

(* The second critical section of get_range.                               *)
GetRange(r) ==
  LET len == reader[r].len IN
  /\ reader[r].pc = "copy"
  /\ reader' = [reader EXCEPT
       ![r] = [pc |-> "pass", len |-> len, buf |-> CopyOut(@.buf, len)]]
  /\ ring' = RetreatPointerN(ring, len)
  /\ stored' = IF stored >= len THEN stored - len ELSE 0
  /\ UNCHANGED <<slots, writer, written, passed, resets>>

(* The reader writes len bytes of its buffer to the socket or pipe.        *)
PassOn(r) ==
  /\ reader[r].pc = "pass"
  /\ passed' = passed + reader[r].len
  /\ reader' = [reader EXCEPT ![r] = [pc |-> "idle", len |-> 0, buf |-> @.buf]]
  /\ UNCHANGED <<ring, slots, writer, written, stored, resets>>

(* circular_buf_reset, called by the modem's control thread.               *)
Reset ==
  /\ resets < MaxResets
  /\ ring' = EmptyRing
  /\ stored' = 0
  /\ resets' = resets + 1
  /\ UNCHANGED <<slots, writer, reader, written, passed>>

Write(w) == TestFull(w) \/ PutRange(w) \/ \E n \in 1 .. MaxChunk : WaitFree(w, n)
Read(r) == AskSize(r) \/ TestSize(r) \/ GetRange(r) \/ PassOn(r)

Transfer ==
  \/ \E w \in Writers : Write(w)
  \/ \E r \in Readers : Read(r)

Next == Transfer \/ Reset

Spec == Init /\ [][Next]_vars

(* Every thread keeps running: the pollers sleep and look again.  Nobody   *)
(* is obliged to produce another chunk.  FairSpec is the ring between two  *)
(* resets.                                                                 *)
Fairness ==
  /\ \A w \in Writers : WF_vars(TestFull(w) \/ PutRange(w))
  /\ \A r \in Readers : WF_vars(Read(r))

FairSpec == Init /\ [][Transfer]_vars /\ Fairness

-----------------------------------------------------------------------------
(* Types; a full ring is one whose head has caught up with its tail.       *)
TypeOK ==
  /\ ring \in Ring
  /\ ring.full => ring.head = ring.tail
  /\ slots \in [Index -> Nat]
  /\ writer \in [Writers -> [pc : {"idle", "fits", "copy"}, len : 0 .. MaxChunk]]
  /\ reader \in [Readers -> [pc : {"idle", "sized", "copy", "pass"},
                             len : 0 .. MaxChunk, buf : [Chunk -> Nat]]]
  /\ written \in Nat /\ stored \in Nat /\ passed \in Nat /\ resets \in Nat

(* "Returns the current number of elements in the buffer"                  *)
(* (circular_buffer.h:76-78): circular_buf_size is the number of bytes     *)
(* that were put and have neither been taken nor thrown away by a reset.   *)
SizeCountsStored == Size(ring) = stored

(* "test if buffer has enough free space" (circular_buffer.c:369): when    *)
(* put_range copies, its chunk fits beside what the ring already holds.    *)
EnoughFreeSpace ==
  \A w \in Writers : writer[w].pc = "copy" => writer[w].len <= FreeSize(ring)

(* The ring holds the newest bytes of the stream, oldest at the tail, none *)
(* missing and none twice, wherever head and tail have wrapped to.         *)
HoldsNewest ==
  \A k \in 0 .. Size(ring) - 1 :
    slots[(ring.tail + k) % Max] = written - Size(ring) + k + 1

(* What a reader hands to the modem or to uucico is exactly the next part  *)
(* of what the writer put: nothing lost, repeated, reordered or stale,     *)
(* although size, test and copy are separate critical sections.            *)
InOrder ==
  \A r \in Readers : reader[r].pc = "pass" =>
    \A k \in 0 .. reader[r].len - 1 : reader[r].buf[k] = passed + k + 1

(* The inductive invariant behind these when one writer and one       *)
(* reader share a ring that nobody resets: the space the writer saw free   *)
(* and the bytes the reader saw stored are still there, and every byte     *)
(* written is passed on, in the reader's hand or in the ring.              *)
SpaceStillFree ==
  \A w \in Writers :
    writer[w].pc \in {"fits", "copy"} => writer[w].len \in 1 .. FreeSize(ring)

BytesStillStored ==
  \A r \in Readers :
    reader[r].pc \in {"sized", "copy"} => reader[r].len \in 1 .. Size(ring)

InHand(r) == IF reader[r].pc = "pass" THEN reader[r].len ELSE 0

AllAccountedFor ==
  \A r \in Readers : written = passed + InHand(r) + Size(ring)

StreamInv ==
  /\ TypeOK
  /\ SpaceStillFree
  /\ BytesStillStored
  /\ AllAccountedFor
  /\ SizeCountsStored
  /\ HoldsNewest
  /\ InOrder

(* With one writer and one reader the ring is a bounded byte stream.       *)
Stream == INSTANCE ByteStream WITH
  Capacity <- Max,
  queue    <- [k \in 1 .. Size(ring) |-> slots[(ring.tail + k - 1) % Max]],
  inHand   <- LET r == CHOOSE r \in Readers : TRUE
              IN  IF reader[r].pc = "pass"
                  THEN [k \in 1 .. reader[r].len |-> reader[r].buf[k - 1]]
                  ELSE <<>>,
  sent     <- written,
  received <- passed

(* Every step of the ring is a step of the byte stream, and what was sent  *)
(* is received in the end.                                                 *)
ImplementsStream == Stream!FairSpec

=============================================================================
