------------------------ MODULE CircularBufferProofs ------------------------
(***************************************************************************)
(* Proofs about the byte ring, for every capacity, chunk size and set of   *)
(* threads.  First the pointer arithmetic, then type correctness with any  *)
(* number of writers, readers and resets, then the promise to one writer   *)
(* and one reader without resets: the stream arrives in order, and the     *)
(* ring implements ByteStream.                                             *)
(***************************************************************************)
EXTENDS CircularBuffer, SequenceTheorems, TLAPS

-----------------------------------------------------------------------------
(* Pointer arithmetic.                                                     *)

(* An index that has run over the end once is brought back by Max.         *)
LEMMA Wrap ==
  ASSUME NEW x \in 0 .. 2 * Max - 1
  PROVE  x % Max = IF x < Max THEN x ELSE x - Max
<1> USE SizesAssumption
<1>1. CASE x < Max
  BY <1>1
<1>2. CASE x >= Max
  <2>1. x = Max * 1 + (x - Max) /\ x - Max \in 0 .. Max - 1
    BY <1>2
  <2>2. /\ x % Max \in 0 .. Max - 1
        /\ x = Max * (x \div Max) + (x % Max)
        /\ x \div Max \in Int
    OBVIOUS
  <2>. QED BY <2>1, <2>2, <1>2
<1>. QED BY <1>1, <1>2

(* Size and FreeSize measure the two complementary arcs of the ring.       *)
LEMMA SizesComplement ==
  ASSUME NEW r \in Ring, r.full => r.head = r.tail
  PROVE  /\ Size(r) \in 0 .. Max
         /\ FreeSize(r) = Max - Size(r)
BY SizesAssumption DEF Ring, Index, Size, FreeSize

(* Advancing keeps the pointers in the ring, whatever the length.          *)
LEMMA AdvanceType ==
  ASSUME NEW r \in Ring, NEW len \in Nat
  PROVE  LET a == AdvancePointerN(r, len)
         IN  a \in Ring /\ (a.full => a.head = a.tail)
<1>1. \A x \in Nat : x % Max \in Index
  BY SizesAssumption DEF Index
<1>2. (r.tail + len) \in Nat /\ (r.head + len) \in Nat
  BY SizesAssumption DEF Ring, Index
<1>. QED BY <1>1, <1>2 DEF Ring, AdvancePointerN

LEMMA RetreatType ==
  ASSUME NEW r \in Ring, NEW len \in Nat
  PROVE  LET a == RetreatPointerN(r, len)
         IN  a \in Ring /\ ~ a.full
<1>1. \A x \in Nat : x % Max \in Index
  BY SizesAssumption DEF Index
<1>2. (r.tail + len) \in Nat
  BY SizesAssumption DEF Ring, Index
<1>. QED BY <1>1, <1>2 DEF Ring, RetreatPointerN

(* A chunk that fits leaves the tail where it is and adds to the size.     *)
LEMMA AdvanceFits ==
  ASSUME NEW r \in Ring, r.full => r.head = r.tail,
         NEW len \in 1 .. MaxChunk, len <= FreeSize(r)
  PROVE  LET a == AdvancePointerN(r, len)
         IN  a.tail = r.tail /\ Size(a) = Size(r) + len
<1>1. ~ r.full
  BY SizesAssumption DEF FreeSize
<1>2. r.head \in Index /\ r.tail \in Index
  BY DEF Ring
<1>3. PICK h \in Index : h = (r.head + len) % Max
  BY <1>2, SizesAssumption DEF Index
<1>4. h = IF r.head + len < Max THEN r.head + len ELSE r.head + len - Max
  BY <1>2, <1>3, Wrap, SizesAssumption DEF Index
<1> DEFINE a == AdvancePointerN(r, len)
<1>5. a.head = h /\ a.tail = r.tail /\ (a.full <=> h = r.tail)
  BY <1>1, <1>3 DEF AdvancePointerN
<1>6. Size(a) = IF h = r.tail THEN Max
                ELSE IF h >= r.tail THEN h - r.tail ELSE Max + h - r.tail
  BY <1>5 DEF Size
<1>7. Size(r) = IF r.head >= r.tail THEN r.head - r.tail ELSE Max + r.head - r.tail
  BY <1>1 DEF Size
<1>8. len <= IF r.head >= r.tail THEN Max - (r.head - r.tail) ELSE r.tail - r.head
  BY <1>1 DEF FreeSize
<1>9. Size(a) = Size(r) + len
  <2> HIDE DEF a
  <2>1. Max \in Nat /\ len \in 1 .. Max
    BY SizesAssumption
  <2>. QED BY <2>1, <1>2, <1>4, <1>6, <1>7, <1>8 DEF Index
<1>. QED BY <1>5, <1>9

(* Bytes that are stored can be taken: the size falls by their number.     *)
LEMMA RetreatStored ==
  ASSUME NEW r \in Ring, r.full => r.head = r.tail,
         NEW len \in 1 .. MaxChunk, len <= Size(r)
  PROVE  Size(RetreatPointerN(r, len)) = Size(r) - len
<1>2. r.head \in Index /\ r.tail \in Index
  BY DEF Ring
<1>3. (r.tail + len) % Max
        = IF r.tail + len < Max THEN r.tail + len ELSE r.tail + len - Max
  BY <1>2, Wrap, SizesAssumption DEF Index
<1>. QED
  BY <1>2, <1>3, SizesAssumption DEF Index, RetreatPointerN, Size

-----------------------------------------------------------------------------
(* What the copies store are bytes.                                        *)
LEMMA CopyTypes ==
  ASSUME NEW len \in Nat, slots \in [Index -> Nat],
         written \in Nat,
         \A i \in Index : Offset(i, ring.head) \in Nat,
         \A k \in Chunk : (ring.tail + k) % Max \in Index
  PROVE  /\ CopyIn(len) \in [Index -> Nat]
         /\ \A buf \in [Chunk -> Nat] : CopyOut(buf, len) \in [Chunk -> Nat]
<1>1. CopyIn(len) \in [Index -> Nat]
  BY DEF CopyIn
<1>2. ASSUME NEW buf \in [Chunk -> Nat] PROVE CopyOut(buf, len) \in [Chunk -> Nat]
  BY DEF CopyOut
<1>. QED BY <1>1, <1>2

(* Type correctness: every critical section keeps the pointers in the ring *)
(* and the slots and buffers holding bytes.                                *)
LEMMA TypeStep == TypeOK /\ [Next]_vars => TypeOK'
<1> SUFFICES ASSUME TypeOK, [Next]_vars PROVE TypeOK'
  OBVIOUS
<1> USE SizesAssumption DEF TypeOK
<1>0. Size(ring) \in Nat
  BY SizesComplement
<1>1. ASSUME NEW w \in Writers, NEW n \in 1 .. MaxChunk, WaitFree(w, n)
      PROVE  TypeOK'
  BY <1>1 DEF WaitFree
<1>2. ASSUME NEW w \in Writers, TestFull(w)
      PROVE  TypeOK'
  BY <1>2 DEF TestFull
<1>a. \A i \in Index : Offset(i, ring.head) \in Nat
  BY DEF Ring, Index, Offset
<1>b. \A k \in Chunk : (ring.tail + k) % Max \in Index
  <2>1. \A x \in Nat : x % Max \in Index
    BY DEF Index
  <2>2. ASSUME NEW k \in Chunk PROVE (ring.tail + k) \in Nat
    BY DEF Ring, Index, Chunk
  <2>. QED BY <2>1, <2>2
<1>3. ASSUME NEW w \in Writers, PutRange(w)
      PROVE  TypeOK'
  <2>1. writer[w].len \in Nat
    OBVIOUS
  <2>2. ring' \in Ring /\ (ring'.full => ring'.head = ring'.tail)
    BY <1>3, <2>1, AdvanceType DEF PutRange
  <2>3. CopyIn(writer[w].len) \in [Index -> Nat]
    BY <1>a, <1>b, <2>1, CopyTypes
  <2>. QED BY <1>3, <2>1, <2>2, <2>3 DEF PutRange
<1>4. ASSUME NEW r \in Readers, AskSize(r)
      PROVE  TypeOK'
  BY <1>4, <1>0 DEF AskSize
<1>5. ASSUME NEW r \in Readers, TestSize(r)
      PROVE  TypeOK'
  BY <1>5 DEF TestSize
<1>6. ASSUME NEW r \in Readers, GetRange(r)
      PROVE  TypeOK'
  <2>1. reader[r].len \in Nat /\ reader[r].buf \in [Chunk -> Nat]
    OBVIOUS
  <2>2. ring' \in Ring /\ ~ ring'.full
    BY <1>6, <2>1, RetreatType DEF GetRange
  <2>3. CopyOut(reader[r].buf, reader[r].len) \in [Chunk -> Nat]
    BY <1>a, <1>b, <2>1, CopyTypes
  <2>. QED BY <1>6, <2>1, <2>2, <2>3 DEF GetRange
<1>7. ASSUME NEW r \in Readers, PassOn(r)
      PROVE  TypeOK'
  BY <1>7 DEF PassOn
<1>8. CASE Reset
  BY <1>8 DEF Reset, EmptyRing, Ring, Index
<1>9. CASE UNCHANGED vars
  BY <1>9 DEF vars
<1>. QED
  BY <1>1, <1>2, <1>3, <1>4, <1>5, <1>6, <1>7, <1>8, <1>9
     DEF Next, Transfer, Write, Read

(* The invariant of any number of threads, and resets: no interleaving of  *)
(* the critical sections takes a pointer out of the ring or leaves full    *)
(* set with head and tail apart.                                           *)
THEOREM TypeCorrect == Spec => []TypeOK
<1>1. Init => TypeOK
  BY SizesAssumption
     DEF Init, TypeOK, Ring, Index, Chunk, EmptyRing, Unwritten
<1>. QED BY <1>1, TypeStep, PTL DEF Spec

-----------------------------------------------------------------------------
(* Where the slots of the ring are.                                        *)

(* Slot tail + k is k - Size past the head, or behind it if it is stored.  *)
LEMMA OffsetFromTail ==
  ASSUME NEW r \in Ring, r.full => r.head = r.tail, NEW k \in Index
  PROVE  /\ (r.tail + k) % Max \in Index
         /\ Offset((r.tail + k) % Max, r.head)
              = IF k < Size(r) THEN Max - Size(r) + k ELSE k - Size(r)
<1>1. r.head \in Index /\ r.tail \in Index
  BY DEF Ring
<1>2. PICK i \in Index : i = (r.tail + k) % Max
  BY <1>1, SizesAssumption DEF Index
<1>3. i = IF r.tail + k < Max THEN r.tail + k ELSE r.tail + k - Max
  BY <1>1, <1>2, Wrap, SizesAssumption DEF Index
<1>4. Offset(i, r.head) = IF i >= r.head THEN i - r.head ELSE Max + i - r.head
  BY DEF Offset
<1>5. CASE r.full
  <2>1. Size(r) = Max /\ r.head = r.tail
    BY <1>5 DEF Size
  <2>. QED BY <1>1, <1>2, <1>3, <1>4, <2>1, SizesAssumption DEF Index
<1>6. CASE ~ r.full
  <2>1. Size(r) = IF r.head >= r.tail THEN r.head - r.tail ELSE Max + r.head - r.tail
    BY <1>6 DEF Size
  <2>2. Offset(i, r.head) = IF k < Size(r) THEN Max - Size(r) + k ELSE k - Size(r)
    BY <1>1, <1>3, <1>4, <2>1, SizesAssumption DEF Index
  <2>. QED BY <1>2, <2>2
<1>. QED BY <1>5, <1>6

(* Stepping by len and then by k is stepping by len + k.                   *)
LEMMA StepTwice ==
  ASSUME NEW t \in Index, NEW len \in Nat, NEW k \in Nat, len + k <= Max
  PROVE  (((t + len) % Max) + k) % Max = (t + (len + k)) % Max
<1>1. PICK u \in Index : u = (t + len) % Max
  BY SizesAssumption DEF Index
<1>2. u = IF t + len < Max THEN t + len ELSE t + len - Max
  BY <1>1, Wrap, SizesAssumption DEF Index
<1>3. (u + k) % Max = IF u + k < Max THEN u + k ELSE u + k - Max
  BY <1>2, Wrap, SizesAssumption DEF Index
<1>4. (t + (len + k)) % Max
        = IF t + (len + k) < Max THEN t + (len + k) ELSE t + (len + k) - Max
  BY Wrap, SizesAssumption DEF Index
<1>. QED BY <1>1, <1>2, <1>3, <1>4, SizesAssumption DEF Index

-----------------------------------------------------------------------------
(* One writer, one reader, no reset.                                       *)

(* The writer's copy appends its chunk to the bytes the ring holds.        *)
LEMMA PutKeepsNewest ==
  ASSUME NEW w \in Writers, TypeOK, SpaceStillFree, HoldsNewest, PutRange(w)
  PROVE  /\ Size(ring') = Size(ring) + writer[w].len
         /\ FreeSize(ring') = Max - Size(ring')
         /\ HoldsNewest'
<1> DEFINE len == writer[w].len
<1> USE SizesAssumption
<1>0. /\ len \in 1 .. MaxChunk
      /\ len <= FreeSize(ring)
      /\ Size(ring) \in 0 .. Max
      /\ FreeSize(ring) = Max - Size(ring)
  <2>1. Size(ring) \in 0 .. Max /\ FreeSize(ring) = Max - Size(ring)
    BY SizesComplement DEF TypeOK
  <2>2. len \in 1 .. FreeSize(ring) /\ len \in 0 .. MaxChunk
    BY DEF TypeOK, SpaceStillFree, PutRange
  <2>. QED BY <2>1, <2>2
<1> HIDE DEF len
<1>1. ring' = AdvancePointerN(ring, len) /\ slots' = CopyIn(len) /\ written' = written + len
  BY DEF PutRange, len
<1>2. /\ ring.tail = ring'.tail /\ Size(ring') = Size(ring) + len
      /\ ring' \in Ring /\ (ring'.full => ring'.head = ring'.tail)
  <2>1. ring \in Ring /\ (ring.full => ring.head = ring.tail) /\ len \in Nat
    BY <1>0 DEF TypeOK
  <2>2. /\ AdvancePointerN(ring, len).tail = ring.tail
        /\ Size(AdvancePointerN(ring, len)) = Size(ring) + len
    BY <1>0, <2>1, AdvanceFits
  <2>3. /\ AdvancePointerN(ring, len) \in Ring
        /\ AdvancePointerN(ring, len).full
             => AdvancePointerN(ring, len).head = AdvancePointerN(ring, len).tail
    BY <2>1, AdvanceType
  <2>. QED BY <1>1, <2>2, <2>3
<1>3. FreeSize(ring') = Max - Size(ring')
  BY <1>2, SizesComplement
<1>4. ASSUME NEW k \in 0 .. Size(ring') - 1
      PROVE  slots'[(ring'.tail + k) % Max] = written' - Size(ring') + k + 1
  <2>0. k \in Index
    BY <1>0, <1>2 DEF Index
  <2>1. PICK i \in Index : i = (ring.tail + k) % Max
    BY <2>0, OffsetFromTail DEF TypeOK
  <2>2. Offset(i, ring.head)
          = IF k < Size(ring) THEN Max - Size(ring) + k ELSE k - Size(ring)
    BY <2>0, <2>1, OffsetFromTail DEF TypeOK
  <2>3. slots'[i] = IF Offset(i, ring.head) < len
                    THEN written + 1 + Offset(i, ring.head) ELSE slots[i]
    BY <1>1 DEF CopyIn
  <2>4. CASE k < Size(ring)
    <3>1. slots[i] = written - Size(ring) + k + 1
      BY <1>0, <2>1, <2>4 DEF HoldsNewest
    <3>2. ~ (Offset(i, ring.head) < len)
      BY <1>0, <2>2, <2>4
    <3>3. slots'[i] = written - Size(ring) + k + 1
      BY <2>3, <3>1, <3>2
    <3>. QED BY <1>0, <1>1, <1>2, <2>1, <3>3 DEF TypeOK
  <2>5. CASE k >= Size(ring)
    <3>1. Offset(i, ring.head) = k - Size(ring) /\ Offset(i, ring.head) < len
      BY <1>0, <1>2, <2>2, <2>5
    <3>2. slots'[i] = written + 1 + (k - Size(ring))
      BY <2>3, <3>1
    <3>. QED BY <1>0, <1>1, <1>2, <2>1, <3>2 DEF TypeOK
  <2>. QED BY <1>0, <2>4, <2>5
<1>5. HoldsNewest'
  BY <1>4 DEF HoldsNewest
<1>. QED BY <1>2, <1>3, <1>5 DEF len

(* The reader's copy takes the oldest bytes, in order, and leaves the rest. *)
LEMMA TakeKeepsNewest ==
  ASSUME NEW r \in Readers, TypeOK, BytesStillStored, HoldsNewest, GetRange(r)
  PROVE  /\ reader[r].len \in 1 .. Size(ring)
         /\ Size(ring') = Size(ring) - reader[r].len
         /\ FreeSize(ring') = Max - Size(ring')
         /\ HoldsNewest'
         /\ \A k \in 0 .. reader[r].len - 1 :
              reader'[r].buf[k] = written - Size(ring) + k + 1
<1> DEFINE len == reader[r].len
<1> USE SizesAssumption
<1>0. len \in 1 .. MaxChunk /\ len <= Size(ring) /\ Size(ring) \in 0 .. Max
  <2>1. Size(ring) \in 0 .. Max
    BY SizesComplement DEF TypeOK
  <2>2. len \in 1 .. Size(ring) /\ len \in 0 .. MaxChunk
    BY DEF TypeOK, BytesStillStored, GetRange
  <2>. QED BY <2>1, <2>2
<1>1. /\ ring' = RetreatPointerN(ring, len)
      /\ slots' = slots /\ written' = written
      /\ reader'[r].buf = CopyOut(reader[r].buf, len)
  BY DEF GetRange, TypeOK
<1> HIDE DEF len
<1>2. Size(ring') = Size(ring) - len /\ ring' \in Ring /\ ~ ring'.full
  <2>1. ring \in Ring /\ (ring.full => ring.head = ring.tail) /\ len \in Nat
    BY <1>0 DEF TypeOK
  <2>2. Size(RetreatPointerN(ring, len)) = Size(ring) - len
    BY <1>0, <2>1, RetreatStored
  <2>3. RetreatPointerN(ring, len) \in Ring /\ ~ RetreatPointerN(ring, len).full
    BY <2>1, RetreatType
  <2>. QED BY <1>1, <2>2, <2>3
<1>3. FreeSize(ring') = Max - Size(ring')
  BY <1>2, SizesComplement
<1>4. ring'.tail = (ring.tail + len) % Max
  BY <1>1 DEF RetreatPointerN
<1>5. ASSUME NEW k \in 0 .. Size(ring') - 1
      PROVE  slots'[(ring'.tail + k) % Max] = written' - Size(ring') + k + 1
  <2>0. ring.tail \in Index
    BY DEF TypeOK, Ring
  <2>1. len + k \in 0 .. Size(ring) - 1
    BY <1>0, <1>2
  <2>2. (ring'.tail + k) % Max = (ring.tail + (len + k)) % Max
    BY <1>0, <1>4, <2>0, <2>1, StepTwice
  <2>3. slots[(ring.tail + (len + k)) % Max] = written - Size(ring) + (len + k) + 1
    BY <2>1 DEF HoldsNewest
  <2>. QED BY <1>0, <1>1, <1>2, <2>2, <2>3 DEF TypeOK
<1>6. HoldsNewest'
  BY <1>5 DEF HoldsNewest
<1>7. ASSUME NEW k \in 0 .. len - 1
      PROVE  reader'[r].buf[k] = written - Size(ring) + k + 1
  <2>1. k \in Chunk /\ k < len /\ k \in 0 .. Size(ring) - 1
    BY <1>0 DEF Chunk
  <2>2. reader'[r].buf[k] = slots[(ring.tail + k) % Max]
    BY <1>1, <2>1 DEF CopyOut
  <2>. QED BY <2>1, <2>2 DEF HoldsNewest
<1>. QED BY <1>0, <1>2, <1>3, <1>6, <1>7 DEF len

(* The inductive invariant, for a single writer and a single reader on a   *)
(* ring that is not reset: what either of them found out in an earlier     *)
(* critical section of circular_buffer.c still holds in its next one.      *)
LEMMA StreamHolds ==
  ASSUME \A v, w \in Writers : v = w,
         \A q, r \in Readers : q = r,
         MaxResets = 0
  PROVE  Spec => []StreamInv
<1> USE SizesAssumption
<1>1. Init => StreamInv
  BY DEF Init, StreamInv, TypeOK, SpaceStillFree, BytesStillStored, InHand,
         AllAccountedFor, SizeCountsStored, HoldsNewest, InOrder, EmptyRing,
         Ring, Index, Chunk, Unwritten, Size
<1>2. StreamInv /\ [Next]_vars => StreamInv'
  <2> SUFFICES ASSUME StreamInv, [Next]_vars, TypeOK, TypeOK'
               PROVE  StreamInv'
    BY TypeStep DEF StreamInv
  <2> USE DEF StreamInv
  <2>0. Size(ring) \in 0 .. Max /\ FreeSize(ring) = Max - Size(ring)
    BY SizesComplement DEF TypeOK
  <2>1. ASSUME NEW w \in Writers, NEW n \in 1 .. MaxChunk, WaitFree(w, n)
        PROVE  StreamInv'
    <3>1. SpaceStillFree'
      BY <2>0, <2>1 DEF WaitFree, SpaceStillFree, TypeOK
    <3>. QED
      BY <2>1, <3>1 DEF WaitFree, BytesStillStored, InHand, AllAccountedFor,
         SizeCountsStored, HoldsNewest, InOrder
  <2>2. ASSUME NEW w \in Writers, TestFull(w)
        PROVE  StreamInv'
    <3>1. SpaceStillFree'
      BY <2>2 DEF TestFull, SpaceStillFree, TypeOK
    <3>. QED
      BY <2>2, <3>1 DEF TestFull, BytesStillStored, InHand, AllAccountedFor,
         SizeCountsStored, HoldsNewest, InOrder
  <2>3. ASSUME NEW w \in Writers, PutRange(w)
        PROVE  StreamInv'
    <3>1. /\ Size(ring') = Size(ring) + writer[w].len
          /\ FreeSize(ring') = Max - Size(ring')
          /\ HoldsNewest'
          /\ writer[w].len \in Nat
      BY <2>3, PutKeepsNewest DEF TypeOK
    <3>2. SpaceStillFree'
      BY <2>3 DEF PutRange, SpaceStillFree, TypeOK
    <3>3. BytesStillStored'
      BY <2>0, <2>3, <3>1 DEF PutRange, BytesStillStored, TypeOK
    <3>4. AllAccountedFor'
      BY <2>0, <2>3, <3>1 DEF PutRange, InHand, AllAccountedFor, TypeOK
    <3>5. SizeCountsStored'
      BY <2>3, <3>1 DEF PutRange, SizeCountsStored
    <3>6. InOrder'
      BY <2>3 DEF PutRange, InOrder
    <3>. QED BY <3>1, <3>2, <3>3, <3>4, <3>5, <3>6
  <2>4. ASSUME NEW r \in Readers, AskSize(r)
        PROVE  StreamInv'
    <3>1. reader' = [reader EXCEPT
            ![r] = [pc |-> "sized", buf |-> reader[r].buf,
                    len |-> IF Size(ring) > MaxChunk THEN MaxChunk ELSE Size(ring)]]
      BY <2>4 DEF AskSize, TypeOK
    <3>2. BytesStillStored'
      BY <2>0, <2>4, <3>1 DEF AskSize, BytesStillStored, TypeOK
    <3>3. AllAccountedFor'
      BY <2>4, <3>1 DEF AskSize, InHand, AllAccountedFor, TypeOK
    <3>4. InOrder'
      BY <2>4, <3>1 DEF AskSize, InOrder, TypeOK
    <3>. QED
      BY <2>4, <3>2, <3>3, <3>4
         DEF AskSize, SpaceStillFree, SizeCountsStored, HoldsNewest
  <2>5. ASSUME NEW r \in Readers, TestSize(r)
        PROVE  StreamInv'
    <3>0. Size(ring) >= reader[r].len
      BY <2>5 DEF TestSize, BytesStillStored
    <3>1. reader' = [reader EXCEPT
            ![r] = [pc |-> "copy", len |-> reader[r].len, buf |-> reader[r].buf]]
      BY <2>5, <3>0 DEF TestSize, TypeOK
    <3>2. BytesStillStored'
      BY <2>5, <3>1 DEF TestSize, BytesStillStored, TypeOK
    <3>3. AllAccountedFor'
      BY <2>5, <3>1 DEF TestSize, InHand, AllAccountedFor, TypeOK
    <3>4. InOrder'
      BY <2>5, <3>1 DEF TestSize, InOrder, TypeOK
    <3>. QED
      BY <2>5, <3>2, <3>3, <3>4
         DEF TestSize, SpaceStillFree, SizeCountsStored, HoldsNewest
  <2>6. ASSUME NEW r \in Readers, GetRange(r)
        PROVE  StreamInv'
    <3>1. /\ reader[r].len \in 1 .. Size(ring)
          /\ Size(ring') = Size(ring) - reader[r].len
          /\ FreeSize(ring') = Max - Size(ring')
          /\ HoldsNewest'
          /\ \A k \in 0 .. reader[r].len - 1 :
               reader'[r].buf[k] = written - Size(ring) + k + 1
      BY <2>6, TakeKeepsNewest
    <3>2. /\ \A q \in Readers : q = r
          /\ reader'[r].pc = "pass" /\ reader'[r].len = reader[r].len
          /\ reader[r].pc = "copy"
      BY <2>6 DEF GetRange, TypeOK
    <3>3. SpaceStillFree'
      BY <2>0, <2>6, <3>1 DEF GetRange, SpaceStillFree, TypeOK
    <3>4. BytesStillStored'
      BY <3>2 DEF BytesStillStored
    <3>5. written = passed + Size(ring)
      BY <2>0, <3>2 DEF AllAccountedFor, InHand, TypeOK
    <3>6. AllAccountedFor'
      BY <2>0, <2>6, <3>1, <3>2, <3>5 DEF GetRange, AllAccountedFor, InHand, TypeOK
    <3>7. SizeCountsStored'
      BY <2>0, <2>6, <3>1 DEF GetRange, SizeCountsStored, TypeOK
    <3>8. InOrder'
      <4>1. ASSUME NEW k \in 0 .. reader[r].len - 1
            PROVE  reader'[r].buf[k] = passed + k + 1
        BY <2>0, <3>1, <3>5 DEF TypeOK
      <4>. QED BY <2>6, <3>2, <4>1 DEF GetRange, InOrder
    <3>. QED BY <3>1, <3>3, <3>4, <3>6, <3>7, <3>8
  <2>7. ASSUME NEW r \in Readers, PassOn(r)
        PROVE  StreamInv'
    <3>1. /\ \A q \in Readers : q = r
          /\ reader'[r].pc = "idle" /\ reader[r].pc = "pass"
          /\ reader[r].len \in Nat
      BY <2>7 DEF PassOn, TypeOK
    <3>2. AllAccountedFor'
      BY <2>0, <2>7, <3>1 DEF PassOn, AllAccountedFor, InHand, TypeOK
    <3>3. BytesStillStored' /\ InOrder'
      BY <3>1 DEF BytesStillStored, InOrder
    <3>. QED
      BY <2>7, <3>2, <3>3
         DEF PassOn, SpaceStillFree, SizeCountsStored, HoldsNewest
  <2>8. CASE Reset
    BY <2>8 DEF Reset, TypeOK
  <2>9. CASE UNCHANGED vars
    BY <2>9 DEF vars, SpaceStillFree, BytesStillStored, InHand, AllAccountedFor,
       SizeCountsStored, HoldsNewest, InOrder
  <2>. QED
    BY <2>1, <2>2, <2>3, <2>4, <2>5, <2>6, <2>7, <2>8, <2>9
       DEF Next, Transfer, Write, Read
<1>. QED BY <1>1, <1>2, PTL DEF Spec

(* With one writer, one reader and no reset, what the reader passes on is  *)
(* the next part of what the writer put, whatever the capacity and the     *)
(* sizes of the chunks (put_range and get_range).                          *)
THEOREM StreamInOrder ==
  ASSUME \A v, w \in Writers : v = w,
         \A q, r \in Readers : q = r,
         MaxResets = 0
  PROVE  Spec => []InOrder
<1>1. StreamInv => InOrder
  BY DEF StreamInv
<1>. QED BY <1>1, StreamHolds, PTL

(* Then circular_buf_size is the number of bytes put and not yet taken.    *)
THEOREM SizeIsTrue ==
  ASSUME \A v, w \in Writers : v = w,
         \A q, r \in Readers : q = r,
         MaxResets = 0
  PROVE  Spec => []SizeCountsStored
<1>1. StreamInv => SizeCountsStored
  BY DEF StreamInv
<1>. QED BY <1>1, StreamHolds, PTL

(* And put_range never copies over bytes that were not read, although it   *)
(* only tests for a full ring.                                             *)
THEOREM SpaceSuffices ==
  ASSUME \A v, w \in Writers : v = w,
         \A q, r \in Readers : q = r,
         MaxResets = 0
  PROVE  Spec => []EnoughFreeSpace
<1>1. StreamInv => EnoughFreeSpace
  <2> SUFFICES ASSUME StreamInv PROVE EnoughFreeSpace
    OBVIOUS
  <2>1. FreeSize(ring) \in Nat
    BY SizesAssumption, SizesComplement DEF StreamInv, TypeOK
  <2>. QED BY <2>1 DEF StreamInv, SpaceStillFree, EnoughFreeSpace
<1>. QED BY <1>1, StreamHolds, PTL

-----------------------------------------------------------------------------
(* The ring as a stream: the step simulation of ByteStream.                *)

(* The next n bytes of the stream after byte number a.                     *)
Bytes(a, n) == [k \in 1 .. n |-> a + k]

LEMMA BytesSeq ==
  ASSUME NEW a \in Int, NEW n \in Nat
  PROVE  Bytes(a, n) \in Seq(Int) /\ Len(Bytes(a, n)) = n
BY DEF Bytes

LEMMA BytesJoin ==
  ASSUME NEW a \in Int, NEW m \in Nat, NEW n \in Nat
  PROVE  Bytes(a, m) \o Bytes(a + m, n) = Bytes(a, m + n)
BY DEF Bytes

LEMMA BytesSplit ==
  ASSUME NEW a \in Int, NEW n \in Nat, NEW m \in 0 .. n
  PROVE  /\ SubSeq(Bytes(a, n), 1, m) = Bytes(a, m)
         /\ SubSeq(Bytes(a, n), m + 1, n) = Bytes(a + m, n - m)
BY DEF Bytes

(* What the refinement mapping makes of a state of the ring.               *)
Queue == [k \in 1 .. Size(ring) |-> slots[(ring.tail + k - 1) % Max]]
Hand ==
  LET r == CHOOSE r \in Readers : TRUE
  IN  IF reader[r].pc = "pass"
      THEN [k \in 1 .. reader[r].len |-> reader[r].buf[k - 1]]
      ELSE <<>>

(* In the invariant both are the next parts of what was written.           *)
LEMMA QueueIs == StreamInv => Queue = Bytes(written - Size(ring), Size(ring))
<1> SUFFICES ASSUME StreamInv PROVE Queue = Bytes(written - Size(ring), Size(ring))
  OBVIOUS
<1>1. Size(ring) \in 0 .. Max /\ written \in Nat
  BY SizesAssumption, SizesComplement DEF StreamInv, TypeOK
<1>2. ring.tail \in Nat
  BY SizesAssumption DEF StreamInv, TypeOK, Ring, Index
<1>3. ASSUME NEW k \in 1 .. Size(ring)
      PROVE  slots[(ring.tail + k - 1) % Max] = written - Size(ring) + k
  <2>1. k - 1 \in 0 .. Size(ring) - 1 /\ ring.tail + (k - 1) = ring.tail + k - 1
    BY <1>1, <1>2
  <2>2. slots[(ring.tail + (k - 1)) % Max] = written - Size(ring) + (k - 1) + 1
    BY <2>1 DEF StreamInv, HoldsNewest
  <2>3. written - Size(ring) + (k - 1) + 1 = written - Size(ring) + k
    BY <1>1
  <2>. QED BY <2>1, <2>2, <2>3
<1>. QED BY <1>3 DEF Queue, Bytes

HandFollows ==
  \A r : Readers = {r} =>
    Hand = IF reader[r].pc = "pass" THEN Bytes(passed, reader[r].len) ELSE <<>>

LEMMA HandIs == StreamInv => HandFollows
<1> SUFFICES ASSUME StreamInv, NEW r, Readers = {r}
             PROVE  Hand = IF reader[r].pc = "pass"
                           THEN Bytes(passed, reader[r].len) ELSE <<>>
  BY DEF HandFollows
<1>1. (CHOOSE q \in Readers : TRUE) = r
  OBVIOUS
<1>2. passed \in Nat /\ reader[r].len \in Nat
  BY DEF StreamInv, TypeOK
<1>3. ASSUME reader[r].pc = "pass", NEW k \in 1 .. reader[r].len
      PROVE  reader[r].buf[k - 1] = passed + k
  <2>1. k - 1 \in 0 .. reader[r].len - 1
    BY <1>2
  <2>2. reader[r].buf[k - 1] = passed + (k - 1) + 1
    BY <1>3, <2>1 DEF StreamInv, InOrder
  <2>. QED BY <1>2, <2>2
<1>. QED BY <1>1, <1>3 DEF Hand, Bytes

(* No reader passes on an empty buffer.                                    *)
HandNotEmpty == \A r \in Readers : reader[r].pc = "pass" => reader[r].len > 0

LEMMA HandStep == StreamInv /\ HandNotEmpty /\ [Next]_vars => HandNotEmpty'
<1> SUFFICES ASSUME StreamInv, HandNotEmpty, [Next]_vars PROVE HandNotEmpty'
  OBVIOUS
<1>1. CASE reader' = reader
  BY <1>1 DEF HandNotEmpty
<1>2. ASSUME NEW r \in Readers, Read(r) PROVE HandNotEmpty'
  <2>1. reader[r].len \in Nat /\ Size(ring) \in Int
    BY SizesAssumption, SizesComplement DEF StreamInv, TypeOK
  <2>. QED
    BY <1>2, <2>1 DEF Read, AskSize, TestSize, GetRange, PassOn, HandNotEmpty,
       StreamInv, TypeOK, BytesStillStored
<1>. QED
  BY <1>1, <1>2 DEF Next, Transfer, Write, WaitFree, TestFull, PutRange, Reset, vars

(* Every critical section is a step of the stream, or none.                *)
LEMMA StreamStep ==
  ASSUME NEW r, Readers = {r}, MaxResets = 0,
         StreamInv, StreamInv', HandNotEmpty, [Next]_vars
  PROVE  [Stream!Next]_(Stream!vars)
<1> USE SizesAssumption
<1> DEFINE size == Size(ring)
           low == written - size
           len == reader[r].len
<1>0. /\ size \in 0 .. Max /\ size' \in 0 .. Max
      /\ written \in Nat /\ passed \in Nat /\ len \in 0 .. MaxChunk
      /\ written' \in Nat /\ passed' \in Nat /\ len' \in 0 .. MaxChunk
      /\ FreeSize(ring) = Max - size
  BY SizesComplement DEF StreamInv, TypeOK
<1>1. /\ Queue = Bytes(low, size) /\ Queue' = Bytes(low', size')
      /\ Len(Queue) = size
  <2>1. (StreamInv => Queue = Bytes(written - Size(ring), Size(ring)))'
    BY QueueIs, PTL
  <2>2. Queue = Bytes(low, size) /\ Queue' = Bytes(low', size')
    BY <2>1, QueueIs
  <2>3. low \in Int /\ size \in Nat
    BY <1>0
  <2> HIDE DEF low, size
  <2>. QED BY <2>2, <2>3, BytesSeq
<1>2. /\ Hand = IF reader[r].pc = "pass" THEN Bytes(passed, len) ELSE <<>>
      /\ Hand' = IF reader'[r].pc = "pass" THEN Bytes(passed', len') ELSE <<>>
  <2>1. StreamInv' => HandFollows'
    BY HandIs, PTL
  <2>. QED BY <2>1, HandIs DEF HandFollows
<1>a. low \in Int /\ low + size = written /\ low' + size' = written' /\ low' \in Int
  BY <1>0
<1> HIDE DEF low, size, len
<1>3. ASSUME NEW w \in Writers, PutRange(w)
      PROVE  Stream!Next
  <2>0. PICK n \in 1 .. MaxChunk : n = writer[w].len
    BY <1>3 DEF StreamInv, TypeOK, SpaceStillFree, PutRange
  <2>1. n <= Max - size
    BY <1>0, <1>3, <2>0 DEF StreamInv, TypeOK, SpaceStillFree, PutRange
  <2>2. size' = size + n
    BY <1>3, <2>0, PutKeepsNewest DEF StreamInv, size
  <2>3. written' = written + n /\ reader' = reader /\ passed' = passed
    BY <1>3, <2>0 DEF PutRange
  <2>4. Len(Queue) + n <= Max
    BY <1>0, <1>1, <2>1
  <2>5. Queue' = Queue \o [i \in 1 .. n |-> written + i]
    <3>1. size \in Nat /\ n \in Nat
      BY <1>0, <2>1
    <3>a. low' = low
      BY <1>a, <2>2, <2>3, <3>1
    <3>2. Bytes(low, size + n) = Bytes(low, size) \o Bytes(low + size, n)
      BY <1>a, <3>1, BytesJoin
    <3>. QED BY <1>1, <1>a, <2>2, <3>a, <3>2 DEF Bytes
  <2>6. Hand' = Hand
    BY <2>3 DEF Hand
  <2>7. Stream!Send(n)
    BY <2>3, <2>4, <2>5, <2>6 DEF Stream!Send, Queue, Hand
  <2>. QED BY <2>7 DEF Stream!Next
<1>4. CASE GetRange(r)
  <2>1. len \in 1 .. MaxChunk /\ len <= size /\ size' = size - len
    BY <1>0, <1>4, TakeKeepsNewest DEF StreamInv, size, len
  <2>2. /\ written' = written /\ passed' = passed
        /\ reader[r].pc = "copy" /\ reader'[r].pc = "pass" /\ len' = len
    BY <1>4 DEF StreamInv, TypeOK, GetRange, len
  <2>3. written = passed + size
    BY <1>0, <2>2 DEF StreamInv, AllAccountedFor, InHand, size
  <2>4. low = passed /\ low' = passed + len /\ size \in Nat /\ len \in 0 .. size
    BY <1>0, <1>a, <2>1, <2>2, <2>3
  <2>5. /\ SubSeq(Bytes(low, size), 1, len) = Bytes(low, len)
        /\ SubSeq(Bytes(low, size), len + 1, size) = Bytes(low + len, size - len)
    BY <1>a, <2>4, BytesSplit
  <2>6. Hand = <<>> /\ Hand' = SubSeq(Queue, 1, len)
    BY <1>1, <1>2, <2>2, <2>4, <2>5
  <2>7. Queue' = SubSeq(Queue, len + 1, Len(Queue))
    BY <1>1, <2>1, <2>4, <2>5
  <2>8. PICK n \in 1 .. MaxChunk : n = len
    BY <2>1
  <2>9. Stream!Take(n)
    BY <1>1, <2>1, <2>2, <2>6, <2>7, <2>8 DEF Stream!Take, Queue, Hand
  <2>. QED BY <2>9 DEF Stream!Next, Stream!TakeSome
<1>5. CASE PassOn(r)
  <2>1. /\ reader[r].pc = "pass" /\ reader'[r].pc = "idle" /\ passed' = passed + len
        /\ ring' = ring /\ slots' = slots /\ written' = written
    BY <1>5 DEF PassOn, StreamInv, TypeOK, len
  <2>2. len \in Nat /\ len > 0
    BY <1>0, <2>1 DEF HandNotEmpty, len
  <2>3. Hand = Bytes(passed, len) /\ Hand' = <<>> /\ Len(Hand) = len
    BY <1>0, <1>2, <2>1, <2>2, BytesSeq
  <2>4. Hand # <<>>
    BY <2>2, <2>3
  <2>5. Queue' = Queue
    BY <2>1 DEF Queue
  <2>6. Stream!Receive
    BY <2>1, <2>3, <2>4, <2>5 DEF Stream!Receive, Queue, Hand
  <2>. QED BY <2>6 DEF Stream!Next
<1>6. ASSUME \/ \E w \in Writers : TestFull(w) \/ \E n \in 1 .. MaxChunk : WaitFree(w, n)
             \/ AskSize(r) \/ TestSize(r) \/ UNCHANGED vars
      PROVE  UNCHANGED Stream!vars
  <2>1. /\ ring' = ring /\ slots' = slots /\ written' = written /\ passed' = passed
    BY <1>6 DEF TestFull, WaitFree, AskSize, TestSize, vars
  <2>2. Hand' = Hand
    <3>1. CASE reader' = reader
      BY <3>1 DEF Hand
    <3>2. CASE AskSize(r) \/ TestSize(r)
      <4>1. reader[r].pc # "pass" /\ reader'[r].pc # "pass"
        BY <3>2 DEF AskSize, TestSize, StreamInv, TypeOK, BytesStillStored
      <4>. QED BY <1>2, <4>1
    <3>. QED BY <1>6, <3>1, <3>2 DEF TestFull, WaitFree, vars
  <2>. QED BY <2>1, <2>2 DEF Stream!vars, Queue, Hand
<1>7. ~ Reset
  BY DEF Reset, StreamInv, TypeOK
<1>. QED
  BY <1>3, <1>4, <1>5, <1>6, <1>7 DEF Next, Transfer, Write, Read

(* With one writer, one reader and no reset, the ring of circular_buffer.c *)
(* implements the byte stream, for every capacity and every size of the    *)
(* chunks: put_range appends to it, get_range takes from its front, and no *)
(* other critical section shows.                                           *)
THEOREM RingIsStream ==
  ASSUME \A v, w \in Writers : v = w,
         \A q, r \in Readers : q = r,
         Readers # {},
         MaxResets = 0
  PROVE  Spec => Stream!Spec
<1>0. PICK r : Readers = {r}
  OBVIOUS
<1>1. Init => Stream!Init /\ HandNotEmpty
  <2> SUFFICES ASSUME Init PROVE Stream!Init /\ HandNotEmpty
    OBVIOUS
  <2>1. (CHOOSE q \in Readers : TRUE) = r /\ Size(ring) = 0
    BY <1>0, SizesAssumption DEF Init, EmptyRing, Size
  <2>. QED BY <1>0, <2>1 DEF Init, HandNotEmpty, Stream!Init
<1>2. Spec => []StreamInv
  BY StreamHolds
<1>3. StreamInv /\ StreamInv' /\ HandNotEmpty /\ [Next]_vars => [Stream!Next]_(Stream!vars)
  BY <1>0, StreamStep
<1>. QED BY <1>1, <1>2, <1>3, HandStep, PTL DEF Spec, Stream!Spec

=============================================================================
