------------------------- MODULE AudioPipelineProofs -------------------------
(***************************************************************************)
(* Proofs about the sound path, for every size of buffers, periods and     *)
(* blocks and any number of switches: the offsets stay in the mapping,     *)
(* what control_thread learned about a buffer stays true until it acts on  *)
(* it, no reader sleeps on what it waits for, and a writer does only after *)
(* a clear_buffer, but then for good.                                      *)
(***************************************************************************)
EXTENDS AudioPipeline, TLAPS

(* Every buffer has one thread that writes and one that reads: where the   *)
(* threads may be.                                                         *)
PlacesOK ==
  /\ at["radio_capture"].op = "write"
  /\ at["radio_capture"].on \in {"radio_to_dsp", "mic_to_dsp"}
  /\ at["loop_capture"] = To("write", "loopback_to_dsp")
  /\ at["radio_playback"].op = "read"
  /\ at["radio_playback"].on \in {"dsp_to_radio", "dsp_to_speaker"}
  /\ at["loop_playback"] = To("read", "dsp_to_loopback")
  /\ at[Control].op \in {"top", "dsp"} => at[Control].on = "none"
  /\ at[Control].op = "read" => at[Control].on \in Inputs
  /\ at[Control].op = "size" => at[Control].on = "loopback_to_dsp"
  /\ at[Control].op \in {"free", "write"} => at[Control].on \in Outputs
  /\ at[Control].op = "clear" => at[Control].on \in {"loopback_to_dsp", "dsp_to_loopback"}
  /\ at[Control].op = "flush" => at[Control].on \in Buffers

(* What control_thread was told holds until it acts on it: the loopback    *)
(* still has the block, the output still has the room.                     *)
AnswerStands ==
  /\ at[Control] = To("read", "loopback_to_dsp") => Count("loopback_to_dsp") >= Block
  /\ at[Control].op = "write" => FreeCount(at[Control].on) >= Block

SleepersCall == \A t \in asleep : at[t].op \in {"read", "write"}

Inv ==
  /\ TypeOK
  /\ PlacesOK
  /\ AnswerStands
  /\ SleepersCall
  /\ TestedCallsNeverBlock
  /\ ReadersSleepForCause

-----------------------------------------------------------------------------
(* The arithmetic of the offsets.                                          *)

LEMMA CountIs ==
  ASSUME TypeOK, NEW b \in Buffers
  PROVE  /\ buf[b] \in Offsets
         /\ buf[b].read \in Int /\ buf[b].write \in Int
         /\ Count(b) = buf[b].write - buf[b].read
         /\ Count(b) \in 0 .. Capacity
         /\ FreeCount(b) = Capacity - Count(b)
BY SizesAssumption DEF TypeOK, Offsets, Count, FreeCount

(* Reading n bytes that are there.                                         *)
LEMMA ReadAdvances ==
  ASSUME TypeOK, NEW b \in Buffers, NEW n \in Nat, n <= Count(b),
         buf' = ReadAdvance(b, n)
  PROVE  /\ buf' \in [Buffers -> Offsets]
         /\ Count(b)' = Count(b) - n
         /\ \A c \in Buffers \ {b} : Count(c)' = Count(c)
<1>1. buf \in [Buffers -> Offsets] /\ buf[b] \in Offsets
  BY DEF TypeOK
<1>2. PICK r, w \in Int : /\ buf[b].read = r /\ buf[b].write = w
                          /\ r >= 0 /\ r < Capacity /\ w >= r /\ w <= r + Capacity
  BY CountIs, SizesAssumption DEF Offsets
<1> DEFINE back == IF r + n >= Capacity THEN Capacity ELSE 0
<1>3. Count(b) = w - r
  BY <1>2 DEF Count
<1>4. buf' = [buf EXCEPT ![b] = [read |-> r + n - back, write |-> w - back]]
  BY <1>1, <1>2 DEF ReadAdvance
<1>5. /\ r + n - back \in 0 .. Capacity - 1
      /\ w - back \in 0 .. 2 * Capacity - 1
  BY <1>2, <1>3, SizesAssumption
<1>6. buf' \in [Buffers -> Offsets]
  BY <1>1, <1>4, <1>5 DEF Offsets
<1>7. Count(b)' = Count(b) - n
  BY <1>1, <1>2, <1>3, <1>4, SizesAssumption DEF Count
<1>8. ASSUME NEW c \in Buffers \ {b} PROVE Count(c)' = Count(c)
  BY <1>1, <1>4 DEF Count
<1>. QED BY <1>6, <1>7, <1>8

(* Writing n bytes for which there is room.                                *)
LEMMA WriteAdvances ==
  ASSUME TypeOK, NEW b \in Buffers, NEW n \in Nat, n <= FreeCount(b),
         buf' = WriteAdvance(b, n)
  PROVE  /\ buf' \in [Buffers -> Offsets]
         /\ Count(b)' = Count(b) + n
         /\ \A c \in Buffers \ {b} : Count(c)' = Count(c)
<1>1. buf \in [Buffers -> Offsets] /\ buf[b] \in Offsets
  BY DEF TypeOK
<1>2. PICK r, w \in Int : /\ buf[b].read = r /\ buf[b].write = w
                          /\ r >= 0 /\ r < Capacity /\ w >= r /\ w <= r + Capacity
                          /\ w + n <= r + Capacity
  BY CountIs, SizesAssumption DEF Offsets
<1>3. Count(b) = w - r
  BY <1>2 DEF Count
<1>4. /\ buf'[b] = [buf[b] EXCEPT !.write = w + n]
      /\ \A c \in Buffers \ {b} : buf'[c] = buf[c]
  BY <1>1, <1>2 DEF WriteAdvance
<1>5. w + n \in 0 .. 2 * Capacity - 1
  BY <1>2, SizesAssumption
<1>6. buf'[b] \in Offsets /\ buf'[b].read = r /\ buf'[b].write = w + n
  BY <1>1, <1>2, <1>4, <1>5 DEF Offsets
<1>7. buf' \in [Buffers -> Offsets]
  BY <1>1, <1>4, <1>6 DEF WriteAdvance
<1>8. Count(b)' = Count(b) + n
  BY <1>2, <1>3, <1>6 DEF Count
<1>9. ASSUME NEW c \in Buffers \ {b} PROVE Count(c)' = Count(c)
  BY <1>4 DEF Count
<1>. QED BY <1>7, <1>8, <1>9

LEMMA Clears ==
  ASSUME TypeOK, NEW b \in Buffers, buf' = Cleared(b)
  PROVE  /\ buf' \in [Buffers -> Offsets]
         /\ Count(b)' = 0
         /\ \A c \in Buffers \ {b} : Count(c)' = Count(c)
<1>1. buf \in [Buffers -> Offsets]
  BY DEF TypeOK
<1>2. buf' = [buf EXCEPT ![b] = [read |-> 0, write |-> 0]]
  BY DEF Cleared
<1>. QED BY <1>1, <1>2, SizesAssumption DEF Offsets, Count

-----------------------------------------------------------------------------
(* Where a thread goes is a place of its own.                              *)
LEMMA ThenIsPlace ==
  ASSUME TypeOK, PlacesOK
  PROVE  /\ \A t \in Threads : Then(t) \in Place
         /\ Then("radio_capture") \in {To("write", "radio_to_dsp"), To("write", "mic_to_dsp")}
         /\ Then("loop_capture") = To("write", "loopback_to_dsp")
         /\ Then("radio_playback") \in {To("read", "dsp_to_radio"), To("read", "dsp_to_speaker")}
         /\ Then("loop_playback") = To("read", "dsp_to_loopback")
         /\ Then(Control) \in
              {To("read", "radio_to_dsp"), To("read", "mic_to_dsp"),
               To("size", "loopback_to_dsp"), To("clear", "loopback_to_dsp"),
               To("dsp", "none"), To("top", "none")}
              \cup {To("free", b) : b \in Outputs}
<1> USE DEF To, Control
<1>1. Then("radio_capture") \in {To("write", "radio_to_dsp"), To("write", "mic_to_dsp")}
  BY DEF Then
<1>2. Then("radio_playback") \in {To("read", "dsp_to_radio"), To("read", "dsp_to_speaker")}
  BY DEF Then
<1>3. Then("loop_capture") = at["loop_capture"] /\ Then("loop_playback") = at["loop_playback"]
  BY DEF Then
<1>4. Then(Control) \in
        {To("read", "radio_to_dsp"), To("read", "mic_to_dsp"),
         To("size", "loopback_to_dsp"), To("clear", "loopback_to_dsp"),
         To("dsp", "none"), To("top", "none")}
        \cup {To("free", b) : b \in Outputs}
  BY DEF Then, Outputs
<1>5. \A t \in Threads : Then(t) \in Place
  BY <1>1, <1>2, <1>3, <1>4
     DEF TypeOK, Place, Threads, Captures, Playbacks, Buffers, Inputs, Outputs
<1>. QED BY <1>1, <1>2, <1>3, <1>4, <1>5 DEF PlacesOK

LEMMA FlushIsPlace ==
  ASSUME NEW b
  PROVE  FlushNext(b) \in {To("flush", c) : c \in Buffers} \cup {To("free", "dsp_to_loopback")}
BY DEF FlushNext, To, Buffers, Inputs, Outputs

LEMMA AmountType == \A t \in Threads : Amount(t) \in Nat /\ Amount(t) <= Capacity
BY SizesAssumption DEF Amount

(* Besides the caller only one thread can be on a buffer.                  *)
LEMMA OnePartner ==
  ASSUME PlacesOK, NEW t \in Threads, NEW u \in Threads, NEW v \in Threads,
         u # t, v # t, at[u].on = at[t].on, at[v].on = at[t].on
  PROVE  u = v
<1>1. Threads = {Control, "radio_capture", "loop_capture", "radio_playback", "loop_playback"}
  BY DEF Threads, Captures, Playbacks
<1>2. /\ at["loop_capture"].on = "loopback_to_dsp"
      /\ at["loop_playback"].on = "dsp_to_loopback"
  BY DEF PlacesOK, To
<1>. QED BY <1>1, <1>2 DEF PlacesOK, Control

(* The part of the invariant about the places is kept by a thread that     *)
(* returns from its call.                                                  *)
LEMMA GoThen ==
  ASSUME TypeOK, PlacesOK, NEW t \in Threads, Go(t, Then(t))
  PROVE  /\ at' \in [Threads -> Place]
         /\ PlacesOK'
         /\ at'[t] = Then(t)
         /\ \A u \in Threads \ {t} : at'[u] = at[u]
<1>1. at \in [Threads -> Place] /\ at' = [at EXCEPT ![t] = Then(t)]
  BY DEF TypeOK, Go
<1>2. at' \in [Threads -> Place]
  BY <1>1, ThenIsPlace
<1>3. at'[t] = Then(t) /\ \A u \in Threads \ {t} : at'[u] = at[u]
  BY <1>1
<1>4. Threads = {Control, "radio_capture", "loop_capture", "radio_playback", "loop_playback"}
  BY DEF Threads, Captures, Playbacks
<1>5. ASSUME t = Control PROVE PlacesOK'
  <2>1. at'[Control] \in
          {To("read", "radio_to_dsp"), To("read", "mic_to_dsp"),
           To("size", "loopback_to_dsp"), To("clear", "loopback_to_dsp"),
           To("dsp", "none"), To("top", "none")}
          \cup {To("free", b) : b \in Outputs}
    BY <1>3, <1>5, ThenIsPlace
  <2>2. \A u \in Threads \ {Control} : at'[u] = at[u]
    BY <1>3, <1>5
  <2>. QED BY <1>4, <2>1, <2>2 DEF PlacesOK, To, Control, Inputs, Outputs, Buffers
<1>6. ASSUME t # Control PROVE PlacesOK'
  <2>1. at'[Control] = at[Control]
    BY <1>3, <1>4, <1>6
  <2>2. /\ at'["radio_capture"] \in {at["radio_capture"], Then("radio_capture")}
        /\ at'["loop_capture"] \in {at["loop_capture"], Then("loop_capture")}
        /\ at'["radio_playback"] \in {at["radio_playback"], Then("radio_playback")}
        /\ at'["loop_playback"] \in {at["loop_playback"], Then("loop_playback")}
    BY <1>3, <1>4
  <2>3. /\ at'["radio_capture"].op = "write"
        /\ at'["radio_capture"].on \in {"radio_to_dsp", "mic_to_dsp"}
        /\ at'["radio_playback"].op = "read"
        /\ at'["radio_playback"].on \in {"dsp_to_radio", "dsp_to_speaker"}
    BY <2>2, ThenIsPlace DEF PlacesOK, To
  <2>4. /\ at'["loop_capture"] = To("write", "loopback_to_dsp")
        /\ at'["loop_playback"] = To("read", "dsp_to_loopback")
    BY <2>2, ThenIsPlace DEF PlacesOK
  <2>. QED BY <2>1, <2>3, <2>4 DEF PlacesOK
<1>. QED BY <1>2, <1>3, <1>5, <1>6

-----------------------------------------------------------------------------
LEMMA Initially == Init => Inv
<1> SUFFICES ASSUME Init PROVE Inv
  OBVIOUS
<1>1. buf \in [Buffers -> Offsets] /\ \A b \in Buffers : Count(b) = 0
  BY SizesAssumption DEF Init, Offsets, Count
<1>2. at \in [Threads -> Place] /\ PlacesOK
  BY DEF Init, PlacesOK, Threads, Captures, Playbacks, Control, Place, To, Buffers, Inputs,
         Outputs
<1>3. TypeOK
  <2>1. {useLoopback, starting} \subseteq BOOLEAN
    BY DEF Init
  <2>2. \A b \in Buffers : Count(b) \in 0 .. Capacity
    BY <1>1, SizesAssumption
  <2>. QED BY <1>1, <1>2, <2>1, <2>2, BoundAssumption DEF Init, TypeOK
<1>4. at[Control] = To("top", "none") /\ asleep = {}
  BY DEF Init, Threads, Control, Captures, Playbacks
<1>. QED
  BY <1>2, <1>3, <1>4 DEF Inv, AnswerStands, SleepersCall, TestedCallsNeverBlock,
                          ReadersSleepForCause, To

-----------------------------------------------------------------------------
(* A call that finds too little in the buffer puts its thread to sleep.    *)
LEMMA SleepKeeps ==
  ASSUME Inv, NEW t \in Threads, at[t].op \in {"read", "write"},
         asleep' = asleep \cup {t}, UNCHANGED <<buf, at, Others>>,
         at[t].op = "read" => Count(at[t].on) < Amount(t),
         at[t].op = "write" => FreeCount(at[t].on) < Amount(t)
  PROVE  Inv'
<1>1. TypeOK' /\ PlacesOK' /\ AnswerStands'
  BY DEF Inv, TypeOK, PlacesOK, AnswerStands, Others, Count, FreeCount
<1>2. SleepersCall'
  BY DEF Inv, SleepersCall
<1>3. ReadersSleepForCause'
  BY DEF Inv, ReadersSleepForCause, Count
<1>4. ASSUME t # Control PROVE TestedCallsNeverBlock'
  BY <1>4 DEF Inv, TestedCallsNeverBlock
<1>5. ASSUME t = Control PROVE TestedCallsNeverBlock'
  <2>1. Amount(t) = Block
    BY <1>5 DEF Amount
  <2>2. at[t].op # "write"
    BY <1>5, <2>1, CountIs, SizesAssumption DEF Inv, AnswerStands, PlacesOK, Buffers
  <2>3. at[t].op = "read" /\ at[t].on \in Inputs
    BY <1>5, <2>2 DEF Inv, PlacesOK
  <2>4. at[t].on # "loopback_to_dsp"
    <3>1. SUFFICES ASSUME at[t].on = "loopback_to_dsp" PROVE FALSE
      OBVIOUS
    <3>2. at[t] = To("read", "loopback_to_dsp")
      BY <2>3, <3>1 DEF Inv, TypeOK, Place, To
    <3>. QED
      BY <1>5, <2>1, <2>3, <3>1, <3>2, CountIs, SizesAssumption
         DEF Inv, AnswerStands, Buffers, Inputs
  <2>. QED BY <1>5, <2>3, <2>4 DEF TestedCallsNeverBlock, Inputs
<1>. QED BY <1>1, <1>2, <1>3, <1>4, <1>5 DEF Inv

(* A read that finds enough: what other threads were told or wait for is   *)
(* not disturbed, for counts only fall and sleepers are only woken.        *)
LEMMA ReadReturns ==
  ASSUME Inv, NEW t \in Threads, NEW b \in Buffers, NEW n \in Nat,
         at[t].op = "read", at[t].on = b, t \notin asleep, n = Amount(t),
         Count(b) >= n, buf' = ReadAdvance(b, n), Signal(b), Go(t, Then(t)),
         UNCHANGED Others
  PROVE  Inv'
<1>0. TypeOK /\ PlacesOK
  BY DEF Inv
<1>1. /\ buf' \in [Buffers -> Offsets]
      /\ Count(b)' = Count(b) - n
      /\ \A c \in Buffers \ {b} : Count(c)' = Count(c)
  BY <1>0, CountIs, ReadAdvances, SizesAssumption
<1>2. /\ at' \in [Threads -> Place]
      /\ PlacesOK'
      /\ at'[t] = Then(t)
      /\ \A u \in Threads \ {t} : at'[u] = at[u]
  BY <1>0, GoThen
<1>3. asleep' \subseteq asleep /\ asleep \subseteq Threads
  BY <1>0 DEF Signal, TypeOK
<1>4. \A c \in Buffers : Count(c) \in 0 .. Capacity /\ Count(c)' \in 0 .. Capacity
                        /\ Count(c)' <= Count(c)
  BY <1>0, <1>1, CountIs, SizesAssumption
<1>5. TypeOK'
  BY <1>0, <1>1, <1>2, <1>3, <1>4 DEF TypeOK, Others
<1>6. AnswerStands'
  <2>1. CASE t = Control
    BY <1>0, <1>2, <2>1, ThenIsPlace DEF AnswerStands, To
  <2>2. CASE t # Control
    <3>1. b \in Outputs /\ at'[Control] = at[Control]
      BY <1>0, <1>2, <2>2 DEF PlacesOK, To, Outputs, Threads, Captures, Playbacks
    <3>2. Count("loopback_to_dsp")' = Count("loopback_to_dsp")
      BY <1>1, <3>1 DEF Outputs, Buffers, Inputs
    <3>3. ASSUME at[Control].op = "write"
          PROVE  FreeCount(at[Control].on)' >= Block
      <4>1. at[Control].on \in Buffers /\ FreeCount(at[Control].on) >= Block
        BY <1>0, <3>3 DEF Inv, AnswerStands, PlacesOK, Buffers
      <4>. QED BY <1>4, <3>1, <4>1, SizesAssumption DEF FreeCount
    <3>. QED BY <3>1, <3>2, <3>3 DEF Inv, AnswerStands
  <2>. QED BY <2>1, <2>2
<1>7. SleepersCall' /\ TestedCallsNeverBlock'
  BY <1>2, <1>3 DEF Inv, SleepersCall, TestedCallsNeverBlock
<1>8. ReadersSleepForCause'
  <2> SUFFICES ASSUME NEW u \in asleep', at'[u].op = "read"
               PROVE  (Count(at[u].on) < Amount(u))'
    BY DEF ReadersSleepForCause
  <2>1. u \in asleep /\ u \in Threads /\ at'[u] = at[u]
    BY <1>2, <1>3
  <2>2. at[u].on \in Buffers
    BY <1>0, <2>1 DEF PlacesOK, To, Threads, Captures, Playbacks, Buffers, Inputs, Outputs
  <2>3. Count(at[u].on) < Amount(u)
    BY <2>1 DEF Inv, ReadersSleepForCause
  <2>4. Amount(u)' = Amount(u) /\ Amount(u) \in Nat
    BY <2>1, AmountType DEF Amount
  <2>. QED BY <1>4, <2>1, <2>2, <2>3, <2>4
<1>. QED BY <1>2, <1>5, <1>6, <1>7, <1>8 DEF Inv

(* A write that finds room: the reader that waited for it, if it was       *)
(* asleep, was the only one on the buffer and is woken.                    *)
LEMMA WriteReturns ==
  ASSUME Inv, NEW t \in Threads, NEW b \in Buffers, NEW n \in Nat,
         at[t].op = "write", at[t].on = b, t \notin asleep, n = Amount(t),
         FreeCount(b) >= n, buf' = WriteAdvance(b, n), Signal(b), Go(t, Then(t)),
         UNCHANGED Others
  PROVE  Inv'
<1>0. TypeOK /\ PlacesOK
  BY DEF Inv
<1>1. /\ buf' \in [Buffers -> Offsets]
      /\ Count(b)' = Count(b) + n
      /\ \A c \in Buffers \ {b} : Count(c)' = Count(c)
  BY <1>0, CountIs, WriteAdvances, SizesAssumption
<1>2. /\ at' \in [Threads -> Place]
      /\ PlacesOK'
      /\ at'[t] = Then(t)
      /\ \A u \in Threads \ {t} : at'[u] = at[u]
  BY <1>0, GoThen
<1>3. asleep' \subseteq asleep /\ asleep \subseteq Threads
  BY <1>0 DEF Signal, TypeOK
<1>4. \A c \in Buffers : Count(c) \in 0 .. Capacity /\ Count(c)' \in 0 .. Capacity
                        /\ Count(c)' >= Count(c)
  BY <1>0, <1>1, CountIs, SizesAssumption
<1>5. TypeOK'
  BY <1>0, <1>1, <1>2, <1>3, <1>4 DEF TypeOK, Others
<1>6. AnswerStands'
  <2>1. CASE t = Control
    BY <1>0, <1>2, <2>1, ThenIsPlace DEF AnswerStands, To
  <2>2. CASE t # Control
    <3>1. b \in Inputs /\ at'[Control] = at[Control]
      BY <1>0, <1>2, <2>2 DEF PlacesOK, To, Inputs, Threads, Captures, Playbacks
    <3>2. ASSUME at[Control] = To("read", "loopback_to_dsp")
          PROVE  Count("loopback_to_dsp")' >= Block
      BY <1>4, <3>2, SizesAssumption DEF Inv, AnswerStands, Buffers, Inputs
    <3>3. ASSUME at[Control].op = "write"
          PROVE  FreeCount(at[Control].on)' = FreeCount(at[Control].on)
      <4>1. at[Control].on \in Buffers \ {b}
        BY <1>0, <3>1, <3>3 DEF PlacesOK, Buffers, Inputs, Outputs
      <4>. QED BY <1>1, <3>1, <4>1 DEF FreeCount
    <3>. QED BY <3>1, <3>2, <3>3 DEF Inv, AnswerStands
  <2>. QED BY <2>1, <2>2
<1>7. SleepersCall' /\ TestedCallsNeverBlock'
  BY <1>2, <1>3 DEF Inv, SleepersCall, TestedCallsNeverBlock
<1>8. ReadersSleepForCause'
  <2> SUFFICES ASSUME NEW u \in asleep', at'[u].op = "read"
               PROVE  (Count(at[u].on) < Amount(u))'
    BY DEF ReadersSleepForCause
  <2>1. u \in asleep /\ u \in Threads /\ u # t /\ at'[u] = at[u]
    BY <1>2, <1>3
  <2>2. at[u].on \in Buffers
    BY <1>0, <2>1 DEF PlacesOK, To, Threads, Captures, Playbacks, Buffers, Inputs, Outputs
  <2>3. at[u].on # b
    <3>1. SUFFICES ASSUME at[u].on = b PROVE FALSE
      OBVIOUS
    <3>2. u \in SleepsOn(b)
      BY <2>1, <3>1 DEF SleepsOn
    <3>3. PICK v \in SleepsOn(b) : asleep' = asleep \ {v}
      BY <3>2 DEF Signal
    <3>4. v \in Threads /\ v # t /\ at[v].on = b
      BY <1>3, <3>3 DEF SleepsOn
    <3>5. u = v
      BY <1>0, <2>1, <3>1, <3>4, OnePartner
    <3>. QED BY <3>3, <3>5
  <2>4. Count(at[u].on) < Amount(u)
    BY <2>1 DEF Inv, ReadersSleepForCause
  <2>5. Amount(u)' = Amount(u)
    BY DEF Amount
  <2>6. Count(at[u].on)' = Count(at[u].on)
    BY <1>1, <2>1, <2>2, <2>3
  <2>. QED BY <2>4, <2>5, <2>6
<1>. QED BY <1>2, <1>5, <1>6, <1>7, <1>8 DEF Inv

LEMMA ReadKeeps ==
  ASSUME Inv, NEW t \in Threads, ReadBuffer(t)
  PROVE  Inv'
<1>1. at[t].on \in Buffers /\ Amount(t) \in Nat
  BY AmountType
     DEF Inv, PlacesOK, ReadBuffer, To, Threads, Captures, Playbacks, Buffers, Inputs, Outputs
<1>2. CASE Count(at[t].on) >= Amount(t)
  BY <1>1, <1>2, ReadReturns DEF ReadBuffer
<1>3. CASE Count(at[t].on) < Amount(t)
  <2>1. ~ (Count(at[t].on) >= Amount(t))
    BY <1>1, <1>3, CountIs, SizesAssumption DEF Inv
  <2>. QED BY <1>3, <2>1, SleepKeeps DEF ReadBuffer
<1>. QED BY <1>1, <1>2, <1>3, CountIs, SizesAssumption DEF Inv

LEMMA WriteKeeps ==
  ASSUME Inv, NEW t \in Threads, WriteBuffer(t)
  PROVE  Inv'
<1>1. at[t].on \in Buffers /\ Amount(t) \in Nat
  BY AmountType
     DEF Inv, PlacesOK, WriteBuffer, To, Threads, Captures, Playbacks, Buffers, Inputs, Outputs
<1>2. CASE FreeCount(at[t].on) >= Amount(t)
  BY <1>1, <1>2, WriteReturns DEF WriteBuffer
<1>3. CASE FreeCount(at[t].on) < Amount(t)
  <2>1. ~ (FreeCount(at[t].on) >= Amount(t))
    BY <1>1, <1>3, CountIs, SizesAssumption DEF Inv
  <2>. QED BY <1>3, <2>1, SleepKeeps DEF WriteBuffer
<1>. QED BY <1>1, <1>2, <1>3, CountIs, SizesAssumption DEF Inv

(* control_thread takes a place that an answer has earned it.              *)
LEMMA ControlGoes ==
  ASSUME Inv, NEW p \in Place, Go(Control, p), Control \notin asleep, UNCHANGED asleep,
         TypeOK /\ PlacesOK => buf' \in [Buffers -> Offsets],
         \A c \in Buffers : Count(c)' = Count(c) \/ Count(c)' = 0,
         useLoopback' \in BOOLEAN, starting' \in BOOLEAN, UNCHANGED switches,
         PlacesOK', 
         p = To("read", "loopback_to_dsp") => Count("loopback_to_dsp")' >= Block,
         p.op = "write" => FreeCount(p.on)' >= Block
  PROVE  Inv'
<1>0. TypeOK /\ PlacesOK
  BY DEF Inv
<1>1. /\ at' \in [Threads -> Place]
      /\ at'[Control] = p
      /\ \A u \in Threads \ {Control} : at'[u] = at[u]
  BY <1>0 DEF Go, TypeOK, Threads
<1>2. \A c \in Buffers : Count(c)' \in 0 .. Capacity /\ Count(c)' <= Count(c)
  BY <1>0, CountIs, SizesAssumption
<1>3. {useLoopback, starting}' \subseteq BOOLEAN
  OBVIOUS
<1>4. TypeOK'
  BY <1>0, <1>1, <1>2, <1>3 DEF TypeOK
<1>5. AnswerStands'
  BY <1>1 DEF AnswerStands
<1>6. \A u \in asleep' : u \in asleep /\ u \in Threads /\ at'[u] = at[u]
  BY <1>0, <1>1 DEF TypeOK
<1>7. SleepersCall' /\ TestedCallsNeverBlock'
  BY <1>6 DEF Inv, SleepersCall, TestedCallsNeverBlock
<1>8. ReadersSleepForCause'
  <2> SUFFICES ASSUME NEW u \in asleep', at'[u].op = "read"
               PROVE  (Count(at[u].on) < Amount(u))'
    BY DEF ReadersSleepForCause
  <2>1. at'[u].on = at[u].on
    BY <1>6
  <2>2. PICK b \in Buffers : b = at[u].on
    BY <1>0, <1>6 DEF PlacesOK, To, Threads, Captures, Playbacks, Buffers, Inputs, Outputs
  <2>3. Count(b) < Amount(u)
    BY <1>6, <2>2 DEF Inv, ReadersSleepForCause
  <2>4. Amount(u)' = Amount(u) /\ Amount(u) \in Nat
    BY <1>6, AmountType DEF Amount
  <2>5. Count(b)' < Amount(u)
    BY <1>0, <1>2, <2>3, <2>4, CountIs, SizesAssumption
  <2>. QED BY <2>1, <2>2, <2>4, <2>5
<1>. QED BY <1>4, <1>5, <1>7, <1>8 DEF Inv

LEMMA ControlKeeps ==
  ASSUME Inv, ControlStep
  PROVE  Inv'
<1>0. TypeOK /\ PlacesOK /\ Control \in Threads
  BY DEF Inv, Threads
<1>1. Control \notin asleep
  BY DEF Inv, SleepersCall, ControlStep, Top, AskSize, AskFree, ClearBuffer, Dsp, Flush
<1>2. UNCHANGED asleep /\ UNCHANGED switches
  BY DEF ControlStep, Top, AskSize, AskFree, ClearBuffer, Dsp, Flush, Others
<1>3. useLoopback' \in BOOLEAN /\ starting' \in BOOLEAN
  BY <1>0 DEF TypeOK, ControlStep, Top, AskSize, AskFree, ClearBuffer, Dsp, Flush, Others
<1>4. ASSUME UNCHANGED buf
      PROVE  /\ buf' \in [Buffers -> Offsets]
             /\ \A c \in Buffers : Count(c)' = Count(c) /\ FreeCount(c)' = FreeCount(c)
  BY <1>0, <1>4 DEF TypeOK, Count, FreeCount
<1>5. ASSUME NEW p, Go(Control, p)
      PROVE  /\ at'[Control] = p
             /\ \A u \in Threads \ {Control} : at'[u] = at[u]
  BY <1>0, <1>5 DEF Go, TypeOK
<1>6. Then(Control) \in Place
      /\ Then(Control) # To("read", "loopback_to_dsp") /\ Then(Control).op # "write"
  BY <1>0, ThenIsPlace DEF To
<1>7. CASE Top
  BY <1>0, <1>1, <1>2, <1>3, <1>4, <1>6, <1>7, GoThen, ControlGoes DEF Top
<1>8. CASE Dsp
  <2>1. CASE starting
    <3>1. To("flush", "radio_to_dsp") \in Place
      BY DEF To, Place, Buffers, Inputs
    <3>2. Go(Control, To("flush", "radio_to_dsp"))
      BY <1>8, <2>1 DEF Dsp
    <3>3. PlacesOK'
      BY <1>0, <1>5, <3>2 DEF PlacesOK, To, Control, Threads, Captures, Playbacks, Buffers, Inputs
    <3>. QED BY <1>1, <1>2, <1>3, <1>4, <1>8, <3>1, <3>2, <3>3, ControlGoes DEF Dsp, To
  <2>2. CASE ~ starting
    BY <1>0, <1>1, <1>2, <1>3, <1>4, <1>6, <1>8, <2>2, GoThen, ControlGoes DEF Dsp
  <2>. QED BY <2>1, <2>2
<1>9. CASE AskSize
  <2> DEFINE b == at[Control].on
  <2>1. b = "loopback_to_dsp" /\ b \in Buffers
    BY <1>0, <1>9 DEF AskSize, PlacesOK, Buffers, Inputs
  <2>2. CASE Count(b) >= Block
    <3>1. To("read", "loopback_to_dsp") \in Place
      BY DEF To, Place, Buffers, Inputs
    <3>2. Go(Control, To("read", "loopback_to_dsp"))
      BY <1>9, <2>1, <2>2 DEF AskSize
    <3>3. PlacesOK'
      BY <1>0, <1>5, <3>2 DEF PlacesOK, To, Control, Threads, Captures, Playbacks, Inputs
    <3>. QED
      BY <1>1, <1>2, <1>3, <1>4, <1>9, <2>1, <2>2, <3>1, <3>2, <3>3, ControlGoes DEF AskSize, To
  <2>3. CASE ~ (Count(b) >= Block)
    BY <1>0, <1>1, <1>2, <1>3, <1>4, <1>6, <1>9, <2>3, GoThen, ControlGoes DEF AskSize
  <2>. QED BY <2>2, <2>3
<1>10. CASE AskFree
  <2>1. PICK b \in Outputs : b = at[Control].on /\ b \in Buffers
    BY <1>0, <1>10 DEF AskFree, PlacesOK, Buffers
  <2>2. CASE FreeCount(b) >= Block
    <3>1. To("write", b) \in Place
      BY <2>1 DEF To, Place
    <3>2. Go(Control, To("write", b))
      BY <1>10, <2>1, <2>2 DEF AskFree
    <3>3. PlacesOK'
      BY <1>0, <1>5, <2>1, <3>2 DEF PlacesOK, To, Control, Threads, Captures, Playbacks
    <3>4. FreeCount(b)' >= Block /\ To("write", b).on = b
      BY <1>4, <1>10, <2>1, <2>2 DEF AskFree, To
    <3>. QED
      BY <1>1, <1>2, <1>3, <1>4, <1>10, <3>1, <3>2, <3>3, <3>4, ControlGoes DEF AskFree, To
  <2>3. CASE ~ (FreeCount(b) >= Block) /\ b = "dsp_to_loopback"
    <3>1. To("clear", b) \in Place
      BY <2>1 DEF To, Place
    <3>2. Go(Control, To("clear", b))
      BY <1>10, <2>1, <2>3 DEF AskFree
    <3>3. PlacesOK'
      BY <1>0, <1>5, <2>3, <3>2 DEF PlacesOK, To, Control, Threads, Captures, Playbacks
    <3>. QED
      BY <1>1, <1>2, <1>3, <1>4, <1>10, <3>1, <3>2, <3>3, ControlGoes DEF AskFree, To
  <2>4. CASE ~ (FreeCount(b) >= Block) /\ b # "dsp_to_loopback"
    BY <1>0, <1>1, <1>2, <1>3, <1>4, <1>6, <1>10, <2>1, <2>4, GoThen, ControlGoes DEF AskFree
  <2>. QED BY <2>2, <2>3, <2>4
<1>11. CASE ClearBuffer
  <2>1. at[Control].on \in Buffers /\ buf' = Cleared(at[Control].on)
    BY <1>0, <1>11 DEF ClearBuffer, PlacesOK, Buffers, Inputs, Outputs
  <2>2. /\ buf' \in [Buffers -> Offsets]
        /\ \A c \in Buffers : Count(c)' = Count(c) \/ Count(c)' = 0
    BY <1>0, <2>1, Clears
  <2>. QED
    BY <1>0, <1>1, <1>2, <1>3, <1>6, <1>11, <2>2, GoThen, ControlGoes DEF ClearBuffer
<1>12. CASE Flush
  <2>1. at[Control].on \in Buffers /\ buf' = Cleared(at[Control].on)
    BY <1>0, <1>12 DEF Flush, PlacesOK
  <2>2. /\ buf' \in [Buffers -> Offsets]
        /\ \A c \in Buffers : Count(c)' = Count(c) \/ Count(c)' = 0
    BY <1>0, <2>1, Clears
  <2>3. PICK p \in {To("flush", c) : c \in Buffers} \cup {To("free", "dsp_to_loopback")} :
          p = FlushNext(at[Control].on)
    BY FlushIsPlace
  <2>4. p \in Place /\ p.op \in {"flush", "free"}
    <3>1. CASE \E c \in Buffers : p = To("flush", c)
      BY <3>1 DEF To, Place
    <3>2. CASE p = To("free", "dsp_to_loopback")
      BY <3>2 DEF To, Place, Buffers, Outputs
    <3>. QED BY <2>3, <3>1, <3>2
  <2>5. Go(Control, p)
    BY <1>12, <2>3 DEF Flush
  <2>6. PlacesOK'
    <3>1. at'[Control] = p
      BY <1>5, <2>5
    <3>2. /\ at'[Control].op = "flush" => at'[Control].on \in Buffers
          /\ at'[Control].op = "free" => at'[Control].on \in Outputs
      <4>1. CASE \E c \in Buffers : p = To("flush", c)
        BY <3>1, <4>1 DEF To
      <4>2. CASE p = To("free", "dsp_to_loopback")
        BY <3>1, <4>2 DEF To, Outputs
      <4>. QED BY <2>3, <4>1, <4>2
    <3>. QED
      BY <1>0, <1>5, <2>4, <2>5, <3>1, <3>2
         DEF PlacesOK, Control, Threads, Captures, Playbacks
  <2>7. p # To("read", "loopback_to_dsp") /\ p.op # "write"
    BY <2>4 DEF To
  <2>. QED BY <1>1, <1>2, <1>3, <2>2, <2>4, <2>5, <2>6, <2>7, ControlGoes
<1>. QED BY <1>7, <1>8, <1>9, <1>10, <1>11, <1>12 DEF ControlStep

LEMMA NextKeeps == Inv /\ [Next]_vars => Inv'
<1> SUFFICES ASSUME Inv, [Next]_vars PROVE Inv'
  OBVIOUS
<1>1. ASSUME NEW t \in Threads, Run(t) PROVE Inv'
  BY <1>1, ReadKeeps, WriteKeeps, ControlKeeps DEF Run
<1>2. ASSUME NEW t \in Threads, Spurious(t) PROVE Inv'
  <2>1. asleep' \subseteq asleep /\ UNCHANGED <<buf, at, Others>>
    BY <1>2 DEF Spurious
  <2>. QED
    BY <2>1 DEF Inv, TypeOK, PlacesOK, AnswerStands, SleepersCall, TestedCallsNeverBlock,
                ReadersSleepForCause, Others, Count, FreeCount
<1>3. CASE TrSwitch
  <2>1. {useLoopback, starting}' \subseteq BOOLEAN
    BY <1>3 DEF Inv, TypeOK, TrSwitch
  <2>2. switches' \in 0 .. MaxSwitches
    BY <1>3, BoundAssumption DEF Inv, TypeOK, TrSwitch
  <2>3. UNCHANGED <<buf, at, asleep>>
    BY <1>3 DEF TrSwitch
  <2>. QED
    BY <2>1, <2>2, <2>3
       DEF Inv, TypeOK, PlacesOK, AnswerStands, SleepersCall, TestedCallsNeverBlock,
           ReadersSleepForCause, Count, FreeCount
<1>4. CASE UNCHANGED vars
  BY <1>4 DEF vars, Inv, TypeOK, PlacesOK, AnswerStands, SleepersCall,
              TestedCallsNeverBlock, ReadersSleepForCause, Count, FreeCount
<1>. QED BY <1>1, <1>2, <1>3, <1>4 DEF Next

LEMMA Invariance == Spec => []Inv
BY Initially, NextKeeps, PTL DEF Spec

-----------------------------------------------------------------------------
(* Every offset of every ring buffer stays inside the double mapping, and  *)
(* no buffer holds more than its capacity, for all sizes with which a      *)
(* period and a block fit into a buffer.                                   *)
THEOREM OffsetsInMapping == Spec => []TypeOK
<1>1. Inv => TypeOK
  BY DEF Inv
<1>. QED BY <1>1, Invariance, PTL

(* control_thread sleeps in no call that it made upon the answer of        *)
(* size_buffer or free_size_buffer, whatever the other threads, a clear or *)
(* a switch did between the answer and the call.                           *)
THEOREM AnswersStand == Spec => []TestedCallsNeverBlock
<1>1. Inv => TestedCallsNeverBlock
  BY DEF Inv
<1>. QED BY <1>1, Invariance, PTL

(* No wakeup of a reader is lost: one condition for two threads, and one   *)
(* signal for every write, are enough.                                     *)
THEOREM ReadersAreWoken == Spec => []ReadersSleepForCause
<1>1. Inv => ReadersSleepForCause
  BY DEF Inv
<1>. QED BY <1>1, Invariance, PTL

-----------------------------------------------------------------------------
(* Writers that are left behind.                                           *)

(* A writer left behind sleeps on an empty buffer.                         *)
StrandedEmpty == \A t \in Threads : Stranded(t) => Count(at[t].on) = 0

(* What a step may do to a writer.                                         *)
Strands(t) ==
  /\ Stranded(t)' /\ ~ Stranded(t) =>
       at[Control].op \in {"clear", "flush"} /\ at[Control].on = at[t].on
  /\ Stranded(t) /\ ~ Stranded(t)' => Spurious(t)
  /\ Stranded(t)' => Count(at[t].on)' = 0

(* Only the capture threads ever sleep in a write.                         *)
LEMMA SleepingWriters ==
  ASSUME Inv, NEW t \in asleep, at[t].op = "write"
  PROVE  t \in Captures /\ at[t].on \in Inputs
BY DEF Inv, TypeOK, PlacesOK, TestedCallsNeverBlock, Threads, Captures, Playbacks, Inputs,
       Outputs, To, Control

(* A step that leaves a thread where it is, awake or asleep, and its       *)
(* buffer as full as it was.                                               *)
LEMMA StrandedSame ==
  ASSUME Inv, StrandedEmpty, NEW t \in Threads, t \in asleep' <=> t \in asleep,
         t \in asleep => at'[t] = at[t] /\ Count(at[t].on)' = Count(at[t].on)
  PROVE  Strands(t)
<1>1. Amount(t)' = Amount(t)
  BY DEF Amount
<1>2. CASE t \notin asleep
  BY <1>2 DEF Strands, Stranded
<1>3. CASE t \in asleep
  <2>1. FreeCount(at[t].on)' = FreeCount(at[t].on)
    BY <1>3 DEF FreeCount
  <2>. QED BY <1>1, <1>3, <2>1 DEF Strands, Stranded, StrandedEmpty
<1>. QED BY <1>2, <1>3

(* A call that returns wakes only on its own buffer.                       *)
LEMMA StrandedElsewhere ==
  ASSUME Inv, StrandedEmpty, NEW t \in Threads, NEW u \in Threads, u # t,
         at[t].on # at[u].on, Signal(at[u].on), Go(u, Then(u)),
         t \in asleep => Count(at[t].on)' = Count(at[t].on)
  PROVE  Strands(t)
<1>1. at'[t] = at[t]
  BY GoThen DEF Inv
<1>2. t \in asleep' <=> t \in asleep
  BY DEF Signal, SleepsOn
<1>. QED BY <1>1, <1>2, StrandedSame

LEMMA BufferOfThread ==
  ASSUME PlacesOK, NEW t \in Threads, at[t].op \in {"read", "write"}
  PROVE  at[t].on \in Buffers
BY DEF PlacesOK, Threads, Captures, Playbacks, Buffers, Inputs, Outputs, To

LEMMA ReadStrands ==
  ASSUME Inv, StrandedEmpty, NEW u \in Threads, ReadBuffer(u), NEW t \in Threads
  PROVE  Strands(t)
<1>0. /\ TypeOK /\ PlacesOK /\ SleepersCall
      /\ at[u].op = "read" /\ u \notin asleep /\ at[u].on \in Buffers
      /\ Amount(u) \in Nat /\ Amount(u) > 0
  BY BufferOfThread, SizesAssumption DEF Inv, ReadBuffer, Amount
<1>1. CASE ~ (Count(at[u].on) >= Amount(u))
  <2>1. asleep' = asleep \cup {u} /\ buf' = buf /\ at' = at
    BY <1>1 DEF ReadBuffer
  <2>2. CASE t = u
    BY <1>0, <2>1, <2>2 DEF Strands, Stranded
  <2>3. CASE t # u
    <3>1. t \in asleep' <=> t \in asleep
      BY <2>1, <2>3
    <3>2. at'[t] = at[t] /\ Count(at[t].on)' = Count(at[t].on)
      BY <2>1 DEF Count
    <3>. QED BY <3>1, <3>2, StrandedSame
  <2>. QED BY <2>2, <2>3
<1>2. CASE Count(at[u].on) >= Amount(u)
  <2>1. buf' = ReadAdvance(at[u].on, Amount(u)) /\ Signal(at[u].on) /\ Go(u, Then(u))
    BY <1>2 DEF ReadBuffer
  <2>2. asleep' \subseteq asleep
    BY <2>1 DEF Signal
  <2>3. CASE t = u \/ t \notin asleep
    BY <1>0, <2>2, <2>3 DEF Strands, Stranded
  <2>4. CASE t # u /\ t \in asleep /\ at[t].on # at[u].on
    <3>1. at[t].on \in Buffers \ {at[u].on}
      BY <1>0, <2>4, BufferOfThread DEF SleepersCall
    <3>2. Count(at[t].on)' = Count(at[t].on)
      <4>1. PICK b \in Buffers : b = at[u].on
        BY <1>0
      <4>2. PICK n \in Nat : n = Amount(u)
        BY <1>0
      <4>3. \A c \in Buffers \ {b} : Count(c)' = Count(c)
        BY <1>0, <1>2, <2>1, <4>1, <4>2, ReadAdvances
      <4>4. PICK c \in Buffers \ {b} : c = at[t].on
        BY <3>1, <4>1
      <4>5. at'[t] = at[t]
        BY <1>0, <2>1, <2>4, GoThen
      <4>. QED BY <4>3, <4>4, <4>5 DEF Count
    <3>. QED BY <2>1, <2>4, <3>2, StrandedElsewhere
  <2>5. CASE t # u /\ t \in asleep /\ at[t].on = at[u].on
    <3>1. t \notin asleep'
      <4>1. t \in SleepsOn(at[u].on)
        BY <2>5 DEF SleepsOn
      <4>2. PICK v \in SleepsOn(at[u].on) : asleep' = asleep \ {v}
        BY <2>1, <4>1 DEF Signal
      <4>3. v \in asleep /\ v \in Threads /\ v # u /\ at[v].on = at[u].on
        BY <1>0, <4>2 DEF SleepsOn, TypeOK
      <4>4. t = v
        BY <1>0, <2>5, <4>3, OnePartner
      <4>. QED BY <4>2, <4>4
    <3>2. ~ Stranded(t)
      BY <1>0, <1>2, <2>5 DEF StrandedEmpty
    <3>. QED BY <3>1, <3>2 DEF Strands, Stranded
  <2>. QED BY <2>3, <2>4, <2>5
<1>. QED BY <1>1, <1>2

LEMMA WriteStrands ==
  ASSUME Inv, StrandedEmpty, NEW u \in Threads, WriteBuffer(u), NEW t \in Threads
  PROVE  Strands(t)
<1>0. /\ TypeOK /\ PlacesOK /\ SleepersCall
      /\ at[u].op = "write" /\ u \notin asleep /\ at[u].on \in Buffers
      /\ Amount(u) \in Nat
  BY BufferOfThread, AmountType DEF Inv, WriteBuffer
<1>1. CASE ~ (FreeCount(at[u].on) >= Amount(u))
  <2>1. asleep' = asleep \cup {u} /\ buf' = buf /\ at' = at
    BY <1>1 DEF WriteBuffer
  <2>2. CASE t = u
    <3>1. ~ Stranded(t)'
      BY <1>1, <2>1, <2>2 DEF Stranded, FreeCount, Count, Amount
    <3>. QED BY <1>0, <2>2, <3>1 DEF Strands, Stranded
  <2>3. CASE t # u
    <3>1. t \in asleep' <=> t \in asleep
      BY <2>1, <2>3
    <3>2. at'[t] = at[t] /\ Count(at[t].on)' = Count(at[t].on)
      BY <2>1 DEF Count
    <3>. QED BY <3>1, <3>2, StrandedSame
  <2>. QED BY <2>2, <2>3
<1>2. CASE FreeCount(at[u].on) >= Amount(u)
  <2>1. buf' = WriteAdvance(at[u].on, Amount(u)) /\ Signal(at[u].on) /\ Go(u, Then(u))
    BY <1>2 DEF WriteBuffer
  <2>2. asleep' \subseteq asleep
    BY <2>1 DEF Signal
  <2>3. CASE t = u \/ t \notin asleep
    BY <1>0, <2>2, <2>3 DEF Strands, Stranded
  <2>4. CASE t # u /\ t \in asleep /\ at[t].op = "write"
    <3>1. at[t].on # at[u].on
      BY <1>0, <2>4, SleepingWriters
         DEF PlacesOK, Threads, Captures, Playbacks, Inputs, Outputs, To
    <3>2. at[t].on \in Buffers \ {at[u].on}
      BY <1>0, <2>4, <3>1, BufferOfThread
    <3>3. at'[t] = at[t]
      BY <1>0, <2>1, <2>4, GoThen
    <3>4. Count(at[t].on)' = Count(at[t].on)
      <4>1. PICK b \in Buffers : b = at[u].on
        BY <1>0
      <4>2. PICK n \in Nat : n = Amount(u)
        BY <1>0
      <4>3. n <= FreeCount(b)
        BY <1>0, <1>2, <4>1, <4>2, CountIs, SizesAssumption
      <4>4. \A c \in Buffers \ {b} : Count(c)' = Count(c)
        BY <1>0, <2>1, <4>1, <4>2, <4>3, WriteAdvances
      <4>5. PICK c \in Buffers \ {b} : c = at[t].on
        BY <3>2, <4>1
      <4>. QED BY <3>3, <4>4, <4>5 DEF Count
    <3>. QED BY <2>1, <2>4, <3>1, <3>4, StrandedElsewhere
  <2>5. CASE t # u /\ t \in asleep /\ at[t].op # "write"
    <3>1. at'[t] = at[t]
      BY <1>0, <2>1, <2>5, GoThen
    <3>. QED BY <2>5, <3>1 DEF Strands, Stranded
  <2>. QED BY <2>3, <2>4, <2>5
<1>. QED BY <1>1, <1>2

(* control_thread empties a buffer, or asks; it is awake.                  *)
LEMMA ControlStrands ==
  ASSUME Inv, StrandedEmpty, ControlStep, NEW t \in Threads
  PROVE  Strands(t)
<1>0. TypeOK /\ PlacesOK /\ SleepersCall
  BY DEF Inv
<1>1. /\ asleep' = asleep /\ Control \notin asleep
      /\ \A u \in Threads \ {Control} : at'[u] = at[u]
  <2>1. at[Control].op \in {"top", "size", "free", "clear", "dsp", "flush"}
    BY DEF ControlStep, Top, AskSize, AskFree, ClearBuffer, Dsp, Flush
  <2>2. \E p : at' = [at EXCEPT ![Control] = p]
    BY DEF ControlStep, Top, AskSize, AskFree, ClearBuffer, Dsp, Flush, Go
  <2>3. asleep' = asleep
    BY DEF ControlStep, Top, AskSize, AskFree, ClearBuffer, Dsp, Flush
  <2>. QED BY <1>0, <2>1, <2>2, <2>3 DEF SleepersCall, TypeOK
<1>2. CASE t \notin asleep
  BY <1>1, <1>2 DEF Strands, Stranded
<1>3. CASE t \in asleep
  <2>1. t # Control /\ at'[t] = at[t] /\ at[t].on \in Buffers
    BY <1>0, <1>1, <1>3, BufferOfThread DEF SleepersCall
  <2>2. CASE Top \/ AskSize \/ AskFree \/ Dsp
    <3>1. buf' = buf
      BY <2>2 DEF Top, AskSize, AskFree, Dsp
    <3>. QED BY <1>1, <2>1, <3>1, StrandedSame DEF Count
  <2>3. CASE ClearBuffer \/ Flush
    <3>1. /\ buf' = Cleared(at[Control].on) /\ at[Control].op \in {"clear", "flush"}
          /\ at[Control].on \in Buffers
      BY <1>0, <2>3 DEF ClearBuffer, Flush, PlacesOK, Buffers, Inputs, Outputs
    <3>2. PICK b \in Buffers : b = at[Control].on /\ buf' = Cleared(b)
      BY <3>1
    <3>3. PICK c \in Buffers : c = at[t].on
      BY <2>1
    <3>4. Count(b)' = 0 /\ \A d \in Buffers \ {b} : Count(d)' = Count(d)
      BY <1>0, <3>2, Clears
    <3>5. Count(at[t].on)' = IF c = b THEN 0 ELSE Count(c)
      BY <2>1, <3>3, <3>4 DEF Count
    <3>6. CASE c # b
      BY <1>1, <2>1, <3>3, <3>5, <3>6, StrandedSame
    <3>7. CASE c = b
      <4>1. ASSUME Stranded(t) PROVE Stranded(t)'
        <5>1. Amount(t)' = Amount(t) /\ Amount(t) \in Nat /\ Amount(t) <= Capacity
          BY AmountType DEF Amount
        <5>. QED BY <1>1, <2>1, <3>5, <3>7, <4>1, <5>1, SizesAssumption DEF Stranded, FreeCount
      <4>. QED BY <3>1, <3>2, <3>3, <3>5, <3>7, <4>1 DEF Strands
    <3>. QED BY <3>6, <3>7
  <2>. QED BY <2>2, <2>3 DEF ControlStep
<1>. QED BY <1>2, <1>3

LEMMA StepStrands ==
  Inv /\ StrandedEmpty /\ [Next]_vars => \A t \in Threads : Strands(t)
<1> SUFFICES ASSUME Inv, StrandedEmpty, [Next]_vars, NEW t \in Threads PROVE Strands(t)
  OBVIOUS
<1>1. ASSUME NEW u \in Threads, Run(u) PROVE Strands(t)
  BY <1>1, ReadStrands, WriteStrands, ControlStrands DEF Run
<1>2. ASSUME NEW u \in Threads, Spurious(u) PROVE Strands(t)
  <2>1. asleep' = asleep \ {u} /\ buf' = buf /\ at' = at
    BY <1>2 DEF Spurious
  <2>2. CASE t = u
    BY <1>2, <2>1, <2>2 DEF Strands, Stranded
  <2>3. CASE t # u
    <3>1. t \in asleep' <=> t \in asleep
      BY <2>1, <2>3
    <3>. QED BY <2>1, <3>1, StrandedSame DEF Count
  <2>. QED BY <2>2, <2>3
<1>3. CASE TrSwitch \/ UNCHANGED vars
  <2>1. asleep' = asleep /\ buf' = buf /\ at' = at
    BY <1>3 DEF TrSwitch, vars
  <2>. QED BY <2>1, StrandedSame DEF Count
<1>. QED BY <1>1, <1>2, <1>3 DEF Next

LEMMA EmptyStep ==
  Inv /\ StrandedEmpty /\ [Next]_vars => StrandedEmpty'
<1> SUFFICES ASSUME Inv, StrandedEmpty, [Next]_vars, NEW t \in Threads, Stranded(t)'
             PROVE  (Count(at[t].on) = 0)'
  BY DEF StrandedEmpty, Threads, Captures, Playbacks
<1>. QED BY StepStrands DEF Strands

LEMMA EmptyHolds == Spec => []StrandedEmpty
<1>1. Init => StrandedEmpty
  BY DEF Init, StrandedEmpty, Stranded
<1>. QED BY <1>1, EmptyStep, Invariance, PTL DEF Spec

(* The radio's capture thread writes to two buffers that only              *)
(* clear_buffers empties, and only the first block after a switch calls it.*)
AfterSwitch ==
  (starting \/ at[Control].op = "flush" \/ Stranded("radio_capture")) => switches > 0

LEMMA AfterSwitchStep ==
  Inv /\ StrandedEmpty /\ AfterSwitch /\ [Next]_vars => AfterSwitch'
<1> SUFFICES ASSUME Inv, StrandedEmpty, AfterSwitch, [Next]_vars PROVE AfterSwitch'
  OBVIOUS
<1>0. /\ TypeOK /\ PlacesOK /\ switches \in Nat /\ starting \in BOOLEAN
      /\ "radio_capture" \in Threads
  BY BoundAssumption DEF Inv, TypeOK, Threads, Captures
<1>1. CASE TrSwitch
  BY <1>0, <1>1 DEF TrSwitch, AfterSwitch
<1>2. CASE ~ TrSwitch
  <2>1. switches' = switches /\ (starting' => starting)
    <3>1. ASSUME NEW u \in Threads, Run(u) \/ Spurious(u)
          PROVE  switches' = switches /\ (starting' => starting)
      <4>1. ReadBuffer(u) \/ WriteBuffer(u) \/ Spurious(u) =>
              switches' = switches /\ starting' = starting
        BY DEF ReadBuffer, WriteBuffer, Spurious, Others
      <4>2. ControlStep => switches' = switches /\ (starting' => starting)
        <5>1. Flush => switches' = switches /\ (starting' => starting)
          BY DEF Flush
        <5>2. Top \/ AskSize \/ AskFree \/ ClearBuffer \/ Dsp =>
                switches' = switches /\ starting' = starting
          BY DEF Top, AskSize, AskFree, ClearBuffer, Dsp, Others
        <5>. QED BY <5>1, <5>2 DEF ControlStep
      <4>. QED BY <3>1, <4>1, <4>2 DEF Run
    <3>. QED BY <1>2, <3>1 DEF Next, vars
  <2>2. at'[Control].op = "flush" => starting \/ at[Control].op = "flush"
    <3>1. ASSUME NEW u \in Threads, ReadBuffer(u) \/ WriteBuffer(u)
          PROVE  at'[Control].op = "flush" => at[Control].op = "flush"
      <4>1. at' = at \/ Go(u, Then(u))
        BY <3>1 DEF ReadBuffer, WriteBuffer
      <4>2. Go(u, Then(u)) => at'[Control] \in {at[Control], Then(Control)}
        BY <1>0, GoThen DEF Threads
      <4>3. Then(Control).op # "flush"
        BY <1>0, ThenIsPlace DEF To
      <4>. QED BY <4>1, <4>2, <4>3
    <3>2. ASSUME ControlStep
          PROVE  at'[Control].op = "flush" => starting \/ at[Control].op = "flush"
      <4>1. \A p : Go(Control, p) => at'[Control] = p
        BY <1>0 DEF Go, TypeOK, Threads
      <4>2. Then(Control).op # "flush"
        BY <1>0, ThenIsPlace DEF To
      <4>. QED BY <3>2, <4>1, <4>2
               DEF ControlStep, Top, AskSize, AskFree, ClearBuffer, Dsp, Flush, To
    <3>3. ASSUME NEW u \in Threads, Spurious(u) PROVE at' = at
      BY <3>3 DEF Spurious
    <3>. QED BY <1>2, <3>1, <3>2, <3>3 DEF Next, Run, vars
  <2>3. Stranded("radio_capture")' => Stranded("radio_capture") \/ at[Control].op = "flush"
    <3>1. ~ (at[Control].op = "clear" /\ at[Control].on = at["radio_capture"].on)
      BY <1>0 DEF PlacesOK
    <3>2. Strands("radio_capture")
      BY <1>0, StepStrands
    <3>. QED BY <3>1, <3>2 DEF Strands
  <2>. QED BY <2>1, <2>2, <2>3 DEF AfterSwitch
<1>. QED BY <1>1, <1>2

-----------------------------------------------------------------------------
(* Only clear_buffer, which signals nobody, leaves a writer asleep on a    *)
(* buffer that has room for it.                                            *)
OnlyClearsStrand ==
  [][\A t \in Threads : Stranded(t)' /\ ~ Stranded(t) =>
       at[Control].op \in {"clear", "flush"} /\ at[Control].on = at[t].on]_vars

THEOREM WritersLeftByClears == Spec => OnlyClearsStrand
<1>1. Inv /\ StrandedEmpty /\ [Next]_vars =>
        [\A t \in Threads : Stranded(t)' /\ ~ Stranded(t) =>
           at[Control].op \in {"clear", "flush"} /\ at[Control].on = at[t].on]_vars
  BY StepStrands DEF Strands
<1>. QED BY <1>1, Invariance, EmptyHolds, PTL DEF Spec, OnlyClearsStrand

(* It is then left for good: the buffer is empty, so its reader finds too  *)
(* little and signals nobody either, and no step but a spurious wakeup     *)
(* gets the writer out of its sleep.                                       *)
StaysStranded == [][\A t \in Threads : Stranded(t) /\ ~ Stranded(t)' => Spurious(t)]_vars

THEOREM WritersStayBehind == Spec => StaysStranded
<1>1. Inv /\ StrandedEmpty /\ [Next]_vars =>
        [\A t \in Threads : Stranded(t) /\ ~ Stranded(t)' => Spurious(t)]_vars
  BY StepStrands DEF Strands
<1>. QED BY <1>1, Invariance, EmptyHolds, PTL DEF Spec, StaysStranded

(* The radio's own capture thread, on which all sound depends, is never    *)
(* left behind before the first switch between receiving and transmitting: *)
(* neither the voice mode nor a full loopback, which empty a buffer every  *)
(* round, can do it.                                                       *)
THEOREM RadioNotStranded == Spec => [](Stranded("radio_capture") => switches > 0)
<1>1. Init => AfterSwitch
  BY DEF Init, AfterSwitch, Stranded, To, Threads, Control
<1>2. AfterSwitch => (Stranded("radio_capture") => switches > 0)
  BY DEF AfterSwitch
<1>. QED BY <1>1, <1>2, AfterSwitchStep, Invariance, EmptyHolds, PTL DEF Spec

=============================================================================
