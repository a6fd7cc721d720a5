---------------------------- MODULE AudioPipeline ----------------------------
(***************************************************************************)
(* The sound path of the sbitx controller: five threads of sbitx_alsa.c    *)
(* joined by six ring buffers (sbitx_buffer.c over ring_buffer.c).  Two    *)
(* capture threads write a period of the sound card or of the ALSA         *)
(* loopback; control_thread reads blocks, runs the DSP and writes blocks;  *)
(* two playback threads read periods.  Every buffer has one mutex, held    *)
(* for one step here, and one condition that its reader and its writer     *)
(* share: read_buffer and write_buffer sleep on it until they are          *)
(* signalled and try again; clear_buffer empties the buffer and signals    *)
(* nobody.  control_thread asks for a size or a free size in one critical  *)
(* section and acts on the answer in another.                              *)
(*                                                                         *)
(* Samples are left out: a buffer is its two offsets.  The sound cards are *)
(* left out: a thread inside snd_pcm_mmap_readi or _writei is one that is  *)
(* slow to take its next step.  Shutdown is left out.                      *)
(***************************************************************************)
EXTENDS Integers

CONSTANTS
  Capacity,     \* count_bytes of a ring buffer
  Period,       \* bytes of a sound card period, mono (hw_period_size)
  Block,        \* bytes of a DSP block (block_size)
  MaxSwitches   \* bound: switches between receiving and transmitting

ASSUME SizesAssumption ==
  /\ Period \in Nat \ {0} /\ Block \in Nat \ {0} /\ Capacity \in Nat
  /\ Period <= Capacity /\ Block <= Capacity

ASSUME BoundAssumption == MaxSwitches \in Nat

VARIABLES
  buf,          \* [Buffers -> [read, write]]: the offsets of struct ring_buffer
  at,           \* [Threads -> Place]: the call each thread is about to make
  asleep,       \* the threads inside pthread_cond_wait
  useLoopback,  \* control_thread's use_loopback
  starting,     \* tx_starting or rx_starting
  switches      \* history: switches so far

vars == <<buf, at, asleep, useLoopback, starting, switches>>

Inputs == {"radio_to_dsp", "mic_to_dsp", "loopback_to_dsp"}
Outputs == {"dsp_to_loopback", "dsp_to_radio", "dsp_to_speaker"}
Buffers == Inputs \cup Outputs

Control == "control_thread"
Captures == {"radio_capture", "loop_capture"}
Playbacks == {"radio_playback", "loop_playback"}
Threads == {Control} \cup Captures \cup Playbacks

(* A place in a thread's loop: the operation and the buffer it is on.      *)
Place == [op : {"top", "read", "write", "size", "free", "clear", "dsp", "flush"},
          on : Buffers \cup {"none"}]
To(op, b) == [op |-> op, on |-> b]

Amount(t) == IF t = Control THEN Block ELSE Period

-----------------------------------------------------------------------------
(* The loops: where a thread goes once its call has returned.              *)

Then(t) ==
  CASE t = "radio_capture" ->
         To("write", IF at[t].on = "radio_to_dsp" THEN "mic_to_dsp" ELSE "radio_to_dsp")
    [] t = "radio_playback" ->
         To("read", IF at[t].on = "dsp_to_radio" THEN "dsp_to_speaker" ELSE "dsp_to_radio")
    [] t \in {"loop_capture", "loop_playback"} -> at[t]
    [] t = Control ->
         (CASE at[t].op = "top"               -> To("read", "radio_to_dsp")
            [] at[t].on = "radio_to_dsp"      -> To("read", "mic_to_dsp")
            [] at[t].on = "mic_to_dsp"        ->
                 To(IF useLoopback THEN "size" ELSE "clear", "loopback_to_dsp")
            [] at[t].on = "loopback_to_dsp"   -> To("dsp", "none")
            [] at[t].op = "dsp"               -> To("free", "dsp_to_loopback")
            [] at[t].on = "dsp_to_loopback"   -> To("free", "dsp_to_radio")
            [] at[t].on = "dsp_to_radio"      -> To("free", "dsp_to_speaker")
            [] OTHER                          -> To("top", "none"))

(* The order in which clear_buffers empties the buffers.                   *)
FlushNext(b) ==
  CASE b = "radio_to_dsp"    -> To("flush", "dsp_to_radio")
    [] b = "dsp_to_radio"    -> To("flush", "mic_to_dsp")
    [] b = "mic_to_dsp"      -> To("flush", "dsp_to_speaker")
    [] b = "dsp_to_speaker"  -> To("flush", "dsp_to_loopback")
    [] b = "dsp_to_loopback" -> To("flush", "loopback_to_dsp")
    [] OTHER                 -> To("free", "dsp_to_loopback")

Go(t, place) == at' = [at EXCEPT ![t] = place]

-----------------------------------------------------------------------------
(* The buffers.                                                            *)

Count(b) == buf[b].write - buf[b].read
FreeCount(b) == Capacity - Count(b)

WriteAdvance(b, n) == [buf EXCEPT ![b].write = @ + n]

(* Mutant: the offsets move back one advance too late.                     *)
MutantReadAdvance(b, n) ==
  LET back == IF buf[b].read + n > Capacity THEN Capacity ELSE 0
  IN  [buf EXCEPT ![b] = [read |-> @.read + n - back, write |-> @.write - back]]

(* The buffer is mapped twice in a row: past the end of the first mapping  *)
(* both offsets move back by its length.                                   *)
ReadAdvance(b, n) ==
  LET back == IF buf[b].read + n >= Capacity THEN Capacity ELSE 0
  IN  [buf EXCEPT ![b] = [read |-> @.read + n - back, write |-> @.write - back]]

Cleared(b) == [buf EXCEPT ![b] = [read |-> 0, write |-> 0]]

SleepsOn(b) == {t \in asleep : at[t].on = b}

(* pthread_cond_signal wakes one sleeper, if there is one.                 *)
Signal(b) ==
  \/ SleepsOn(b) = {} /\ UNCHANGED asleep
  \/ \E t \in SleepsOn(b) : asleep' = asleep \ {t}

Others == <<useLoopback, starting, switches>>

(* read_buffer: with too little stored the thread sleeps, then tries again.*)
ReadBuffer(t) ==
  LET b == at[t].on IN
  /\ at[t].op = "read" /\ t \notin asleep
  /\ IF Count(b) >= Amount(t)
     THEN buf' = ReadAdvance(b, Amount(t)) /\ Signal(b) /\ Go(t, Then(t))
     ELSE asleep' = asleep \cup {t} /\ UNCHANGED <<buf, at>>
  /\ UNCHANGED Others

(* Mutant: write_buffer without its pthread_cond_signal.                   *)
MutantWriteBuffer(t) ==
  LET b == at[t].on IN
  /\ at[t].op = "write" /\ t \notin asleep
  /\ IF FreeCount(b) >= Amount(t)
     THEN buf' = WriteAdvance(b, Amount(t)) /\ Go(t, Then(t)) /\ UNCHANGED asleep
     ELSE asleep' = asleep \cup {t} /\ UNCHANGED <<buf, at>>
  /\ UNCHANGED Others

(* write_buffer: with too little room the thread sleeps, then tries again. *)
WriteBuffer(t) ==
  LET b == at[t].on IN
  /\ at[t].op = "write" /\ t \notin asleep
  /\ IF FreeCount(b) >= Amount(t)
     THEN buf' = WriteAdvance(b, Amount(t)) /\ Signal(b) /\ Go(t, Then(t))
     ELSE asleep' = asleep \cup {t} /\ UNCHANGED <<buf, at>>
  /\ UNCHANGED Others

(* pthread_cond_wait may return without a signal.                          *)
Spurious(t) ==
  /\ t \in asleep
  /\ asleep' = asleep \ {t}
  /\ UNCHANGED <<buf, at, Others>>

-----------------------------------------------------------------------------
(* control_thread, besides its reads and writes.                           *)

(* The other threads may make a profile with another operating mode the    *)
(* active one at any time, so every round may find either.                 *)
Top ==
  /\ at[Control].op = "top"
  /\ useLoopback' \in BOOLEAN
  /\ Go(Control, Then(Control))
  /\ UNCHANGED <<buf, asleep, starting, switches>>

(* Mutant: a period is taken to be enough for a block.                     *)
MutantAskSize ==
  LET b == at[Control].on IN
  /\ at[Control].op = "size"
  /\ Go(Control, IF Count(b) >= Period THEN To("read", b) ELSE Then(Control))
  /\ UNCHANGED <<buf, asleep, Others>>

(* size_buffer(loopback_to_dsp): with less than a block the transmitter    *)
(* gets silence.                                                           *)
AskSize ==
  LET b == at[Control].on IN
  /\ at[Control].op = "size"
  /\ Go(Control, IF Count(b) >= Block THEN To("read", b) ELSE Then(Control))
  /\ UNCHANGED <<buf, asleep, Others>>

(* Mutant: control_thread writes without asking.                           *)
MutantAskFree ==
  /\ at[Control].op = "free"
  /\ Go(Control, To("write", at[Control].on))
  /\ UNCHANGED <<buf, asleep, Others>>

(* free_size_buffer on an output: with no room dsp_to_loopback is emptied, *)
(* and a block for the other two is dropped.                               *)
AskFree ==
  LET b == at[Control].on IN
  /\ at[Control].op = "free"
  /\ Go(Control, IF FreeCount(b) >= Block THEN To("write", b)
                 ELSE IF b = "dsp_to_loopback" THEN To("clear", b)
                 ELSE Then(Control))
  /\ UNCHANGED <<buf, asleep, Others>>

(* clear_buffer, on loopback_to_dsp in voice mode or on a full             *)
(* dsp_to_loopback: nobody is signalled.                                   *)
ClearBuffer ==
  /\ at[Control].op = "clear"
  /\ buf' = Cleared(at[Control].on)
  /\ Go(Control, Then(Control))
  /\ UNCHANGED <<asleep, Others>>

(* dsp_process_rx or dsp_process_tx: the first block after a switch calls  *)
(* clear_buffers.                                                          *)
Dsp ==
  /\ at[Control].op = "dsp"
  /\ Go(Control, IF starting THEN To("flush", "radio_to_dsp") ELSE Then(Control))
  /\ UNCHANGED <<buf, asleep, Others>>

(* One clear_buffer of clear_buffers; after the last the flag is reset.    *)
Flush ==
  LET b == at[Control].on IN
  /\ at[Control].op = "flush"
  /\ buf' = Cleared(b)
  /\ Go(Control, FlushNext(b))
  /\ starting' = (starting /\ b # "loopback_to_dsp")
  /\ UNCHANGED <<asleep, useLoopback, switches>>

ControlStep == Top \/ AskSize \/ AskFree \/ ClearBuffer \/ Dsp \/ Flush

-----------------------------------------------------------------------------
(* The other threads of the controller.                                    *)

(* tr_switch sets tx_starting or rx_starting.                              *)
TrSwitch ==
  /\ switches < MaxSwitches
  /\ starting' = TRUE
  /\ switches' = switches + 1
  /\ UNCHANGED <<buf, at, asleep, useLoopback>>

Init ==
  /\ buf = [b \in Buffers |-> [read |-> 0, write |-> 0]]
  /\ at = [t \in Threads |->
             CASE t = Control -> To("top", "none")
               [] t = "radio_capture" -> To("write", "radio_to_dsp")
               [] t = "loop_capture" -> To("write", "loopback_to_dsp")
               [] t = "radio_playback" -> To("read", "dsp_to_radio")
               [] OTHER -> To("read", "dsp_to_loopback")]
  /\ asleep = {}
  /\ useLoopback = FALSE
  /\ starting = FALSE
  /\ switches = 0

Run(t) == ReadBuffer(t) \/ WriteBuffer(t) \/ (t = Control /\ ControlStep)

Next ==
  \/ \E t \in Threads : Run(t) \/ Spurious(t)
  \/ TrSwitch

Spec == Init /\ [][Next]_vars

(* The radio's sound card keeps capturing and playing, so its two threads  *)
(* run whenever they are not asleep, and so does control_thread.  The two  *)
(* threads of the loopback run only as long as its device is started.      *)
RadioThreads == {Control, "radio_capture", "radio_playback"}
FairSpec == Spec /\ \A t \in RadioThreads : WF_vars(Run(t))

-----------------------------------------------------------------------------
Offsets == [read : 0 .. Capacity - 1, write : 0 .. 2 * Capacity - 1]

(* Types: a buffer never holds more than its capacity, and its offsets     *)
(* stay inside the double mapping, which is all that keeps the memcpy of   *)
(* write_buffer and read_buffer inside mapped memory.                      *)
TypeOK ==
  /\ buf \in [Buffers -> Offsets]
  /\ \A b \in Buffers : Count(b) \in 0 .. Capacity
  /\ at \in [Threads -> Place]
  /\ asleep \subseteq Threads
  /\ {useLoopback, starting} \subseteq BOOLEAN
  /\ switches \in 0 .. MaxSwitches

(* What control_thread learned from size_buffer or free_size_buffer is     *)
(* still true when it reads or writes, although the mutex was released in  *)
(* between: those calls never put it to sleep, so a loopback device that   *)
(* is not started, or not listened to, cannot stop the radio's sound.      *)
TestedCallsNeverBlock ==
  Control \in asleep => at[Control].on \in {"radio_to_dsp", "mic_to_dsp"}

(* No reader sleeps on a buffer that holds what it waits for, although     *)
(* reader and writer share one condition, a signal wakes only one thread   *)
(* and a write may bring only half a block.                                *)
ReadersSleepForCause ==
  \A t \in asleep : at[t].op = "read" => Count(at[t].on) < Amount(t)

(* A writer asleep on a buffer that has room for it: only clear_buffer     *)
(* leaves one behind.                                                      *)
Stranded(t) ==
  /\ t \in asleep
  /\ at[t].op = "write"
  /\ FreeCount(at[t].on) >= Amount(t)

(* As long as no clear_buffer strands radio_capture, the DSP keeps running *)
(* and the radio keeps playing: none of the other waits, tests, drops and  *)
(* clears can stop the sound, nor can a loopback device that is not        *)
(* started, stops, or is stranded itself.                                  *)
SoundFlows ==
  []~Stranded("radio_capture") =>
    /\ []<>(at[Control].op = "dsp")
    /\ \A b \in {"dsp_to_radio", "dsp_to_speaker"} : []<>(at["radio_playback"].on = b)

=============================================================================
