------------------------------ MODULE RadioTxRx ------------------------------
(***************************************************************************)
(* Switching the radio between reception and transmission                  *)
(* (trx_v2-userland/sbitx_core.c).  Two threads call tr_switch with no     *)
(* lock between them: the 10 ms loop io_tick, for the PTT key and for the  *)
(* SWR protection, and the command thread of sbitx_shm.c, for the clients' *)
(* PTT commands.  Between its writes to the transceiver tr_switch sleeps.  *)
(*                                                                         *)
(* The model has no clock.  Both threads have normal priority on the same  *)
(* processor, so a sleep has no upper bound; each is a step boundary at    *)
(* which the other thread may go any number of steps.  The key and the     *)
(* clients come at any time.  That the sleeps were too short is recorded   *)
(* in the history variable mixed.                                          *)
(***************************************************************************)
EXTENDS Naturals

CONSTANTS
  PeakRemoval,  \* REF_PEAK_REMOVAL: high readings tolerated in a row
  KeyEnabled    \* enable_ptt of the active profile

ASSUME RadioAssumption == PeakRemoval \in Nat /\ KeyEnabled \in BOOLEAN

VARIABLES
  txrx_state, swr_protection,   \* of the radio: txrx_state,
               \* swr_protection_enabled
  line,        \* the TX_LINE pin is high
  filter,      \* one of the low-pass filter relays is closed
  level,       \* the ALSA transmit level is up
  peaks,       \* peak_removal_counter of swr_protection_check
  key,         \* key_down, the PTT button
  lastKey,     \* last_key_state of io_tick
  pc,          \* where each thread is
  ret,         \* where it goes on after tr_switch
  ticks,       \* activations of io_tick, modulo 3
  mixed        \* history: the writes of a switch to transmission and of one
               \* to reception fell among each other

radio == <<txrx_state, swr_protection, line, filter, level>>
tick == <<key, lastKey, peaks, ticks>>
txrx_vars == <<radio, tick, pc, ret, mixed>>

Threads == {"hw", "cmd"}

(* In tr_switch: on the way to transmission, to reception.  Until it has   *)
(* written something the former is at "raise", the latter at "hush".       *)
ToTx == {"raise", "lift", "line", "filter"}
ToRx == {"hush", "open", "drop", "settle"}
InSwitch(t) == pc[t] \in ToTx \cup ToRx

(* gpio_init drives the relays of the filters and TX_LINE low.             *)
TxRxInit ==
  /\ txrx_state = "IN_RX" /\ swr_protection = FALSE
  /\ line = FALSE /\ filter = FALSE /\ level = FALSE
  /\ peaks = 0 /\ key = FALSE /\ lastKey = FALSE
  /\ pc = [t \in Threads |-> "idle"]
  /\ ret = [t \in Threads |-> "idle"]
  /\ ticks = 0
  /\ mixed = FALSE

-----------------------------------------------------------------------------
Step(t, from, to) == pc[t] = from /\ pc' = [pc EXCEPT ![t] = to]

(* Thread t makes its first write while the other thread is at one of      *)
(* places, in a switch the other way: their writes mix.  A first write     *)
(* while the other thread is in no switch begins anew.                     *)
FirstWrite(t, places) ==
  mixed' = \E u \in Threads \ {t} : pc[u] \in places \/ (InSwitch(u) /\ mixed)

(* tr_switch returns at once when the radio is in that state already and   *)
(* when the protection is on, whichever way it is to switch.               *)
Switches(state) == txrx_state # state /\ ~ swr_protection

(* Thread t calls tr_switch(state) and goes on at next when it is done.    *)
TrSwitch(t, from, state, next) ==
  /\ ret' = [ret EXCEPT ![t] = next]
  /\ \/ ~ Switches(state) /\ Step(t, from, next)
     \/ Switches(state) /\ state = "IN_TX" /\ Step(t, from, "raise")
     \/ Switches(state) /\ state = "IN_RX" /\ Step(t, from, "hush")

(* To transmit: txrx_state; the levels and lpf_off; 2 ms; TX_LINE; 6 ms;   *)
(* lpf_set.                                                                *)
TxRaise(t) ==
  /\ Step(t, "raise", "lift")
  /\ txrx_state' = "IN_TX"
  /\ FirstWrite(t, ToRx \ {"hush"})
  /\ UNCHANGED <<swr_protection, line, filter, level, tick, ret>>

TxLift(t) ==
  /\ Step(t, "lift", "line")
  /\ level' = TRUE /\ filter' = FALSE
  /\ UNCHANGED <<txrx_state, swr_protection, line, tick, ret, mixed>>

TxLine(t) ==
  /\ Step(t, "line", "filter")
  /\ line' = TRUE
  /\ UNCHANGED <<txrx_state, swr_protection, filter, level, tick, ret, mixed>>

TxFilter(t) ==
  /\ Step(t, "filter", ret[t])
  /\ filter' = TRUE
  /\ UNCHANGED <<txrx_state, swr_protection, line, level, tick, ret, mixed>>

(* Mutant: the transmit level is left as it is.                            *)
MutantRxHush(t) ==
  /\ Step(t, "hush", "open")
  /\ FirstWrite(t, ToTx \ {"raise"})
  /\ UNCHANGED <<radio, tick, ret>>

(* To receive: 10 ms, for a switch to transmission to finish; the levels;  *)
(* 1 ms; lpf_off; 1 ms; TX_LINE; 1 ms; lpf_set and txrx_state.             *)
RxHush(t) ==
  /\ Step(t, "hush", "open")
  /\ level' = FALSE
  /\ FirstWrite(t, ToTx \ {"raise"})
  /\ UNCHANGED <<txrx_state, swr_protection, line, filter, tick, ret>>

(* Mutant: lpf_off is left out.                                            *)
MutantRxOpen(t) ==
  /\ Step(t, "open", "drop")
  /\ UNCHANGED <<radio, tick, ret, mixed>>

RxOpen(t) ==
  /\ Step(t, "open", "drop")
  /\ filter' = FALSE
  /\ UNCHANGED <<txrx_state, swr_protection, line, level, tick, ret, mixed>>

RxDrop(t) ==
  /\ Step(t, "drop", "settle")
  /\ line' = FALSE
  /\ UNCHANGED <<txrx_state, swr_protection, filter, level, tick, ret, mixed>>

RxSettle(t) ==
  /\ Step(t, "settle", ret[t])
  /\ filter' = TRUE /\ txrx_state' = "IN_RX"
  /\ UNCHANGED <<swr_protection, line, level, tick, ret, mixed>>

Switching(t) ==
  \/ TxRaise(t) \/ TxLift(t) \/ TxLine(t) \/ TxFilter(t)
  \/ RxHush(t) \/ RxOpen(t) \/ RxDrop(t) \/ RxSettle(t)

-----------------------------------------------------------------------------
(* io_tick, up to the power readings.  When the key has changed,           *)
(* last_key_state becomes what the key is once tr_switch has returned.     *)
HwTick ==
  /\ ticks' = (ticks + 1) % 3
  /\ IF key # lastKey /\ KeyEnabled
     THEN TrSwitch("hw", "idle", IF key THEN "IN_TX" ELSE "IN_RX", "keyDone")
     ELSE /\ Step("hw", "idle", IF key # lastKey THEN "keyDone" ELSE "power")
          /\ UNCHANGED ret
  /\ UNCHANGED <<radio, key, lastKey, peaks, mixed>>

HwKeyDone ==
  /\ Step("hw", "keyDone", "power")
  /\ lastKey' = key
  /\ UNCHANGED <<radio, key, peaks, ticks, ret, mixed>>

(* Every third tick of a transmission: update_power_measurements, two      *)
(* readings over I2C.                                                      *)
HwPower ==
  /\ Step("hw", "power", IF txrx_state = "IN_TX" /\ ticks = 0 THEN "swr" ELSE "idle")
  /\ UNCHANGED <<radio, tick, ret, mixed>>

(* swr_protection_check, which trips on the reading after PeakRemoval.     *)
HwSwr(high) ==
  LET count == IF high THEN peaks + 1 ELSE 0 IN
  /\ peaks' = count
  /\ IF count > PeakRemoval
     THEN TrSwitch("hw", "swr", "IN_RX", "trip")
     ELSE Step("hw", "swr", "idle") /\ UNCHANGED ret
  /\ UNCHANGED <<radio, key, lastKey, ticks, mixed>>

(* Mutant: the counter is not reset when the protection trips.             *)
MutantHwTrip ==
  /\ Step("hw", "trip", "idle")
  /\ swr_protection' = TRUE
  /\ UNCHANGED <<txrx_state, line, filter, level, tick, ret, mixed>>

HwTrip ==
  /\ Step("hw", "trip", "idle")
  /\ swr_protection' = TRUE
  /\ peaks' = 0
  /\ UNCHANGED <<txrx_state, line, filter, level, key, lastKey, ticks, ret, mixed>>

-----------------------------------------------------------------------------
(* process_radio_command: CMD_PTT_ON and CMD_PTT_OFF, acknowledged.  When  *)
(* the radio is in that state already, or protected, they are answered by  *)
(* a NACK or an alert and change nothing.                                  *)
Ptt(state) ==
  /\ Switches(state)
  /\ TrSwitch("cmd", "idle", state, "idle")
  /\ UNCHANGED <<radio, tick, mixed>>

(* CMD_RESET_PROTECTION                                                    *)
ResetProtection ==
  /\ pc["cmd"] = "idle"
  /\ swr_protection /\ swr_protection' = FALSE
  /\ UNCHANGED <<txrx_state, line, filter, level, tick, pc, ret, mixed>>

(* ptt_change, on the thread that polls the pins.                          *)
Key ==
  /\ KeyEnabled
  /\ key' = ~ key
  /\ UNCHANGED <<radio, lastKey, peaks, ticks, pc, ret, mixed>>

TxRxNext ==
  \/ \E t \in Threads : Switching(t)
  \/ HwTick \/ HwKeyDone \/ HwPower \/ HwTrip
  \/ \E high \in BOOLEAN : HwSwr(high)
  \/ \E state \in {"IN_RX", "IN_TX"} : Ptt(state)
  \/ ResetProtection
  \/ Key

TxRxSpec == TxRxInit /\ [][TxRxNext]_txrx_vars

-----------------------------------------------------------------------------
TxRxTypeOK ==
  /\ txrx_state \in {"IN_RX", "IN_TX"}
  /\ {swr_protection, line, filter, level, key, lastKey, mixed} \subseteq BOOLEAN
  /\ peaks \in 0 .. PeakRemoval + 1
  /\ pc \in [Threads -> {"idle", "keyDone", "power", "swr", "trip"} \cup ToTx \cup ToRx]
  /\ ret \in [Threads -> {"idle", "keyDone", "trip"}]
  /\ ticks \in 0 .. 2

(* Two switches the same way may overlap as they like, and a switch to     *)
(* reception may begin in the middle of one to transmission, or the other  *)
(* way round, as long as the one has written all before the other writes   *)
(* anything.  When both are done, txrx_state, by which every later request *)
(* is judged, says what the transceiver does, and it transmits through a   *)
(* filter.  It is so again after any mix, once one switch has run alone.   *)
LineFollowsState ==
  (\A t \in Threads : ~ InSwitch(t)) /\ ~ mixed =>
    /\ line <=> txrx_state = "IN_TX"
    /\ level <=> txrx_state = "IN_TX"
    /\ txrx_state = "IN_TX" => filter

(* In the same cases TX_LINE changes only while no filter relay is closed, *)
(* and falls only when the transmit level has been taken down, although    *)
(* the other thread opens and closes the same relays.                      *)
LineSwitchedCold ==
  [][~ mixed => /\ line' # line => ~ filter
                /\ line /\ ~ line' => ~ level]_txrx_vars

(* "tx was already shut at this point" (sbitx_shm.c:86): a PTT_OFF that is *)
(* answered by the protection alert instead of a switch to reception finds *)
(* the transmitter off, even when no two switches mixed.                   *)
TxShutAtAlert == swr_protection /\ pc["cmd"] = "idle" /\ ~ mixed => ~ line

=============================================================================
