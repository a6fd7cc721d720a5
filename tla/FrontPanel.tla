------------------------------ MODULE FrontPanel ------------------------------
(***************************************************************************)
(* The PTT key and the two knobs of the radio (trx_v2-userland), from the  *)
(* contacts to what they set.  The thread of sbitx_gpio.c polls the pins;  *)
(* on an edge it looks at the pins a second time, sets key_down or decodes *)
(* the knob's encoder, and counts ticks.  Every 10 ms io_tick of           *)
(* sbitx_core.c acts on the key, turns the ticks into a frequency or a     *)
(* loudspeaker level of the active profile, and protects the transmitter.  *)
(* The command thread does what the clients ask at the same time: it       *)
(* switches the radio, ends the protection, changes profile and settings.  *)
(*                                                                         *)
(* Contacts may bounce and knobs may be turned faster than they are        *)
(* polled: a pin changes between any two reads of it.  tr_switch is one    *)
(* step after a sleep (RadioTxRx has its parts), a setter is one step      *)
(* (RadioSettings has its parts).  DASH and the two push buttons, which    *)
(* nothing looks at, are left out.                                         *)
(***************************************************************************)
EXTENDS Integers, Sequences

CONSTANTS
  Profiles, DefaultProfile,
  PttProfiles,     \* those with enable_ptt
  KnobProfiles,    \* those with enable_knob_frequency and enable_knob_volume
  Fast,            \* ticks beyond which the knob counts as turned fast (50)
  Step,            \* tuning_step
  MinFreq, MaxFreq,    \* the limits of set_frequency
  Freqs, Volumes,  \* what clients set
  Start,           \* the settings at the start
  MaxEvents        \* bound: movements of each control, and commands meanwhile

Knobs == {"tuning", "volume"}
Controls == Knobs \cup {"key"}

ASSUME PanelAssumption ==
  /\ DefaultProfile \in Profiles
  /\ PttProfiles \subseteq Profiles /\ KnobProfiles \subseteq Profiles
  /\ Fast \in Nat /\ Step \in Nat /\ MinFreq \in Nat /\ MaxFreq \in Nat
  /\ Freqs \subseteq MinFreq .. MaxFreq /\ Volumes \subseteq 0 .. 100
  /\ Start \in [tuning : MinFreq .. MaxFreq, volume : 0 .. 100]
  /\ MaxEvents \in [Controls -> Nat]

VARIABLES
  used,        \* the control the operator moves
  pressed,     \* the contact of the PTT key is closed
  pos,         \* how far each knob was turned
  levels,      \* state->level of each polled pin, -1 at first
  enc,         \* the encoders: prev_state, history, and first of their ISR
  poll,        \* the polling thread: pin, place, and what it has read
  key_down,
  ticks,       \* tuning_ticks and volume_ticks
  io,          \* io_tick: place, knob, the values it works on, last_key_state
  tx,          \* txrx_state is IN_TX
  protected,   \* swr_protection_enabled
  active,      \* profile_active_idx
  setting,     \* freq and speaker_level of the profiles
  timer_reset,
  events,      \* history: for the bound
  seen,        \* history: [of each knob, the position last accepted, the
               \* first one accepted, the results since, hasty]
  rushed,      \* history: of each knob, when it last moved the thread did
               \* not know where its contacts stood
  bounced,     \* history: the two readings of the key differed
  unheard,     \* history: the last change of the key was not acted on
  overruled,   \* history: since the key last switched the radio, it was
               \* refused to, or somebody else switched it
  asked        \* history: of each knob, [base, given, disturbed]

contacts == <<used, pressed, pos, rushed>>
poller == <<levels, enc, poll, seen, bounced>>
guard == <<protected, overruled>>
radio == <<tx, active, setting, timer_reset, unheard, guard>>
vars == <<contacts, poller, key_down, ticks, io, radio, events, asked>>

-----------------------------------------------------------------------------
(* The pins in the order they are polled; side 1 is the encoder's pin_a.   *)
PollOrder == << <<"tuning", 1>>, <<"tuning", 2>>, <<"volume", 2>>, <<"volume", 1>>,
                <<"key", 1>> >>

(* The two contacts of an encoder, as enc_state numbers them.              *)
Code(p) == CASE p % 4 = 0 -> 0 [] p % 4 = 1 -> 1 [] p % 4 = 2 -> 3 [] p % 4 = 3 -> 2

(* get_level: a closed contact pulls the pin down.                         *)
Level(pin) ==
  IF pin[1] = "key" THEN (IF pressed THEN 0 ELSE 1)
  ELSE IF pin[2] = 1 THEN Code(pos[pin[1]]) % 2 ELSE Code(pos[pin[1]]) \div 2

Clockwise == {<<0, 1>>, <<1, 3>>, <<3, 2>>, <<2, 0>>}
Turned(from, to) ==
  IF <<from, to>> \in Clockwise THEN 1 ELSE IF <<to, from>> \in Clockwise THEN -1 ELSE 0

Speed == 1   \* ENC_FAST

Pin == PollOrder[poll.at]
Knob == Pin[1]

Reading == [at : 1 .. Len(PollOrder), pc : {"level", "first", "firstB", "second", "secondB"},
            level : 0 .. 1, code : 0 .. 3, a : 0 .. 1]
At(n) == [at |-> n, pc |-> "level", level |-> 0, code |-> 0, a |-> 0]
NextPin == At((poll.at % Len(PollOrder)) + 1)

(* A knob rests with both contacts open, or both closed.                   *)
Init ==
  /\ used \in Controls
  /\ pressed = FALSE
  /\ pos \in [Knobs -> {0, 2}] /\ \A k \in Knobs \ {used} : pos[k] = 2
  /\ levels = [i \in 1 .. Len(PollOrder) |-> -1]
  /\ enc = [k \in Knobs |-> [prev_state |-> 0, history |-> 5, first |-> TRUE]]
  /\ poll = At(1)
  /\ key_down = FALSE
  /\ ticks = [k \in Knobs |-> 0]
  /\ io = [pc |-> "idle", knob |-> "tuning", value |-> Start, last_key_state |-> FALSE,
           target |-> FALSE]
  /\ tx = FALSE /\ protected = FALSE /\ active = DefaultProfile
  /\ setting = [p \in Profiles |-> Start]
  /\ timer_reset = TRUE
  /\ events = 0
  /\ seen = [k \in Knobs |-> [pos |-> pos[k], origin |-> pos[k], results |-> 0,
                             accepted |-> FALSE, hasty |-> FALSE]]
  /\ rushed = [k \in Knobs |-> FALSE]
  /\ bounced = FALSE /\ unheard = FALSE /\ overruled = FALSE
  /\ asked = [k \in Knobs |-> [base |-> Start[k], given |-> 0, disturbed |-> FALSE]]

-----------------------------------------------------------------------------
(* The operator.  A knob is turned hastily when it moves before the polling *)
(* thread has both remembered and decoded where it was.                    *)
Remembered(k) ==
  \A i \in DOMAIN PollOrder : PollOrder[i][1] = k => levels[i] = Level(PollOrder[i])

Noticed(k) == enc[k].prev_state = Code(pos[k]) /\ Remembered(k)

(* The thread is in the handler of one of the knob's pins.                 *)
Handled(k) == poll.pc # "level" /\ Knob = k

(* What counts for the bound.                                             *)
Event == events < MaxEvents[used] /\ events' = events + 1

PressOrRelease ==
  /\ used = "key" /\ Event
  /\ pressed' = ~ pressed
  /\ UNCHANGED <<used, pos, rushed, poller, key_down, ticks, io, radio, asked>>

Turn(k, d) ==
  /\ used = k /\ Event
  /\ rushed' = [rushed EXCEPT ![k] = Handled(k) \/ ~ Remembered(k)]
  /\ pos' = [pos EXCEPT ![k] = @ + d]
  /\ seen' = [seen EXCEPT ![k].hasty = @ \/ ~ Noticed(k)]
  /\ UNCHANGED <<used, pressed, levels, enc, poll, bounced, key_down, ticks, io, radio,
                 asked>>

-----------------------------------------------------------------------------
(* Mutant: only falling edges are served.                                  *)
MutantPollLevel ==
  /\ poll.pc = "level"
  /\ poll' = IF levels[poll.at] # -1 /\ Level(Pin) >= levels[poll.at] THEN NextPin
             ELSE [poll EXCEPT !.pc = "first", !.level = Level(Pin)]
  /\ UNCHANGED <<contacts, levels, enc, seen, bounced, key_down, ticks, io, radio,
                 events, asked>>

(* do_gpio_poll: a pin that is as it was last is passed over.              *)
PollLevel ==
  /\ poll.pc = "level"
  /\ poll' = IF Level(Pin) = levels[poll.at] THEN NextPin
             ELSE [poll EXCEPT !.pc = "first", !.level = Level(Pin)]
  /\ UNCHANGED <<contacts, levels, enc, seen, bounced, key_down, ticks, io, radio,
                 events, asked>>

(* What the loop does when the pin has been served: it remembers the level *)
(* it read at first.                                                       *)
Served ==
  /\ levels' = [levels EXCEPT ![poll.at] = poll.level]
  /\ poll' = NextPin

(* ptt_change *)
PttChange ==
  /\ poll.pc = "first" /\ Knob = "key"
  /\ key_down' = (Level(Pin) = 0)
  /\ bounced' = (Level(Pin) # poll.level)
  /\ Served
  /\ UNCHANGED <<contacts, enc, seen, ticks, io, radio, events, asked>>

(* enc_read: enc_state, read twice, a contact at a time.                   *)
ReadA(from, to) ==
  /\ poll.pc = from /\ Knob \in Knobs
  /\ poll' = [poll EXCEPT !.pc = to, !.a = Level(<<Knob, 1>>)]
  /\ UNCHANGED <<contacts, levels, enc, seen, bounced, key_down, ticks, io, radio,
                 events, asked>>

State == poll.a + 2 * Level(<<Knob, 2>>)

ReadNewState ==
  /\ poll.pc = "firstB"
  /\ poll' = [poll EXCEPT !.pc = "second", !.code = State]
  /\ UNCHANGED <<contacts, levels, enc, seen, bounced, key_down, ticks, io, radio,
                 events, asked>>

Accepted == State = poll.code /\ poll.code # enc[Knob].prev_state

(* The rest of enc_read and of tuning_isr_a or tuning_isr_b.               *)
Rejected ==
  /\ poll.pc = "secondB" /\ ~ Accepted
  /\ enc' = [enc EXCEPT ![Knob].first = FALSE]
  /\ Served
  /\ UNCHANGED <<contacts, seen, bounced, key_down, ticks, io, radio, events, asked>>

(* Mutant: the history is not cleared by a result against the clock.       *)
MutantDecode(e, code) ==
  LET history == e.history + Turned(e.prev_state, code)
      result  == IF history > Speed THEN 1 ELSE IF history < - Speed THEN -1 ELSE 0
  IN  [result |-> result, history |-> IF result > 0 THEN 0 ELSE history]

Decode(e, code) ==
  LET history == e.history + Turned(e.prev_state, code)
      result  == IF history > Speed THEN 1 ELSE IF history < - Speed THEN -1 ELSE 0
  IN  [result |-> result, history |-> IF result # 0 THEN 0 ELSE history]

(* The position whose reading was accepted.                                *)
Nearest(code, p) == CHOOSE q \in p - 1 .. p + 2 : Code(q) = code

Accept ==
  LET k == Knob
      d == Decode(enc[k], poll.code)
      n == IF enc[k].first THEN 0 ELSE d.result
      q == Nearest(poll.code, pos[k])
  IN
  /\ poll.pc = "secondB" /\ Accepted
  /\ enc' = [enc EXCEPT ![k] = [prev_state |-> poll.code, history |-> d.history,
                               first |-> FALSE]]
  /\ ticks' = [ticks EXCEPT ![k] = @ - n]
  /\ asked' = [asked EXCEPT ![k].given = @ - n]
  /\ seen' = [seen EXCEPT ![k] =
       [pos |-> q, origin |-> IF @.accepted THEN @.origin ELSE q, accepted |-> TRUE,
        results |-> IF @.accepted THEN @.results + d.result ELSE 0, hasty |-> @.hasty]]
  /\ Served
  /\ UNCHANGED <<contacts, bounced, key_down, io, radio, events>>

Poller ==
  \/ PollLevel \/ PttChange
  \/ ReadA("first", "firstB") \/ ReadNewState \/ ReadA("second", "secondB")
  \/ Rejected \/ Accept

-----------------------------------------------------------------------------
Goto(pc) == io' = [io EXCEPT !.pc = pc]

(* The accounts of a knob start again from what the profile has now.       *)
Rebased(k, v) == [base |-> v, given |-> ticks[k], disturbed |-> FALSE]

(* io_tick.  It works on the values the active profile had at its top.     *)
Top ==
  /\ io.pc = "idle"
  /\ io' = [io EXCEPT !.pc = "key", !.value = setting[active]]
  /\ asked' = [k \in Knobs |-> IF asked[k].disturbed THEN Rebased(k, setting[active][k])
                                ELSE asked[k]]
  /\ UNCHANGED <<contacts, poller, key_down, ticks, radio, events>>

KeySame ==
  /\ io.pc = "key" /\ io.last_key_state = key_down
  /\ Goto("test")
  /\ UNCHANGED <<contacts, poller, key_down, ticks, radio, events, asked>>

(* The change of a key the active profile does not listen to is forgotten. *)
KeyIgnored ==
  /\ io.pc = "key" /\ io.last_key_state # key_down /\ active \notin PttProfiles
  /\ io' = [io EXCEPT !.pc = "test", !.last_key_state = key_down]
  /\ unheard' = TRUE
  /\ UNCHANGED <<contacts, poller, key_down, ticks, tx, active, setting, timer_reset, guard,
                 events, asked>>

KeyChanged ==
  /\ io.pc = "key" /\ io.last_key_state # key_down /\ active \in PttProfiles
  /\ io' = [io EXCEPT !.pc = "switch", !.target = key_down]
  /\ UNCHANGED <<contacts, poller, key_down, ticks, radio, events, asked>>

(* tr_switch, which sleeps.  It is asked for the state the radio is in, or *)
(* the protection refuses the other, or it switches.                       *)
Switch ==
  /\ io.pc = "switch"
  /\ LET refused == tx # io.target /\ protected IN
     /\ tx' = IF refused THEN tx ELSE io.target
     /\ overruled' = refused
  /\ Goto("remember")
  /\ UNCHANGED <<contacts, poller, key_down, ticks, active, setting, timer_reset, unheard,
                 protected, events, asked>>

(* Mutant: what was done about the key is not remembered.                  *)
MutantRemember ==
  /\ io.pc = "remember"
  /\ Goto("test")
  /\ timer_reset' = TRUE
  /\ unheard' = (key_down # io.target)
  /\ UNCHANGED <<contacts, poller, key_down, ticks, tx, active, setting, guard, events,
                 asked>>

Remember ==
  /\ io.pc = "remember"
  /\ io' = [io EXCEPT !.pc = "test", !.last_key_state = key_down]
  /\ timer_reset' = TRUE
  /\ unheard' = (key_down # io.target)
  /\ UNCHANGED <<contacts, poller, key_down, ticks, tx, active, setting, guard, events,
                 asked>>

(* The ticks of one knob, then those of the other, then the power.         *)
Done ==
  io' = [io EXCEPT !.pc = IF io.knob = "tuning" THEN "test" ELSE "power",
                   !.knob = IF io.knob = "tuning" THEN "volume" ELSE "tuning"]

NoTicks ==
  /\ io.pc = "test" /\ ticks[io.knob] = 0
  /\ Done
  /\ UNCHANGED <<contacts, poller, key_down, ticks, radio, events, asked>>

TicksIgnored ==
  /\ io.pc = "test" /\ ticks[io.knob] # 0 /\ active \notin KnobProfiles
  /\ ticks' = [ticks EXCEPT ![io.knob] = 0]
  /\ asked' = [asked EXCEPT ![io.knob].given = @ - ticks[io.knob]]
  /\ Done
  /\ UNCHANGED <<contacts, poller, key_down, radio, events>>

SpeedUp(k) == IF k = "tuning" THEN 4 ELSE 2
Abs(n) == IF n < 0 THEN - n ELSE n

StartCounting ==
  LET k == io.knob
      n == IF Abs(ticks[k]) > Fast THEN SpeedUp(k) * ticks[k] ELSE ticks[k]
  IN
  /\ io.pc = "test" /\ ticks[k] # 0 /\ active \in KnobProfiles
  /\ ticks' = [ticks EXCEPT ![k] = n]
  /\ asked' = [asked EXCEPT ![k].given = @ + n - ticks[k]]
  /\ Goto("down")
  /\ UNCHANGED <<contacts, poller, key_down, radio, events>>

(* Mutant: the counter is cleared once the loops are through.              *)
MutantTestUp ==
  /\ io.pc = "up"
  /\ Goto(IF ticks[io.knob] < 0 THEN "takeUp" ELSE "store")
  /\ ticks' = IF ticks[io.knob] < 0 THEN ticks ELSE [ticks EXCEPT ![io.knob] = 0]
  /\ UNCHANGED <<contacts, poller, key_down, radio, events, asked>>

(* The two while loops: the test of one round, and its body.               *)
TestDown ==
  /\ io.pc = "down"
  /\ Goto(IF ticks[io.knob] > 0 THEN "takeDown" ELSE "up")
  /\ UNCHANGED <<contacts, poller, key_down, ticks, radio, events, asked>>

TestUp ==
  /\ io.pc = "up"
  /\ Goto(IF ticks[io.knob] < 0 THEN "takeUp" ELSE "store")
  /\ UNCHANGED <<contacts, poller, key_down, ticks, radio, events, asked>>

(* Mutant: without the end of the scale.                                   *)
MutantHigher(k, v) == IF k = "tuning" THEN v + Step ELSE v + 2

Lower(k, v) == IF k = "tuning" THEN v - Step ELSE IF v < 3 THEN 0 ELSE v - 2
Higher(k, v) == IF k = "tuning" THEN v + Step ELSE IF v > 97 THEN 100 ELSE v + 2

TakeDown ==
  LET k == io.knob IN
  /\ io.pc = "takeDown"
  /\ ticks' = [ticks EXCEPT ![k] = @ - 1]
  /\ io' = [io EXCEPT !.pc = "down", !.value[k] = Lower(k, @)]
  /\ UNCHANGED <<contacts, poller, key_down, radio, events, asked>>

TakeUp ==
  LET k == io.knob IN
  /\ io.pc = "takeUp"
  /\ ticks' = [ticks EXCEPT ![k] = @ + 1]
  /\ io' = [io EXCEPT !.pc = "up", !.value[k] = Higher(k, @)]
  /\ UNCHANGED <<contacts, poller, key_down, radio, events, asked>>

(* set_frequency refuses what is out of its limits.                        *)
Takes(k, v) == k = "tuning" => v \in MinFreq .. MaxFreq

(* set_frequency or set_speaker_volume, for the profile active now.        *)
StoreValue ==
  LET k == io.knob
      v == io.value[k]
      kept == IF Takes(k, v) THEN v ELSE setting[active][k]
  IN
  /\ io.pc = "store"
  /\ setting' = [setting EXCEPT ![active][k] = kept]
  /\ asked' = IF Takes(k, v) THEN asked ELSE [asked EXCEPT ![k] = Rebased(k, kept)]
  /\ timer_reset' = TRUE
  /\ Done
  /\ UNCHANGED <<contacts, poller, key_down, ticks, tx, active, unheard, guard, events>>

(* swr_protection_check while the radio transmits, when the readings have  *)
(* been too high for too long: it calls tr_switch, and then sets the flag. *)
(* Otherwise the tick goes on with the stop watch.                         *)
PowerTrips ==
  /\ io.pc = "power" /\ tx
  /\ tx' = protected
  /\ overruled' = TRUE
  /\ Goto("protect")
  /\ UNCHANGED <<contacts, poller, key_down, ticks, active, setting, timer_reset, unheard,
                 protected, events, asked>>

Protect ==
  /\ io.pc = "protect"
  /\ protected' = TRUE
  /\ Goto("watch")
  /\ UNCHANGED <<contacts, poller, key_down, ticks, tx, active, setting, timer_reset, unheard,
                 overruled, events, asked>>

(* io_tick has read a value of this knob that it has not stored yet.       *)
Holds(k) ==
  CASE io.pc \in {"idle", "power", "protect", "watch"} -> FALSE
    [] io.pc \in {"test", "down", "takeDown", "up", "takeUp", "store"} ->
         k = io.knob \/ io.knob = "tuning"
    [] OTHER -> TRUE

(* A client, or the stop watch, sets what the knob sets: whatever io_tick  *)
(* holds is out of date.                                                   *)
Disturbed(k, v) ==
  IF Holds(k) THEN [asked[k] EXCEPT !.disturbed = TRUE] ELSE Rebased(k, v)

(* set_profile *)
Activate(p) ==
  /\ active' = p
  /\ asked' = [k \in Knobs |-> Disturbed(k, setting[p][k])]

(* The stop watch for reverting to the default profile.                    *)
WatchStopped ==
  /\ io.pc \in {"power", "watch"} /\ active = DefaultProfile
  /\ timer_reset' = TRUE
  /\ Goto("idle")
  /\ UNCHANGED <<contacts, poller, key_down, ticks, tx, active, setting, unheard, guard, events,
                 asked>>

WatchReset ==
  /\ io.pc \in {"power", "watch"} /\ active # DefaultProfile
  /\ timer_reset' = FALSE
  /\ Goto("idle")
  /\ UNCHANGED <<contacts, poller, key_down, ticks, tx, active, setting, unheard, guard, events,
                 asked>>

WatchExpired ==
  /\ io.pc \in {"power", "watch"} /\ active # DefaultProfile /\ ~ timer_reset
  /\ Activate(DefaultProfile)
  /\ timer_reset' = TRUE
  /\ Goto("idle")
  /\ UNCHANGED <<contacts, poller, key_down, ticks, tx, setting, unheard, guard, events>>

IoTick ==
  \/ Top \/ KeySame \/ KeyIgnored \/ KeyChanged \/ Switch \/ Remember
  \/ NoTicks \/ TicksIgnored \/ StartCounting
  \/ TestDown \/ TestUp \/ TakeDown \/ TakeUp \/ StoreValue
  \/ PowerTrips \/ Protect
  \/ WatchStopped \/ WatchReset \/ WatchExpired

-----------------------------------------------------------------------------
(* Commands of clients, executed by the command thread.                    *)
CommandSetProfile(p) ==
  /\ Event
  /\ p # active
  /\ Activate(p)
  /\ UNCHANGED <<contacts, poller, key_down, ticks, io, tx, setting, timer_reset, unheard, guard>>

CommandSet(k, p, v) ==
  /\ used = k /\ Event
  /\ v # setting[p][k] /\ Takes(k, v)
  /\ setting' = [setting EXCEPT ![p][k] = v]
  /\ asked' = IF p = active THEN [asked EXCEPT ![k] = Disturbed(k, v)] ELSE asked
  /\ UNCHANGED <<contacts, poller, key_down, ticks, io, tx, active, timer_reset, unheard, guard>>

(* CMD_PTT_ON and CMD_PTT_OFF that are not refused.                        *)
CommandPtt ==
  /\ used = "key" /\ Event
  /\ ~ protected
  /\ tx' = ~ tx /\ overruled' = TRUE
  /\ UNCHANGED <<contacts, poller, key_down, ticks, io, active, setting, timer_reset,
                 unheard, protected, asked>>

(* CMD_RESET_PROTECTION *)
CommandResetProtection ==
  /\ used = "key" /\ Event
  /\ protected /\ protected' = FALSE
  /\ UNCHANGED <<contacts, poller, key_down, ticks, io, tx, active, setting, timer_reset,
                 unheard, overruled, asked>>

Command ==
  \/ CommandPtt \/ CommandResetProtection
  \/ \E p \in Profiles :
       \/ CommandSetProfile(p)
       \/ \E v \in Freqs : CommandSet("tuning", p, v)
       \/ \E v \in Volumes : CommandSet("volume", p, v)

Next ==
  \/ PressOrRelease \/ \E k \in Knobs, d \in {1, -1} : Turn(k, d)
  \/ Poller \/ IoTick \/ Command

Spec == Init /\ [][Next]_vars

(* Both threads keep running.                                              *)
Fairness == WF_vars(Poller) /\ WF_vars(IoTick)

FairSpec == Spec /\ Fairness

-----------------------------------------------------------------------------
(* Types; a frequency in its limits, a level up to 100, and an encoder     *)
(* that gives a result before its history is beyond its speed.             *)
TypeOK ==
  /\ used \in Controls /\ pressed \in BOOLEAN /\ pos \in [Knobs -> Int]
  /\ levels \in [1 .. Len(PollOrder) -> -1 .. 1]
  /\ \A k \in Knobs :
       /\ enc[k].prev_state \in 0 .. 3
       /\ IF seen[k].accepted THEN enc[k].history \in - Speed .. Speed ELSE enc[k].history = 5
  /\ poll \in Reading
  /\ key_down \in BOOLEAN /\ tx \in BOOLEAN /\ protected \in BOOLEAN /\ timer_reset \in BOOLEAN
  /\ ticks \in [Knobs -> Int]
  /\ io.knob \in Knobs /\ io.value.volume \in 0 .. 100 /\ io.value.tuning \in Int
  /\ active \in Profiles
  /\ setting \in [Profiles -> [tuning : MinFreq .. MaxFreq, volume : 0 .. 100]]

(* A knob that moves on only when the last place was noticed gives one     *)
(* result for every Speed + 1 positions, in the direction it is turned,    *)
(* and loses none over a turn back and forth, although each of its two     *)
(* contacts calls the handler that reads both.  It counts from the first   *)
(* position it accepts.                                                    *)
KnobCounted ==
  \A k \in Knobs : ~ seen[k].hasty /\ seen[k].accepted =>
    (Speed + 1) * seen[k].results + enc[k].history = seen[k].pos - seen[k].origin

(* Where a knob comes to rest is noticed in the end if, when it moved for  *)
(* the last time, the polling thread remembered both contacts as they were *)
(* and was not in their handler.  That movement is then always decoded,    *)
(* however many places before it were missed or rejected.  A contact that  *)
(* bounces back under the handler, or to the level remembered of it, is    *)
(* the exception: no further edge need call the handler.                   *)
KnobCaughtUp == \A k \in Knobs : <>[](rushed[k] \/ enc[k].prev_state = Code(pos[k]))

(* The frequency moves by exactly the ticks that were counted, four times  *)
(* those of a fast turn, while the polling thread counts on in the middle  *)
(* of it: no tick is lost or used twice, and none is left behind.  What a  *)
(* client or the stop watch changes under io_tick is its exception, and    *)
(* then only for that tick.                                                *)
Dial(k) ==
  IF io.knob = k /\ io.pc \in {"down", "takeDown", "up", "takeUp", "store"}
  THEN io.value[k] ELSE setting[active][k]

DialFollowsTicks ==
  LET a == asked["tuning"] IN
  ~ a.disturbed => Dial("tuning") = a.base - Step * (a.given - ticks["tuning"])

(* When the key has come to rest the radio transmits if it is pressed and  *)
(* receives if not, whatever it did before, but in five cases: its contact *)
(* bounced between the two readings of it, it was pressed or released      *)
(* while tr_switch slept, the active profile was one without the key, the  *)
(* protection refused the switch, or the protection or a client switched   *)
(* the radio after the key did.                                            *)
KeyHeard == <>[](bounced \/ unheard \/ overruled \/ tx = pressed)

=============================================================================
