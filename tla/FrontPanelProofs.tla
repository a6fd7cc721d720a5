-------------------------- MODULE FrontPanelProofs --------------------------
(***************************************************************************)
(* Proofs about the front panel, for all limits, steps and profiles and    *)
(* any number of movements and commands: the state is well-typed, a knob's *)
(* results follow its positions, and the frequency follows the ticks, none *)
(* lost and none used twice.                                               *)
(***************************************************************************)
EXTENDS FrontPanel, TLAPS

Places == {"idle", "key", "switch", "remember", "test", "down", "takeDown", "up", "takeUp",
           "store", "power", "protect", "watch"}
Loop == {"down", "takeDown", "up", "takeUp", "store"}
Values == [tuning : Int, volume : 0 .. 100]
Settings == [tuning : MinFreq .. MaxFreq, volume : 0 .. 100]
Pins == {PollOrder[i] : i \in 1 .. 5}

(* TypeOK, and the shapes of what it says only a part of.                   *)
Hands == used \in Controls /\ pressed \in BOOLEAN /\ pos \in [Knobs -> Int]

Encoders ==
  /\ enc \in [Knobs -> [prev_state : 0 .. 3, history : Int, first : BOOLEAN]]
  /\ seen \in [Knobs -> [pos : Int, origin : Int, results : Int, accepted : BOOLEAN,
                         hasty : BOOLEAN]]
  /\ \A k \in Knobs :
       IF seen[k].accepted THEN enc[k].history \in - Speed .. Speed ELSE enc[k].history = 5

Polled ==
  /\ levels \in [1 .. Len(PollOrder) -> -1 .. 1]
  /\ poll \in Reading
  /\ poll.pc \in {"firstB", "second", "secondB"} => Knob \in Knobs
  /\ key_down \in BOOLEAN

Io ==
  /\ io \in [pc : Places, knob : Knobs, value : Values, last_key_state : BOOLEAN,
             target : BOOLEAN]
  /\ io.pc \in {"idle", "key", "switch", "remember", "power", "protect", "watch"} =>
       io.knob = "tuning"

Radio ==
  /\ tx \in BOOLEAN /\ protected \in BOOLEAN /\ timer_reset \in BOOLEAN
  /\ active \in Profiles /\ setting \in [Profiles -> Settings]

Counts ==
  /\ ticks \in [Knobs -> Int]
  /\ asked \in [Knobs -> [base : Int, given : Int, disturbed : BOOLEAN]]

Shapes == Hands /\ Encoders /\ Polled /\ Io /\ Radio /\ Counts

(* What io_tick read at its top is still what the profile has when it      *)
(* comes to the ticks of the tuning knob, unless somebody changed it.      *)
InHand ==
  \/ io.pc \in {"key", "switch", "remember"}
  \/ io.pc = "test" /\ io.knob = "tuning"
  => asked["tuning"].disturbed \/ io.value["tuning"] = setting[active]["tuning"]

(* While a pin of a knob is served the knob does not move, unless it is    *)
(* hasty: it has not been noticed.  So what is read is where it stands.    *)
Serving(k) ==
  Knob = k /\ poll.pc # "level" =>
    /\ poll.level = Level(Pin) /\ levels[poll.at] # poll.level
    /\ poll.pc \in {"firstB", "secondB"} => poll.a = Level(<<k, 1>>)
    /\ poll.pc \in {"second", "secondB"} => poll.code = Code(pos[k])

(* It stands where it was last accepted or next to that.                   *)
Accounted(k) ==
  seen[k].accepted =>
    /\ enc[k].prev_state = Code(seen[k].pos) /\ pos[k] - seen[k].pos \in -1 .. 1
    /\ (Speed + 1) * seen[k].results + enc[k].history = seen[k].pos - seen[k].origin

Tracked == \A k \in Knobs : ~ seen[k].hasty => Serving(k) /\ Accounted(k)

IInv == Shapes /\ InHand /\ DialFollowsTicks /\ Tracked

-----------------------------------------------------------------------------
(* Readings.                                                               *)
LEMMA CodeTypes ==
  ASSUME NEW p \in Int
  PROVE  Code(p) \in 0 .. 3 /\ Code(p) % 2 \in 0 .. 1 /\ Code(p) \div 2 \in 0 .. 1
<1>1. p % 4 \in 0 .. 3
  OBVIOUS
<1>2. Code(p) \in 0 .. 3
  BY <1>1 DEF Code
<1>3. \A c \in 0 .. 3 : c % 2 \in 0 .. 1 /\ c \div 2 \in 0 .. 1
  OBVIOUS
<1>. QED BY <1>2, <1>3

LEMMA PinTypes ==
  /\ Len(PollOrder) = 5
  /\ \A i \in 1 .. 5 : PollOrder[i] \in Pins /\ PollOrder[i][1] \in Controls
                       /\ PollOrder[i][2] \in 1 .. 2
<1>1. Len(PollOrder) = 5
  BY DEF PollOrder
<1>2. ASSUME NEW i \in 1 .. 5
      PROVE  PollOrder[i][1] \in Controls /\ PollOrder[i][2] \in 1 .. 2
  BY DEF PollOrder, Controls, Knobs
<1>. QED BY <1>1, <1>2 DEF Pins

LEMMA LevelTypes ==
  ASSUME TypeOK, NEW k \in Controls, NEW s \in 1 .. 2
  PROVE  Level(<<k, s>>) \in 0 .. 1
<1>1. <<k, s>>[1] = k /\ <<k, s>>[2] = s
  OBVIOUS
<1>2. CASE k = "key"
  BY <1>1, <1>2 DEF Level
<1>3. CASE k # "key"
  <2>1. k \in Knobs /\ pos[k] \in Int
    BY <1>3 DEF Controls, TypeOK
  <2>. QED BY <1>1, <1>3, <2>1, CodeTypes DEF Level
<1>. QED BY <1>2, <1>3

LEMMA PinLevel ==
  ASSUME TypeOK
  PROVE  /\ poll.at \in 1 .. 5 /\ Knob \in Controls /\ Level(Pin) \in 0 .. 1
         /\ NextPin \in Reading /\ NextPin.pc = "level"
<1>1. poll.at \in 1 .. 5
  BY PinTypes DEF TypeOK, Reading
<1>2. Pin \in Pins /\ Pin[1] \in Controls /\ Pin[2] \in 1 .. 2
  BY <1>1, PinTypes DEF Pin
<1>3. Level(Pin) \in 0 .. 1
  <2>1. CASE Pin[1] = "key"
    BY <2>1 DEF Level
  <2>2. CASE Pin[1] # "key"
    <3>1. Pin[1] \in Knobs /\ pos[Pin[1]] \in Int
      BY <1>2, <2>2 DEF Controls, TypeOK
    <3>. QED BY <2>2, <3>1, CodeTypes DEF Level
  <2>. QED BY <2>1, <2>2
<1>4. (poll.at % 5) + 1 \in 1 .. 5
  BY <1>1
<1>5. NextPin \in Reading /\ NextPin.pc = "level"
  BY <1>4, PinTypes DEF NextPin, At, Reading
<1>. QED BY <1>1, <1>2, <1>3, <1>5 DEF Knob

LEMMA StateTypes ==
  ASSUME TypeOK, Knob \in Knobs
  PROVE  State \in 0 .. 3
<1>1. Level(<<Knob, 2>>) \in 0 .. 1
  <2>1. Knob \in Controls /\ 2 \in 1 .. 2
    BY DEF Controls
  <2>. QED BY <2>1, LevelTypes
<1>2. poll.a \in 0 .. 1
  BY DEF TypeOK, Reading
<1>. QED BY <1>1, <1>2 DEF State

(* Among four neighbouring positions one reads as any code.                *)
LEMMA NearestIs ==
  ASSUME NEW code \in 0 .. 3, NEW p \in Int
  PROVE  Nearest(code, p) \in p - 1 .. p + 2 /\ Code(Nearest(code, p)) = code
<1>1. \E q \in p - 1 .. p + 2 : Code(q) = code
  <2>. DEFINE Is(r) == \E q \in p - 1 .. p + 2 : q % 4 = r
  <2>1. p % 4 \in 0 .. 3
    OBVIOUS
  <2>2. ASSUME NEW r \in 0 .. 3
        PROVE  \E d \in -1 .. 2 : (p + d) % 4 = r
    <3>1. CASE p % 4 = 0
      <4>1. (p - 1) % 4 = 3 /\ p % 4 = 0 /\ (p + 1) % 4 = 1 /\ (p + 2) % 4 = 2
        BY <3>1
      <4>. QED BY <4>1
    <3>2. CASE p % 4 = 1
      <4>1. (p - 1) % 4 = 0 /\ p % 4 = 1 /\ (p + 1) % 4 = 2 /\ (p + 2) % 4 = 3
        BY <3>2
      <4>. QED BY <4>1
    <3>3. CASE p % 4 = 2
      <4>1. (p - 1) % 4 = 1 /\ p % 4 = 2 /\ (p + 1) % 4 = 3 /\ (p + 2) % 4 = 0
        BY <3>3
      <4>. QED BY <4>1
    <3>4. CASE p % 4 = 3
      <4>1. (p - 1) % 4 = 2 /\ p % 4 = 3 /\ (p + 1) % 4 = 0 /\ (p + 2) % 4 = 1
        BY <3>4
      <4>. QED BY <4>1
    <3>. QED BY <2>1, <3>1, <3>2, <3>3, <3>4
  <2>3. \A r \in 0 .. 3 : Is(r)
    BY <2>2
  <2>. HIDE DEF Is
  <2>4. Is(code)
    BY <2>3
  <2>5. CASE code = 0
    BY <2>3, <2>5 DEF Is, Code
  <2>6. CASE code = 1
    BY <2>3, <2>6 DEF Is, Code
  <2>7. CASE code = 2
    <3>1. \E q \in p - 1 .. p + 2 : q % 4 = 3
      BY <2>3 DEF Is
    <3>. QED BY <3>1, <2>7 DEF Code
  <2>8. CASE code = 3
    <3>1. \E q \in p - 1 .. p + 2 : q % 4 = 2
      BY <2>3 DEF Is
    <3>. QED BY <3>1, <2>8 DEF Code
  <2>. QED BY <2>5, <2>6, <2>7, <2>8
<1>. QED BY <1>1 DEF Nearest

LEMMA ShapesTypes == Shapes => TypeOK
<1>. SUFFICES ASSUME Shapes PROVE TypeOK
  OBVIOUS
<1>1. \A k \in Knobs : enc[k].prev_state \in 0 .. 3
  BY DEF Shapes, Encoders
<1>2. io.knob \in Knobs /\ io.value.volume \in 0 .. 100 /\ io.value.tuning \in Int
  BY DEF Shapes, Io, Values
<1>. QED BY <1>1, <1>2 DEF Shapes, Hands, Encoders, Polled, Radio, Counts, Settings, TypeOK

-----------------------------------------------------------------------------
(* The operator and the polling thread.                                    *)
LEMMA ServedTypes ==
  ASSUME Shapes, Served
  PROVE  levels' \in [1 .. Len(PollOrder) -> -1 .. 1] /\ poll' \in Reading
         /\ poll'.pc = "level"
<1>1. TypeOK /\ poll.level \in 0 .. 1
  BY ShapesTypes DEF Shapes, Polled, Reading
<1>2. poll' = NextPin /\ NextPin \in Reading /\ NextPin.pc = "level"
  BY <1>1, PinLevel DEF Served
<1>3. levels' = [levels EXCEPT ![poll.at] = poll.level]
  BY DEF Served
<1>4. levels' \in [1 .. Len(PollOrder) -> -1 .. 1]
  <2>. DEFINE D == 1 .. Len(PollOrder)
              L == -1 .. 1
  <2>1. levels \in [D -> L]
    BY DEF Shapes, Polled
  <2>2. poll.level \in L
    BY <1>1
  <2>3. levels' \in [D -> L]
    <3>. HIDE DEF D, L
    <3>. QED BY <1>3, <2>1, <2>2
  <2>. QED BY <2>3
<1>. QED BY <1>2, <1>4

LEMMA DecodeTypes ==
  ASSUME NEW e \in [prev_state : 0 .. 3, history : Int, first : BOOLEAN],
         NEW code \in 0 .. 3, e.history \in - Speed .. Speed \/ e.history = 5
  PROVE  Decode(e, code).result \in -1 .. 1
         /\ Decode(e, code).history \in - Speed .. Speed
<1>1. Turned(e.prev_state, code) \in -1 .. 1
  BY DEF Turned
<1>. QED BY <1>1 DEF Decode, Speed

LEMMA AcceptTypes ==
  ASSUME Shapes, Accept
  PROVE  Encoders' /\ Counts'
<1>. DEFINE k == Knob
            d == Decode(enc[k], poll.code)
            n == IF enc[k].first THEN 0 ELSE d.result
            q == Nearest(poll.code, pos[k])
<1>1. k \in Knobs /\ poll.code \in 0 .. 3
  BY DEF Accept, Shapes, Polled, Reading
<1>2. enc[k] \in [prev_state : 0 .. 3, history : Int, first : BOOLEAN]
      /\ (enc[k].history \in - Speed .. Speed \/ enc[k].history = 5)
  BY <1>1 DEF Shapes, Encoders
<1>3. d.result \in -1 .. 1 /\ d.history \in - Speed .. Speed
  BY <1>1, <1>2, DecodeTypes
<1>4. n \in Int
  BY <1>3
<1>5. q \in Int
  <2>1. pos[k] \in Int
    BY <1>1 DEF Shapes, Hands
  <2>2. q \in pos[k] - 1 .. pos[k] + 2
    BY <1>1, <2>1, NearestIs
  <2>. HIDE DEF k, q
  <2>. QED BY <2>1, <2>2
<1>6. Encoders'
  <2>1. enc' = [enc EXCEPT ![k] = [prev_state |-> poll.code, history |-> d.history,
                                  first |-> FALSE]]
    BY DEF Accept
  <2>2. seen' = [seen EXCEPT ![k] =
          [pos |-> q, origin |-> IF @.accepted THEN @.origin ELSE q, accepted |-> TRUE,
           results |-> IF @.accepted THEN @.results + d.result ELSE 0, hasty |-> @.hasty]]
    BY DEF Accept
  <2>. HIDE DEF k, d, q
  <2>3. d.history \in Int
    BY <1>3 DEF Speed
  <2>4. enc' \in [Knobs -> [prev_state : 0 .. 3, history : Int, first : BOOLEAN]]
    BY <1>1, <2>1, <2>3 DEF Shapes, Encoders
  <2>5. seen' \in [Knobs -> [pos : Int, origin : Int, results : Int, accepted : BOOLEAN,
                            hasty : BOOLEAN]]
    BY <1>1, <1>3, <1>5, <2>2 DEF Shapes, Encoders
  <2>6. \A j \in Knobs : IF seen'[j].accepted THEN enc'[j].history \in - Speed .. Speed
                         ELSE enc'[j].history = 5
    BY <1>1, <1>3, <2>1, <2>2 DEF Shapes, Encoders
  <2>. QED BY <2>4, <2>5, <2>6 DEF Encoders
<1>7. Counts'
  <2>1. ticks' = [ticks EXCEPT ![k] = @ - n] /\ asked' = [asked EXCEPT ![k].given = @ - n]
    BY DEF Accept
  <2>. HIDE DEF k, n
  <2>. QED BY <1>1, <1>4, <2>1 DEF Shapes, Counts
<1>. QED BY <1>6, <1>7

LEMMA OperatorTypes ==
  ASSUME Shapes, PressOrRelease \/ \E k \in Knobs, d \in {1, -1} : Turn(k, d)
  PROVE  Shapes'
<1>1. CASE PressOrRelease
  BY <1>1 DEF PressOrRelease, Shapes, Hands, Encoders, Polled, Io, Radio, Counts, poller,
              radio, guard, Knob, Pin
<1>2. ASSUME NEW k \in Knobs, NEW d \in {1, -1}, Turn(k, d)
      PROVE  Shapes'
  <2>1. Hands'
    BY <1>2 DEF Turn, Shapes, Hands
  <2>2. Encoders'
    <3>1. enc' = enc /\ seen' = [seen EXCEPT ![k].hasty = @ \/ ~ Noticed(k)]
      BY <1>2 DEF Turn
    <3>2. (seen[k].hasty \/ ~ Noticed(k)) \in BOOLEAN
      BY DEF Noticed
    <3>. QED BY <1>2, <3>1, <3>2 DEF Shapes, Encoders
  <2>3. Polled' /\ Io' /\ Radio' /\ Counts'
    BY <1>2 DEF Turn, Shapes, Polled, Io, Radio, Counts, radio, guard, Knob, Pin
  <2>. QED BY <2>1, <2>2, <2>3 DEF Shapes
<1>. QED BY <1>1, <1>2

LEMMA PollerTypes ==
  ASSUME Shapes, Poller
  PROVE  Shapes'
<1>1. TypeOK /\ Level(Pin) \in 0 .. 1 /\ NextPin \in Reading /\ NextPin.pc = "level"
      /\ Knob \in Controls
  BY ShapesTypes, PinLevel
<1>2. Hands' /\ Io' /\ Radio'
  BY DEF Poller, PollLevel, PttChange, ReadA, ReadNewState, Rejected, Accept, Shapes, Hands,
         Io, Radio, contacts, radio, guard
<1>3. Counts'
  <2>1. CASE Accept
    BY <2>1, AcceptTypes
  <2>2. CASE ~ Accept
    BY <2>2 DEF Poller, PollLevel, PttChange, ReadA, ReadNewState, Rejected, Shapes, Counts
  <2>. QED BY <2>1, <2>2
<1>4. CASE PollLevel
  <2>1. Encoders' /\ key_down' = key_down /\ levels' = levels
    BY <1>4 DEF PollLevel, Shapes, Encoders
  <2>2. poll' \in Reading /\ poll'.pc \in {"level", "first"}
    BY <1>1, <1>4 DEF PollLevel, Shapes, Polled, Reading
  <2>. QED BY <1>2, <1>3, <2>1, <2>2 DEF Shapes, Polled
<1>5. CASE PttChange
  <2>1. Encoders' /\ key_down' \in BOOLEAN /\ Served
    BY <1>5 DEF PttChange, Shapes, Encoders
  <2>. QED BY <1>2, <1>3, <2>1, ServedTypes DEF Shapes, Polled
<1>6. ASSUME NEW from \in {"first", "second"}, NEW to \in {"firstB", "secondB"},
             ReadA(from, to)
      PROVE  Shapes'
  <2>1. Encoders' /\ key_down' = key_down /\ levels' = levels
    BY <1>6 DEF ReadA, Shapes, Encoders
  <2>2. Level(<<Knob, 1>>) \in 0 .. 1
    <3>1. 1 \in 1 .. 2
      OBVIOUS
    <3>. QED BY <1>1, <3>1, LevelTypes
  <2>3. poll' = [poll EXCEPT !.pc = to, !.a = Level(<<Knob, 1>>)] /\ Knob \in Knobs
    BY <1>6 DEF ReadA
  <2>4. poll' \in Reading /\ poll'.at = poll.at
    BY <2>2, <2>3 DEF Shapes, Polled, Reading
  <2>5. Knob' = Knob
    BY <2>4 DEF Knob, Pin
  <2>. QED BY <1>2, <1>3, <2>1, <2>3, <2>4, <2>5 DEF Shapes, Polled
<1>7. CASE ReadNewState
  <2>1. Encoders' /\ key_down' = key_down /\ levels' = levels
    BY <1>7 DEF ReadNewState, Shapes, Encoders
  <2>2. Knob \in Knobs /\ poll' = [poll EXCEPT !.pc = "second", !.code = State]
    BY <1>7 DEF ReadNewState, Shapes, Polled
  <2>3. State \in 0 .. 3
    BY <1>1, <2>2, StateTypes
  <2>4. poll' \in Reading /\ poll'.at = poll.at
    BY <2>2, <2>3 DEF Shapes, Polled, Reading
  <2>5. Knob' = Knob
    BY <2>4 DEF Knob, Pin
  <2>. QED BY <1>2, <1>3, <2>1, <2>2, <2>4, <2>5 DEF Shapes, Polled
<1>8. CASE Rejected
  <2>1. Knob \in Knobs /\ Served /\ key_down' = key_down
    BY <1>8 DEF Rejected, Shapes, Polled
  <2>2. Encoders'
    BY <1>8, <2>1 DEF Rejected, Shapes, Encoders
  <2>. QED BY <1>2, <1>3, <2>1, <2>2, ServedTypes DEF Shapes, Polled
<1>9. CASE Accept
  <2>1. Served /\ key_down' = key_down
    BY <1>9 DEF Accept
  <2>. QED BY <1>2, <1>9, <2>1, AcceptTypes, ServedTypes DEF Shapes, Polled
<1>. QED BY <1>4, <1>5, <1>6, <1>7, <1>8, <1>9 DEF Poller

-----------------------------------------------------------------------------
(* The thread of io_tick, and the clients.                                 *)
LEMMA ValueTypes ==
  ASSUME PanelAssumption, NEW k \in Knobs, NEW value \in Values
  PROVE  /\ [value EXCEPT ![k] = Lower(k, value[k])] \in Values
         /\ [value EXCEPT ![k] = Higher(k, value[k])] \in Values
<1>1. value.tuning \in Int /\ value.volume \in 0 .. 100 /\ Step \in Int
  BY DEF Values, PanelAssumption
<1>2. CASE k = "tuning"
  BY <1>1, <1>2 DEF Lower, Higher, Values
<1>3. CASE k = "volume"
  <2>1. Lower(k, value[k]) \in 0 .. 100 /\ Higher(k, value[k]) \in 0 .. 100
    BY <1>1, <1>3 DEF Lower, Higher
  <2>. QED BY <1>1, <1>3, <2>1 DEF Values
<1>. QED BY <1>2, <1>3 DEF Knobs

LEMMA SettingTypes ==
  ASSUME PanelAssumption, Radio
  PROVE  /\ setting[active] \in Settings /\ setting[active] \in Values
         /\ \A p \in Profiles, k \in Knobs : setting[p][k] \in Int
<1>1. \A p \in Profiles : setting[p] \in Settings
  BY DEF Radio
<1>2. \A v \in Settings : v \in Values /\ v.tuning \in Int /\ v.volume \in Int
  <2>1. MinFreq .. MaxFreq \subseteq Int
    BY DEF PanelAssumption
  <2>. QED BY <2>1 DEF Settings, Values
<1>3. active \in Profiles
  BY DEF Radio
<1>. QED BY <1>1, <1>2, <1>3 DEF Knobs

LEMMA RebasedTypes ==
  ASSUME Counts, NEW k \in Knobs, NEW v \in Int
  PROVE  Rebased(k, v) \in [base : Int, given : Int, disturbed : BOOLEAN]
BY DEF Counts, Rebased

LEMMA DisturbedTypes ==
  ASSUME Counts, NEW k \in Knobs, NEW v \in Int
  PROVE  Disturbed(k, v) \in [base : Int, given : Int, disturbed : BOOLEAN]
<1>1. asked[k] \in [base : Int, given : Int, disturbed : BOOLEAN]
  BY DEF Counts
<1>. QED BY <1>1, RebasedTypes DEF Disturbed

LEMMA ActivateTypes ==
  ASSUME PanelAssumption, Radio, Counts, NEW p \in Profiles, Activate(p)
  PROVE  /\ active' \in Profiles
         /\ asked' \in [Knobs -> [base : Int, given : Int, disturbed : BOOLEAN]]
<1>1. \A k \in Knobs : Disturbed(k, setting[p][k])
                       \in [base : Int, given : Int, disturbed : BOOLEAN]
  BY SettingTypes, DisturbedTypes
<1>. QED BY <1>1 DEF Activate

(* io_tick leaves the contacts and the polling thread alone.               *)
LEMMA IoTickLeaves == IoTick => UNCHANGED <<contacts, poller, key_down>>
BY DEF IoTick, Top, KeySame, KeyIgnored, KeyChanged, Switch, Remember, NoTicks, TicksIgnored,
       StartCounting, TestDown, TestUp, TakeDown, TakeUp, StoreValue, PowerTrips, Protect,
       WatchStopped,
       WatchReset, WatchExpired

LEMMA IoTickKeeps ==
  ASSUME Shapes, IoTick
  PROVE  Hands' /\ Encoders' /\ Polled'
BY IoTickLeaves DEF contacts, poller, Shapes, Hands, Encoders, Polled, Knob, Pin

LEMMA IoTypes ==
  ASSUME PanelAssumption, Shapes, IoTick
  PROVE  Io'
<1>. DEFINE T == [pc : Places, knob : Knobs, value : Values, last_key_state : BOOLEAN,
                  target : BOOLEAN]
<1>1. io \in T /\ io.knob \in Knobs /\ io.value \in Values
      /\ (io.pc \in {"idle", "key", "switch", "remember", "power", "protect", "watch"} =>
       io.knob = "tuning")
      /\ key_down \in BOOLEAN
  BY DEF Shapes, Io, Polled
<1>2. CASE Top
  BY <1>1, <1>2, SettingTypes DEF Top, Io, Places, Shapes
<1>3. CASE \/ KeySame \/ Switch \/ PowerTrips \/ Protect
           \/ WatchStopped \/ WatchReset \/ WatchExpired
  BY <1>1, <1>3 DEF KeySame, Switch, PowerTrips, Protect, WatchStopped, WatchReset, WatchExpired,
                    Goto, Io, Places
<1>4. CASE KeyIgnored \/ KeyChanged \/ Remember
  BY <1>1, <1>4 DEF KeyIgnored, KeyChanged, Remember, Io, Places
<1>5. CASE NoTicks \/ TicksIgnored \/ StoreValue
  BY <1>1, <1>5 DEF NoTicks, TicksIgnored, StoreValue, Done, Io, Places, Knobs
<1>6. CASE StartCounting \/ TestDown \/ TestUp
  BY <1>1, <1>6 DEF StartCounting, TestDown, TestUp, Goto, Io, Places
<1>7. CASE TakeDown
  <2>. DEFINE v == [io.value EXCEPT ![io.knob] = Lower(io.knob, io.value[io.knob])]
  <2>1. io' = [io EXCEPT !.pc = "down", !.value = v]
    BY <1>1, <1>7 DEF TakeDown
  <2>2. v \in Values
    BY <1>1, ValueTypes
  <2>. HIDE DEF v
  <2>. QED BY <1>1, <2>1, <2>2 DEF Io, Places
<1>8. CASE TakeUp
  <2>. DEFINE v == [io.value EXCEPT ![io.knob] = Higher(io.knob, io.value[io.knob])]
  <2>1. io' = [io EXCEPT !.pc = "up", !.value = v]
    BY <1>1, <1>8 DEF TakeUp
  <2>2. v \in Values
    BY <1>1, ValueTypes
  <2>. HIDE DEF v
  <2>. QED BY <1>1, <2>1, <2>2 DEF Io, Places
<1>. QED BY <1>2, <1>3, <1>4, <1>5, <1>6, <1>7, <1>8 DEF IoTick

(* What a knob stores is in the limits.                                    *)
LEMMA StoredTypes ==
  ASSUME PanelAssumption, Shapes, StoreValue
  PROVE  Radio' /\ Counts'
<1>. DEFINE k == io.knob
            v == io.value[k]
            kept == IF Takes(k, v) THEN v ELSE setting[active][k]
<1>1. k \in Knobs /\ io.value.tuning \in Int /\ io.value.volume \in 0 .. 100
      /\ setting[active].tuning \in MinFreq .. MaxFreq /\ setting[active].volume \in 0 .. 100
  BY SettingTypes DEF Shapes, Io, Values, Settings
<1>2. /\ k = "tuning" => kept \in MinFreq .. MaxFreq
      /\ k = "volume" => kept \in 0 .. 100
      /\ kept \in Int
  BY <1>1 DEF Takes, PanelAssumption, Knobs
<1>3. /\ setting' = [setting EXCEPT ![active][k] = kept]
      /\ asked' = IF Takes(k, v) THEN asked ELSE [asked EXCEPT ![k] = Rebased(k, kept)]
      /\ timer_reset' = TRUE
      /\ UNCHANGED <<tx, protected, active, ticks>>
  BY DEF StoreValue, guard
<1>. HIDE DEF k, v, kept
<1>4. setting' \in [Profiles -> Settings]
  <2>1. setting[active] \in Settings /\ setting \in [Profiles -> Settings]
    BY SettingTypes DEF Shapes, Radio
  <2>2. [setting[active] EXCEPT ![k] = kept] \in Settings
    BY <1>1, <1>2, <2>1 DEF Settings, Knobs
  <2>. QED BY <1>3, <2>1, <2>2
<1>5. Rebased(k, kept) \in [base : Int, given : Int, disturbed : BOOLEAN]
  BY <1>1, <1>2, RebasedTypes DEF Shapes
<1>. QED BY <1>3, <1>4, <1>5 DEF Shapes, Radio, Counts

LEMMA IoTickTypes ==
  ASSUME PanelAssumption, Shapes, IoTick
  PROVE  Shapes'
<1>1. Hands' /\ Encoders' /\ Polled' /\ Io'
  BY IoTickKeeps, IoTypes
<1>2. CASE Top
  <2>1. \A k \in Knobs : (IF asked[k].disturbed THEN Rebased(k, setting[active][k])
                          ELSE asked[k]) \in [base : Int, given : Int, disturbed : BOOLEAN]
    BY SettingTypes, RebasedTypes DEF Shapes, Counts, Radio
  <2>2. Radio' /\ Counts'
    BY <1>2, <2>1 DEF Top, Shapes, Radio, Counts, radio, guard
  <2>. QED BY <1>1, <2>2 DEF Shapes
<1>3. CASE \/ KeySame \/ KeyIgnored \/ KeyChanged \/ Switch \/ Remember \/ NoTicks
           \/ TestDown \/ TestUp \/ PowerTrips \/ Protect \/ WatchStopped \/ WatchReset
  <2>1. io \in [pc : Places, knob : Knobs, value : Values, last_key_state : BOOLEAN,
               target : BOOLEAN]
    BY DEF Shapes, Io
  <2>2. Radio' /\ Counts'
    BY <1>3, <2>1 DEF KeySame, KeyIgnored, KeyChanged, Switch, Remember, NoTicks, TestDown,
                      TestUp, PowerTrips, Protect, WatchStopped, WatchReset, Shapes, Radio,
                      Counts, radio, guard
  <2>. QED BY <1>1, <2>2 DEF Shapes
<1>4. CASE TicksIgnored \/ StartCounting \/ TakeDown \/ TakeUp
  <2>1. io.knob \in Knobs
    BY DEF Shapes, Io
  <2>2. Radio'
    BY <1>4 DEF TicksIgnored, StartCounting, TakeDown, TakeUp, Shapes, Radio, radio, guard
  <2>3. Counts'
    BY <1>4, <2>1 DEF TicksIgnored, StartCounting, SpeedUp, TakeDown, TakeUp, Shapes, Counts
  <2>. QED BY <1>1, <2>2, <2>3 DEF Shapes
<1>5. CASE StoreValue
  BY <1>1, <1>5, StoredTypes DEF Shapes
<1>6. CASE WatchExpired
  <2>1. DefaultProfile \in Profiles /\ Activate(DefaultProfile)
    BY <1>6 DEF WatchExpired, PanelAssumption
  <2>2. /\ active' \in Profiles
        /\ asked' \in [Knobs -> [base : Int, given : Int, disturbed : BOOLEAN]]
    BY <2>1, ActivateTypes DEF Shapes
  <2>. QED BY <1>1, <1>6, <2>2 DEF WatchExpired, Shapes, Radio, Counts, guard
<1>. QED BY <1>2, <1>3, <1>4, <1>5, <1>6 DEF IoTick

LEMMA CommandTypes ==
  ASSUME PanelAssumption, Shapes, Command
  PROVE  Shapes'
<1> DEFINE Sets(p) == \/ CommandSetProfile(p)
                      \/ \E v \in Freqs : CommandSet("tuning", p, v)
                      \/ \E v \in Volumes : CommandSet("volume", p, v)
<1>0. CASE CommandPtt \/ CommandResetProtection
  BY <1>0 DEF CommandPtt, CommandResetProtection, contacts, poller, Shapes, Hands, Encoders,
              Polled, Io, Radio, Counts, Knob, Pin
<1>1. ASSUME NEW p \in Profiles, Sets(p) PROVE Shapes'
  <2>2. /\ Hands' /\ Encoders' /\ Polled' /\ Io' /\ ticks' = ticks /\ tx' = tx
        /\ protected' = protected /\ timer_reset' = timer_reset
    BY <1>1 DEF CommandSetProfile, CommandSet, contacts, poller, guard, Shapes, Hands, Encoders,
                Polled, Io, Knob, Pin
  <2>3. CASE CommandSetProfile(p)
    <3>1. /\ active' \in Profiles /\ setting' = setting
          /\ asked' \in [Knobs -> [base : Int, given : Int, disturbed : BOOLEAN]]
      BY <2>3, ActivateTypes DEF CommandSetProfile, Shapes
    <3>. QED BY <2>2, <3>1 DEF Shapes, Radio, Counts
  <2>4. ASSUME NEW k \in Knobs, NEW v \in Int, CommandSet(k, p, v),
               k = "tuning" => v \in MinFreq .. MaxFreq, k = "volume" => v \in 0 .. 100
        PROVE  Shapes'
    <3>1. setting' = [setting EXCEPT ![p][k] = v] /\ active' = active
          /\ asked' = IF p = active THEN [asked EXCEPT ![k] = Disturbed(k, v)] ELSE asked
      BY <2>4 DEF CommandSet
    <3>2. setting[p] \in Settings /\ setting \in [Profiles -> Settings]
      BY DEF Shapes, Radio
    <3>3. [setting[p] EXCEPT ![k] = v] \in Settings
      BY <2>4, <3>2 DEF Settings, Knobs
    <3>4. setting' \in [Profiles -> Settings]
      BY <3>1, <3>2, <3>3
    <3>5. Disturbed(k, v) \in [base : Int, given : Int, disturbed : BOOLEAN]
      BY DisturbedTypes DEF Shapes
    <3>6. asked' \in [Knobs -> [base : Int, given : Int, disturbed : BOOLEAN]]
      BY <3>1, <3>5 DEF Shapes, Counts
    <3>. QED BY <2>2, <3>1, <3>4, <3>6 DEF Shapes, Radio, Counts
  <2>5. "tuning" \in Knobs /\ "volume" \in Knobs
        /\ (\A v \in Freqs : v \in Int /\ v \in MinFreq .. MaxFreq)
        /\ (\A v \in Volumes : v \in Int /\ v \in 0 .. 100)
    BY DEF Knobs, PanelAssumption
  <2>6. ASSUME NEW v \in Freqs, CommandSet("tuning", p, v) PROVE Shapes'
    BY <2>4, <2>5, <2>6
  <2>7. ASSUME NEW v \in Volumes, CommandSet("volume", p, v) PROVE Shapes'
    BY <2>4, <2>5, <2>7
  <2>. QED BY <1>1, <2>3, <2>6, <2>7
<1>. QED BY <1>0, <1>1 DEF Command

LEMMA ShapesStep ==
  ASSUME PanelAssumption, Shapes, [Next]_vars
  PROVE  Shapes'
<1>1. CASE UNCHANGED vars
  BY <1>1 DEF vars, contacts, poller, radio, guard, Shapes, Hands, Encoders, Polled, Io, Radio,
              Counts, Knob, Pin
<1>2. CASE Next
  BY <1>2, OperatorTypes, PollerTypes, IoTickTypes, CommandTypes DEF Next
<1>. QED BY <1>1, <1>2

-----------------------------------------------------------------------------
(* The frequency.                                                          *)
InLoop == io.knob = "tuning" /\ io.pc \in Loop
Reads == io.pc \in {"key", "switch", "remember"} \/ (io.pc = "test" /\ io.knob = "tuning")

LEMMA DialTypes ==
  ASSUME PanelAssumption, Shapes
  PROVE  /\ asked["tuning"].base \in Int /\ asked["tuning"].given \in Int
         /\ asked["tuning"].disturbed \in BOOLEAN
         /\ ticks["tuning"] \in Int /\ Step \in Int
         /\ setting[active]["tuning"] \in Int /\ io.value["tuning"] \in Int
         /\ active \in Profiles /\ io.knob \in Knobs
         /\ "tuning" \in Knobs /\ "volume" \in Knobs
         /\ DOMAIN asked = Knobs /\ DOMAIN ticks = Knobs /\ DOMAIN setting = Profiles
<1>1. "tuning" \in Knobs /\ "volume" \in Knobs
  BY DEF Knobs
<1>2. setting[active]["tuning"] \in Int /\ io.value["tuning"] \in Int
  BY <1>1, SettingTypes DEF Shapes, Io, Radio, Values
<1>. QED BY <1>1, <1>2 DEF Shapes, Counts, Radio, Io, PanelAssumption

(* What neither moves the frequency nor counts.                            *)
LEMMA DialKept ==
  ASSUME InHand, DialFollowsTicks, UNCHANGED <<asked, ticks, setting, active>>,
         io'.value = io.value, InLoop' <=> InLoop, Reads' => Reads
  PROVE  InHand' /\ DialFollowsTicks'
<1>1. InHand'
  BY DEF InHand, Reads
<1>2. Dial("tuning")' = Dial("tuning")
  BY DEF Dial, InLoop, Loop
<1>3. DialFollowsTicks'
  BY <1>2 DEF DialFollowsTicks
<1>. QED BY <1>1, <1>3

LEMMA AcceptDial ==
  ASSUME PanelAssumption, Shapes, InHand, DialFollowsTicks, Accept
  PROVE  InHand' /\ DialFollowsTicks'
<1>. DEFINE k == Knob
            d == Decode(enc[k], poll.code)
            n == IF enc[k].first THEN 0 ELSE d.result
<1>1. /\ ticks' = [ticks EXCEPT ![k] = @ - n] /\ asked' = [asked EXCEPT ![k].given = @ - n]
      /\ UNCHANGED <<io, setting, active>>
  BY DEF Accept, radio, guard
<1>2. n \in Int
  <2>1. k \in Knobs /\ poll.code \in 0 .. 3
    BY DEF Accept, Shapes, Polled, Reading
  <2>2. enc[k] \in [prev_state : 0 .. 3, history : Int, first : BOOLEAN]
        /\ (enc[k].history \in - Speed .. Speed \/ enc[k].history = 5)
    BY <2>1 DEF Shapes, Encoders
  <2>. QED BY <2>1, <2>2, DecodeTypes
<1>. HIDE DEF k, n
<1>3. /\ asked'["tuning"].base = asked["tuning"].base
      /\ asked'["tuning"].disturbed = asked["tuning"].disturbed
      /\ asked'["tuning"].given - ticks'["tuning"] = asked["tuning"].given - ticks["tuning"]
  BY <1>1, <1>2, DialTypes DEF Shapes, Counts
<1>4. InHand'
  BY <1>1, <1>3 DEF InHand
<1>5. Dial("tuning")' = Dial("tuning")
  BY <1>1 DEF Dial
<1>6. DialFollowsTicks'
  BY <1>3, <1>5 DEF DialFollowsTicks
<1>. QED BY <1>4, <1>6

(* The accounts agree when they start again.                               *)
LEMMA RebasedFollows ==
  ASSUME PanelAssumption, Shapes, NEW v \in Int, asked'["tuning"] = Rebased("tuning", v),
         ticks' = ticks, Dial("tuning")' = v
  PROVE  DialFollowsTicks'
<1>1. asked'["tuning"].base = v /\ asked'["tuning"].given = ticks["tuning"]
  BY DEF Rebased
<1>2. ticks["tuning"] - ticks["tuning"] = 0 /\ Step * 0 = 0 /\ v - 0 = v
  BY DialTypes
<1>3. asked'["tuning"].given - ticks'["tuning"] = 0
  BY <1>1, <1>2
<1>. QED BY <1>1, <1>2, <1>3 DEF DialFollowsTicks

LEMMA TopDial ==
  ASSUME PanelAssumption, Shapes, InHand, DialFollowsTicks, Top
  PROVE  InHand' /\ DialFollowsTicks'
<1>1. /\ io.pc = "idle" /\ io' = [io EXCEPT !.pc = "key", !.value = setting[active]]
      /\ asked' = [k \in Knobs |-> IF asked[k].disturbed THEN Rebased(k, setting[active][k])
                                    ELSE asked[k]]
      /\ UNCHANGED <<ticks, setting, active>>
  BY DEF Top, radio, guard
<1>2. io'.pc = "key" /\ io'.value = setting[active]
  BY <1>1 DEF Shapes, Io
<1>3. Dial("tuning") = setting[active]["tuning"] /\ Dial("tuning")' = setting[active]["tuning"]
  BY <1>1, <1>2 DEF Dial
<1>4. InHand'
  BY <1>1, <1>2 DEF InHand
<1>5. CASE asked["tuning"].disturbed
  <2>1. asked'["tuning"] = Rebased("tuning", setting[active]["tuning"])
    BY <1>1, <1>5, DialTypes
  <2>. QED BY <1>1, <1>3, <1>4, <2>1, DialTypes, RebasedFollows
<1>6. CASE ~ asked["tuning"].disturbed
  <2>1. asked'["tuning"] = asked["tuning"]
    BY <1>1, <1>6, DialTypes
  <2>. QED BY <1>1, <1>3, <1>4, <2>1 DEF DialFollowsTicks
<1>. QED BY <1>5, <1>6

(* Ticks that are dropped or multiplied are dropped or multiplied in both. *)
LEMMA TicksDial ==
  ASSUME PanelAssumption, Shapes, InHand, DialFollowsTicks, TicksIgnored \/ StartCounting
  PROVE  InHand' /\ DialFollowsTicks'
<1>1. io.knob \in Knobs /\ ticks[io.knob] \in Int /\ asked[io.knob].given \in Int
  BY DEF Shapes, Io, Counts
<1>2. PICK n \in Int :
        /\ ticks' = [ticks EXCEPT ![io.knob] = n]
        /\ asked' = [asked EXCEPT ![io.knob].given = @ + n - ticks[io.knob]]
  <2>1. CASE TicksIgnored
    <3>1. asked[io.knob].given - ticks[io.knob] = asked[io.knob].given + 0 - ticks[io.knob]
      BY <1>1
    <3>. DEFINE n == 0
    <3>2. /\ ticks' = [ticks EXCEPT ![io.knob] = n]
          /\ asked' = [asked EXCEPT ![io.knob].given = @ + n - ticks[io.knob]]
      BY <2>1, <3>1 DEF TicksIgnored
    <3>3. n \in Int
      OBVIOUS
    <3>. HIDE DEF n
    <3>. QED BY <3>2, <3>3
  <2>2. CASE StartCounting
    <3>. DEFINE n == IF Abs(ticks[io.knob]) > Fast THEN SpeedUp(io.knob) * ticks[io.knob]
                     ELSE ticks[io.knob]
    <3>1. n \in Int
      BY <1>1 DEF SpeedUp
    <3>2. /\ ticks' = [ticks EXCEPT ![io.knob] = n]
          /\ asked' = [asked EXCEPT ![io.knob].given = @ + n - ticks[io.knob]]
      BY <2>2 DEF StartCounting
    <3>. HIDE DEF n
    <3>. QED BY <3>1, <3>2
  <2>. QED BY <2>1, <2>2
<1>3. /\ asked'["tuning"].base = asked["tuning"].base
      /\ asked'["tuning"].disturbed = asked["tuning"].disturbed
      /\ asked'["tuning"].given - ticks'["tuning"] = asked["tuning"].given - ticks["tuning"]
  BY <1>1, <1>2, DialTypes DEF Shapes, Counts
<1>4. io.pc = "test" /\ UNCHANGED <<setting, active>> /\ io'.value = io.value
  BY DEF TicksIgnored, StartCounting, Done, Goto, radio, guard, Shapes, Io
<1>5. io'.pc \in {"test", "power", "down"} /\ (io'.pc = "test" => io'.knob = "volume")
      /\ (io'.pc = "down" => io'.knob = io.knob)
  BY <1>1 DEF TicksIgnored, StartCounting, Done, Goto, Shapes, Io, Knobs
<1>6. InHand'
  BY <1>5 DEF InHand
<1>7. ~ asked["tuning"].disturbed => Dial("tuning")' = Dial("tuning")
  BY <1>4, <1>5 DEF Dial, InHand
<1>8. DialFollowsTicks'
  BY <1>3, <1>7 DEF DialFollowsTicks
<1>. QED BY <1>6, <1>8

(* A round of a loop takes a tick for a step.                              *)
LEMMA TakeDial ==
  ASSUME PanelAssumption, Shapes, InHand, DialFollowsTicks, TakeDown \/ TakeUp
  PROVE  InHand' /\ DialFollowsTicks'
<1>1. io.pc \in {"takeDown", "takeUp"} /\ io'.pc \in {"down", "up"} /\ io'.knob = io.knob
      /\ UNCHANGED <<asked, setting, active>>
  BY DEF TakeDown, TakeUp, radio, guard, Shapes, Io
<1>2. InHand'
  BY <1>1 DEF InHand
<1>3. CASE io.knob # "tuning"
  <2>1. ticks'["tuning"] = ticks["tuning"]
    BY <1>3, DialTypes DEF TakeDown, TakeUp
  <2>2. Dial("tuning")' = Dial("tuning")
    BY <1>1, <1>3 DEF Dial
  <2>. QED BY <1>1, <1>2, <2>1, <2>2 DEF DialFollowsTicks
<1>4. CASE io.knob = "tuning"
  <2>1. \/ ticks'["tuning"] = ticks["tuning"] - 1 /\ io'.value["tuning"] = io.value["tuning"] - Step
        \/ ticks'["tuning"] = ticks["tuning"] + 1 /\ io'.value["tuning"] = io.value["tuning"] + Step
    <3>1. io.value \in Values /\ ticks \in [Knobs -> Int]
      BY DEF Shapes, Io, Counts
    <3>2. CASE TakeDown
      <4>1. ticks' = [ticks EXCEPT !["tuning"] = @ - 1]
            /\ io' = [io EXCEPT !.pc = "down", !.value["tuning"] = io.value["tuning"] - Step]
        BY <1>4, <3>2 DEF TakeDown, Lower
      <4>2. io'.value = [io.value EXCEPT !["tuning"] = io.value["tuning"] - Step]
        BY <4>1 DEF Shapes, Io
      <4>. QED BY <3>1, <4>1, <4>2, DialTypes DEF Values
    <3>3. CASE TakeUp
      <4>1. ticks' = [ticks EXCEPT !["tuning"] = @ + 1]
            /\ io' = [io EXCEPT !.pc = "up", !.value["tuning"] = io.value["tuning"] + Step]
        BY <1>4, <3>3 DEF TakeUp, Higher
      <4>2. io'.value = [io.value EXCEPT !["tuning"] = io.value["tuning"] + Step]
        BY <4>1 DEF Shapes, Io
      <4>. QED BY <3>1, <4>1, <4>2, DialTypes DEF Values
    <3>. QED BY <3>2, <3>3
  <2>2. Dial("tuning") = io.value["tuning"] /\ Dial("tuning")' = io'.value["tuning"]
    BY <1>1, <1>4 DEF Dial
  <2>. SUFFICES ASSUME ~ asked["tuning"].disturbed
                PROVE  Dial("tuning")'
                         = asked["tuning"].base - Step * (asked["tuning"].given - ticks'["tuning"])
    BY <1>1, <1>2 DEF DialFollowsTicks
  <2>. DEFINE b == asked["tuning"].base
              g == asked["tuning"].given
              t == ticks["tuning"]
  <2>3. Dial("tuning") = b - Step * (g - t) /\ b \in Int /\ g \in Int /\ t \in Int /\ Step \in Int
    BY DialTypes DEF DialFollowsTicks
  <2>. HIDE DEF b, g, t
  <2>4. /\ Step * (g - (t - 1)) = Step * (g - t) + Step
        /\ Step * (g - (t + 1)) = Step * (g - t) - Step
        /\ Step * (g - t) \in Int
    BY <2>3
  <2>5. /\ b - Step * (g - t) - Step = b - Step * (g - (t - 1))
        /\ b - Step * (g - t) + Step = b - Step * (g - (t + 1))
    BY <2>3, <2>4
  <2>. QED BY <2>1, <2>2, <2>3, <2>5 DEF b, g, t
<1>. QED BY <1>3, <1>4

LEMMA StoreDial ==
  ASSUME PanelAssumption, Shapes, InHand, DialFollowsTicks, StoreValue
  PROVE  InHand' /\ DialFollowsTicks'
<1>. DEFINE k == io.knob
            v == io.value[k]
            kept == IF Takes(k, v) THEN v ELSE setting[active][k]
<1>1. /\ io.pc = "store"
      /\ setting' = [setting EXCEPT ![active][k] = kept]
      /\ asked' = IF Takes(k, v) THEN asked ELSE [asked EXCEPT ![k] = Rebased(k, kept)]
      /\ UNCHANGED <<active, ticks>>
  BY DEF StoreValue
<1>2. io'.pc \in {"test", "power"} /\ (io'.pc = "test" => io'.knob = "volume")
  BY DEF StoreValue, Done, Shapes, Io, Knobs
<1>3. InHand'
  BY <1>2 DEF InHand
<1>4. Dial("tuning")' = setting'[active]["tuning"]
  BY <1>1, <1>2 DEF Dial
<1>5. CASE k # "tuning"
  <2>1. setting'[active]["tuning"] = setting[active]["tuning"]
        /\ asked'["tuning"] = asked["tuning"]
    BY <1>1, <1>5, DialTypes DEF Shapes, Radio, Settings
  <2>2. Dial("tuning") = setting[active]["tuning"]
    BY <1>5 DEF Dial
  <2>. QED BY <1>1, <1>3, <1>4, <2>1, <2>2 DEF DialFollowsTicks
<1>6. CASE k = "tuning"
  <2>1. setting'[active]["tuning"] = kept
    <3>1. setting \in [Profiles -> Settings] /\ active \in Profiles /\ setting[active] \in Settings
      BY DEF Shapes, Radio
    <3>2. [setting[active] EXCEPT !["tuning"] = kept]["tuning"] = kept
      BY <3>1 DEF Settings
    <3>. QED BY <1>1, <1>6, <3>1, <3>2
  <2>2. CASE Takes(k, v)
    <3>1. kept = io.value["tuning"] /\ Dial("tuning") = io.value["tuning"] /\ asked' = asked
      BY <1>1, <1>6, <2>2 DEF Dial
    <3>. QED BY <1>1, <1>3, <1>4, <2>1, <3>1 DEF DialFollowsTicks
  <2>3. CASE ~ Takes(k, v)
    <3>1. asked'["tuning"] = Rebased("tuning", kept) /\ kept \in Int
      BY <1>1, <1>6, <2>3, DialTypes
    <3>2. ticks' = ticks /\ Dial("tuning")' = kept
      BY <1>1, <1>4, <2>1
    <3>. QED BY <1>3, <3>1, <3>2, RebasedFollows
  <2>. QED BY <2>2, <2>3
<1>. QED BY <1>5, <1>6

(* A client, or the stop watch, makes another frequency the one in effect. *)
LEMMA NothingHeld ==
  ASSUME Shapes, ~ Holds("tuning")
  PROVE  ~ Reads /\ ~ InLoop
<1>1. io.pc \in Places /\ io.knob \in Knobs
  BY DEF Shapes, Io
<1>. QED BY <1>1 DEF Holds, Reads, InLoop, Places, Loop

LEMMA DisturbedDial ==
  ASSUME PanelAssumption, Shapes, InHand, DialFollowsTicks, NEW v \in Int,
         asked'["tuning"] = Disturbed("tuning", v), ticks' = ticks,
         setting'[active']["tuning"] = v,
         ~ Holds("tuning") => ~ Reads' /\ ~ InLoop'
  PROVE  InHand' /\ DialFollowsTicks'
<1>1. CASE Holds("tuning")
  <2>1. asked'["tuning"].disturbed
    BY <1>1, DialTypes DEF Disturbed, Shapes, Counts
  <2>. QED BY <2>1 DEF InHand, DialFollowsTicks
<1>2. CASE ~ Holds("tuning")
  <2>3. ~ Reads' /\ ~ InLoop'
    BY <1>2
  <2>4. InHand' /\ Dial("tuning")' = v
    BY <2>3 DEF InHand, Reads, InLoop, Loop, Dial
  <2>5. asked'["tuning"] = Rebased("tuning", v)
    BY <1>2 DEF Disturbed
  <2>. QED BY <2>4, <2>5, RebasedFollows
<1>. QED BY <1>1, <1>2

LEMMA CommandDial ==
  ASSUME PanelAssumption, Shapes, InHand, DialFollowsTicks, Command
  PROVE  InHand' /\ DialFollowsTicks'
<1>1. \/ CommandPtt \/ CommandResetProtection
      \/ \E p \in Profiles : \/ CommandSetProfile(p)
                            \/ \E k \in Knobs, v \in Freqs \cup Volumes : CommandSet(k, p, v)
  BY DialTypes DEF Command
<1>4. CASE CommandPtt \/ CommandResetProtection
  BY <1>4, DialKept DEF CommandPtt, CommandResetProtection, InLoop, Reads
<1>2. ASSUME NEW p \in Profiles, CommandSetProfile(p)
      PROVE  InHand' /\ DialFollowsTicks'
  <2>1. /\ asked'["tuning"] = Disturbed("tuning", setting[p]["tuning"]) /\ ticks' = ticks
        /\ setting' = setting /\ active' = p /\ io' = io
    BY <1>2, DialTypes DEF CommandSetProfile, Activate
  <2>2. setting[p]["tuning"] \in Int
    BY SettingTypes, DialTypes DEF Shapes
  <2>. DEFINE w == setting[p]["tuning"]
  <2>3. w \in Int /\ asked'["tuning"] = Disturbed("tuning", w) /\ setting'[active']["tuning"] = w
    BY <2>1, <2>2
  <2>4. ticks' = ticks /\ (~ Holds("tuning") => ~ Reads' /\ ~ InLoop')
    BY <2>1, NothingHeld DEF Reads, InLoop
  <2>. HIDE DEF w
  <2>. QED BY <2>3, <2>4, DisturbedDial
<1>3. ASSUME NEW p \in Profiles, NEW k \in Knobs, NEW v \in Freqs \cup Volumes,
             CommandSet(k, p, v)
      PROVE  InHand' /\ DialFollowsTicks'
  <2>1. /\ setting' = [setting EXCEPT ![p][k] = v]
        /\ asked' = IF p = active THEN [asked EXCEPT ![k] = Disturbed(k, v)] ELSE asked
        /\ UNCHANGED <<io, ticks, active>>
    BY <1>3 DEF CommandSet
  <2>2. setting \in [Profiles -> Settings] /\ setting[p] \in Settings /\ active \in Profiles
    BY DEF Shapes, Radio
  <2>3. CASE p = active /\ k = "tuning"
    <3>1. setting'[active']["tuning"] = v
      <4>1. [setting[p] EXCEPT !["tuning"] = v]["tuning"] = v
        BY <2>2 DEF Settings
      <4>. QED BY <2>1, <2>2, <2>3, <4>1
    <3>2. asked'["tuning"] = Disturbed("tuning", v)
      BY <2>1, <2>3, DialTypes
    <3>3. v \in Int
      BY DEF PanelAssumption
    <3>4. ticks' = ticks /\ (~ Holds("tuning") => ~ Reads' /\ ~ InLoop')
      BY <2>1, NothingHeld DEF Reads, InLoop
    <3>. QED BY <3>4, <3>1, <3>2, <3>3, DisturbedDial
  <2>4. CASE ~ (p = active /\ k = "tuning")
    <3>1. setting'[active]["tuning"] = setting[active]["tuning"]
      BY <2>1, <2>2, <2>4 DEF Settings
    <3>2. asked'["tuning"] = asked["tuning"]
      BY <2>1, <2>4
    <3>3. InHand'
      BY <2>1, <3>1, <3>2 DEF InHand
    <3>4. Dial("tuning")' = Dial("tuning")
      BY <2>1, <3>1 DEF Dial
    <3>. QED BY <2>1, <3>2, <3>3, <3>4 DEF DialFollowsTicks
  <2>. QED BY <2>3, <2>4
<1>. QED BY <1>1, <1>2, <1>3, <1>4

LEMMA DialStep ==
  ASSUME PanelAssumption, Shapes, InHand, DialFollowsTicks, [Next]_vars
  PROVE  InHand' /\ DialFollowsTicks'
<1>1. CASE \/ UNCHANGED vars \/ PressOrRelease \/ (\E k \in Knobs, d \in {1, -1} : Turn(k, d))
           \/ (Poller /\ ~ Accept)
  <2>1. UNCHANGED <<asked, ticks, setting, active, io>>
    BY <1>1 DEF vars, PressOrRelease, Turn, Poller, PollLevel, PttChange, ReadA, ReadNewState,
                Rejected, radio, guard
  <2>. QED BY <2>1, DialKept DEF InLoop, Reads
<1>2. CASE Accept
  BY <1>2, AcceptDial
<1>3. CASE Top
  BY <1>3, TopDial
<1>4. CASE \/ KeySame \/ KeyIgnored \/ KeyChanged \/ Switch \/ Remember
           \/ PowerTrips \/ Protect \/ WatchStopped \/ WatchReset
  <2>1. UNCHANGED <<asked, ticks, setting, active>>
    BY <1>4 DEF KeySame, KeyIgnored, KeyChanged, Switch, Remember, PowerTrips, Protect,
                WatchStopped, WatchReset, radio, guard
  <2>2. /\ io'.value = io.value /\ io'.knob = io.knob /\ io.knob = "tuning"
        /\ io.pc \in {"key", "switch", "remember", "power", "protect", "watch"}
        /\ io'.pc \in {"switch", "remember", "test", "protect", "watch", "idle"}
        /\ (io.pc \in {"power", "protect", "watch"} => io'.pc \in {"protect", "watch", "idle"})
    BY <1>4 DEF KeySame, KeyIgnored, KeyChanged, Switch, Remember, PowerTrips, Protect,
                WatchStopped, WatchReset, Goto,
                Shapes, Io
  <2>3. (InLoop' <=> InLoop) /\ (Reads' => Reads)
    BY <2>2 DEF InLoop, Reads, Loop
  <2>. QED BY <2>1, <2>2, <2>3, DialKept
<1>5. CASE NoTicks \/ TestDown \/ TestUp
  <2>1. UNCHANGED <<asked, ticks, setting, active>>
    BY <1>5 DEF NoTicks, TestDown, TestUp, radio, guard
  <2>2. io'.value = io.value /\ (InLoop' <=> InLoop) /\ ~ Reads'
    <3>1. CASE NoTicks
      <4>1. io.pc = "test" /\ io'.value = io.value /\ io'.pc \in {"test", "power"}
            /\ (io'.pc = "test" => io'.knob = "volume")
        BY <3>1 DEF NoTicks, Done, Shapes, Io, Knobs
      <4>. QED BY <4>1 DEF InLoop, Reads, Loop
    <3>2. CASE TestDown \/ TestUp
      <4>1. io.pc \in Loop /\ io'.pc \in Loop /\ io'.value = io.value /\ io'.knob = io.knob
        BY <3>2 DEF TestDown, TestUp, Goto, Shapes, Io, Loop
      <4>. QED BY <4>1 DEF InLoop, Reads, Loop
    <3>. QED BY <1>5, <3>1, <3>2
  <2>. QED BY <2>1, <2>2, DialKept
<1>6. CASE TicksIgnored \/ StartCounting
  BY <1>6, TicksDial
<1>7. CASE TakeDown \/ TakeUp
  BY <1>7, TakeDial
<1>8. CASE StoreValue
  BY <1>8, StoreDial
<1>9. CASE WatchExpired
  <2>1. /\ asked'["tuning"] = Disturbed("tuning", setting[DefaultProfile]["tuning"])
        /\ ticks' = ticks /\ setting' = setting /\ active' = DefaultProfile
        /\ io.pc \in {"power", "watch"} /\ io'.pc = "idle"
    BY <1>9, DialTypes DEF WatchExpired, Activate, Goto, Shapes, Io
  <2>2. setting[DefaultProfile]["tuning"] \in Int
    BY SettingTypes, DialTypes DEF Shapes, PanelAssumption
  <2>3. ~ Reads' /\ ~ InLoop'
    BY <2>1 DEF Reads, InLoop, Loop
  <2>. QED BY <2>1, <2>2, <2>3, DisturbedDial
<1>10. CASE Command
  BY <1>10, CommandDial
<1>. QED BY <1>1, <1>2, <1>3, <1>4, <1>5, <1>6, <1>7, <1>8, <1>9, <1>10 DEF Next, IoTick

-----------------------------------------------------------------------------
(* The encoders.                                                           *)
LEMMA Neighbours ==
  ASSUME NEW p \in Int, NEW q \in p - 1 .. p + 2
  PROVE  /\ Code(q) = Code(p) => q = p
         /\ q = p - 1 \/ q = p + 1 => Turned(Code(p), Code(q)) = q - p
<1>1. CASE p % 4 = 0
  <2>1. (p - 1) % 4 = 3 /\ (p + 1) % 4 = 1 /\ (p + 2) % 4 = 2
    BY <1>1
  <2>2. Code(p) = 0 /\ Code(p - 1) = 2 /\ Code(p + 1) = 1 /\ Code(p + 2) = 3
    BY <1>1, <2>1 DEF Code
  <2>. QED BY <2>2 DEF Turned, Clockwise
<1>2. CASE p % 4 = 1
  <2>1. (p - 1) % 4 = 0 /\ (p + 1) % 4 = 2 /\ (p + 2) % 4 = 3
    BY <1>2
  <2>2. Code(p) = 1 /\ Code(p - 1) = 0 /\ Code(p + 1) = 3 /\ Code(p + 2) = 2
    BY <1>2, <2>1 DEF Code
  <2>. QED BY <2>2 DEF Turned, Clockwise
<1>3. CASE p % 4 = 2
  <2>1. (p - 1) % 4 = 1 /\ (p + 1) % 4 = 3 /\ (p + 2) % 4 = 0
    BY <1>3
  <2>2. Code(p) = 3 /\ Code(p - 1) = 1 /\ Code(p + 1) = 2 /\ Code(p + 2) = 0
    BY <1>3, <2>1 DEF Code
  <2>. QED BY <2>2 DEF Turned, Clockwise
<1>4. CASE p % 4 = 3
  <2>1. (p - 1) % 4 = 2 /\ (p + 1) % 4 = 0 /\ (p + 2) % 4 = 1
    BY <1>4
  <2>2. Code(p) = 2 /\ Code(p - 1) = 3 /\ Code(p + 1) = 0 /\ Code(p + 2) = 1
    BY <1>4, <2>1 DEF Code
  <2>. QED BY <2>2 DEF Turned, Clockwise
<1>5. p % 4 \in 0 .. 3
  OBVIOUS
<1>. QED BY <1>1, <1>2, <1>3, <1>4, <1>5

LEMMA KnobLevels ==
  ASSUME NEW k \in Knobs, NEW p \in Int, pos[k] = p
  PROVE  Level(<<k, 1>>) + 2 * Level(<<k, 2>>) = Code(p)
<1>1. Level(<<k, 1>>) = Code(p) % 2 /\ Level(<<k, 2>>) = Code(p) \div 2
  BY DEF Level, Knobs
<1>2. \A c \in 0 .. 3 : (c % 2) + 2 * (c \div 2) = c
  OBVIOUS
<1>. QED BY <1>1, <1>2, CodeTypes

(* The history and the results stay on the account of the positions.       *)
LEMMA DecodeCounts ==
  ASSUME NEW e, e.history \in - Speed .. Speed, NEW code, Turned(e.prev_state, code) \in -1 .. 1
  PROVE  (Speed + 1) * Decode(e, code).result + Decode(e, code).history
           = e.history + Turned(e.prev_state, code)
BY DEF Decode, Speed

(* A knob and its encoder, and the thread when it is not at the knob.      *)
LEMMA TrackedKept ==
  ASSUME NEW k \in Knobs, Serving(k), Accounted(k), pos'[k] = pos[k],
         enc'[k].prev_state = enc[k].prev_state, enc'[k].history = enc[k].history,
         seen'[k] = seen[k], (poll' = poll /\ levels' = levels) \/ poll'.pc = "level"
  PROVE  Serving(k)' /\ Accounted(k)'
<1>1. Accounted(k)'
  BY DEF Accounted
<1>2. CASE poll'.pc = "level"
  BY <1>1, <1>2 DEF Serving
<1>3. CASE poll' = poll /\ levels' = levels
  <2>1. Knob' = Knob /\ Pin' = Pin
    BY <1>3 DEF Knob, Pin
  <2>2. Knob = k => Level(Pin)' = Level(Pin)
    BY <2>1 DEF Level, Knob, Knobs
  <2>3. Level(<<k, 1>>)' = Level(<<k, 1>>)
    BY DEF Level, Knobs
  <2>. QED BY <1>1, <1>3, <2>1, <2>2, <2>3 DEF Serving
<1>. QED BY <1>2, <1>3

LEMMA TurnTracks ==
  ASSUME Shapes, Tracked, NEW k \in Knobs, NEW d \in {1, -1}, Turn(k, d)
  PROVE  Tracked'
<1>1. /\ pos' = [pos EXCEPT ![k] = @ + d] /\ UNCHANGED <<levels, enc, poll>>
      /\ seen' = [seen EXCEPT ![k].hasty = @ \/ ~ Noticed(k)]
  BY DEF Turn
<1>2. ASSUME NEW j \in Knobs, j # k, ~ seen'[j].hasty PROVE Serving(j)' /\ Accounted(j)'
  BY <1>1, <1>2, TrackedKept DEF Shapes, Hands, Encoders, Tracked
<1>3. ASSUME ~ seen'[k].hasty PROVE Serving(k)' /\ Accounted(k)'
  <2>1. ~ seen[k].hasty /\ Noticed(k)
    BY <1>1, <1>3 DEF Shapes, Encoders
  <2>2. seen'[k].accepted = seen[k].accepted /\ seen'[k].pos = seen[k].pos
        /\ seen'[k].results = seen[k].results /\ seen'[k].origin = seen[k].origin
    BY <1>1 DEF Shapes, Encoders
  <2>3. Serving(k) /\ Accounted(k)
    BY <2>1 DEF Tracked
  <2>4. poll.at \in 1 .. 5 /\ DOMAIN PollOrder = 1 .. 5
    BY PinTypes, ShapesTypes, PinLevel DEF PollOrder
  <2>5. ~ (Knob = k /\ poll.pc # "level")
    <3>1. Knob = k => levels[poll.at] = Level(Pin)
      BY <2>1, <2>4 DEF Noticed, Remembered, Knob, Pin
    <3>. QED BY <2>3, <3>1 DEF Serving
  <2>6. Serving(k)'
    BY <1>1, <2>5 DEF Serving, Knob, Pin
  <2>7. ASSUME seen[k].accepted
        PROVE  pos[k] = seen[k].pos /\ pos'[k] - seen'[k].pos \in -1 .. 1
    <3>1. pos[k] \in Int /\ seen[k].pos \in Int /\ pos'[k] = pos[k] + d
      BY <1>1 DEF Shapes, Hands, Encoders
    <3>2. pos[k] - seen[k].pos \in -1 .. 1 /\ Code(pos[k]) = Code(seen[k].pos)
      BY <2>1, <2>3, <2>7 DEF Accounted, Noticed
    <3>3. pos[k] \in seen[k].pos - 1 .. seen[k].pos + 2
      BY <3>1, <3>2
    <3>4. pos[k] = seen[k].pos
      BY <3>1, <3>2, <3>3, Neighbours
    <3>. QED BY <2>2, <3>1, <3>4
  <2>8. Accounted(k)'
    BY <1>1, <2>2, <2>3, <2>7 DEF Accounted
  <2>. QED BY <2>6, <2>8
<1>. QED BY <1>2, <1>3 DEF Tracked

LEMMA AcceptTracks ==
  ASSUME Shapes, Tracked, Accept, NEW k, k = Knob
  PROVE  Tracked'
<1>. DEFINE d == Decode(enc[k], poll.code)
            q == Nearest(poll.code, pos[k])
<1>1. k \in Knobs /\ poll.pc = "secondB" /\ Accepted /\ poll.code \in 0 .. 3
  BY DEF Accept, Shapes, Polled, Reading
<1>2. /\ \E f : enc' = [enc EXCEPT ![k] = [prev_state |-> poll.code, history |-> d.history,
                                          first |-> f]]
      /\ seen' = [seen EXCEPT ![k] =
           [pos |-> q, origin |-> IF @.accepted THEN @.origin ELSE q, accepted |-> TRUE,
            results |-> IF @.accepted THEN @.results + d.result ELSE 0, hasty |-> @.hasty]]
      /\ pos' = pos /\ poll' = NextPin
  BY DEF Accept, Served, contacts
<1>3. poll'.pc = "level"
  BY <1>2, PinLevel, ShapesTypes
<1>4. /\ pos[k] \in Int /\ seen[k].pos \in Int /\ seen[k].origin \in Int /\ seen[k].results \in Int
      /\ enc[k] \in [prev_state : 0 .. 3, history : Int, first : BOOLEAN]
      /\ IF seen[k].accepted THEN enc[k].history \in - Speed .. Speed ELSE enc[k].history = 5
  BY <1>1 DEF Shapes, Hands, Encoders
<1>5. d.result \in -1 .. 1 /\ d.history \in - Speed .. Speed
  BY <1>1, <1>4, DecodeTypes
<1>. HIDE DEF d, q
<1>6. ASSUME NEW j \in Knobs, j # k, ~ seen'[j].hasty PROVE Serving(j)' /\ Accounted(j)'
  <2>1. seen'[j] = seen[j] /\ enc'[j] = enc[j]
    BY <1>1, <1>2, <1>6 DEF Shapes, Encoders
  <2>. QED BY <1>2, <1>3, <1>6, <2>1, TrackedKept DEF Tracked
<1>7. ASSUME ~ seen'[k].hasty PROVE Serving(k)' /\ Accounted(k)'
  <2>1. /\ enc'[k].prev_state = poll.code /\ enc'[k].history = d.history
        /\ seen'[k].pos = q /\ seen'[k].hasty = seen[k].hasty
        /\ seen'[k].origin = (IF seen[k].accepted THEN seen[k].origin ELSE q)
        /\ seen'[k].results = (IF seen[k].accepted THEN seen[k].results + d.result ELSE 0)
    BY <1>1, <1>2 DEF Shapes, Encoders
  <2>2. Serving(k) /\ Accounted(k)
    BY <1>1, <1>7, <2>1 DEF Tracked
  <2>3. poll.code = Code(pos[k]) /\ poll.code # enc[k].prev_state
    BY <1>1, <2>2 DEF Serving, Accepted
  <2>4. q = pos[k]
    <3>1. q \in pos[k] - 1 .. pos[k] + 2 /\ Code(q) = poll.code
      BY <1>1, <1>4, NearestIs DEF q
    <3>. QED BY <1>4, <2>3, <3>1, Neighbours
  <2>5. Serving(k)'
    BY <1>3, <1>2 DEF Serving
  <2>6. pos'[k] = pos[k] /\ pos[k] - pos[k] \in -1 .. 1
    BY <1>2, <1>4
  <2>7. CASE seen[k].accepted
    <3>1. enc[k].prev_state = Code(seen[k].pos) /\ pos[k] - seen[k].pos \in -1 .. 1
          /\ (Speed + 1) * seen[k].results + enc[k].history = seen[k].pos - seen[k].origin
      BY <2>2, <2>7 DEF Accounted
    <3>2. pos[k] = seen[k].pos - 1 \/ pos[k] = seen[k].pos + 1
      BY <1>4, <2>3, <3>1
    <3>3. Turned(enc[k].prev_state, poll.code) = pos[k] - seen[k].pos
      <4>1. pos[k] \in seen[k].pos - 1 .. seen[k].pos + 2
        BY <1>4, <3>2
      <4>. QED BY <1>4, <2>3, <3>1, <3>2, <4>1, Neighbours
    <3>4. (Speed + 1) * d.result + d.history = enc[k].history + (pos[k] - seen[k].pos)
      BY <1>4, <2>7, <3>1, <3>3, DecodeCounts DEF d
    <3>5. (Speed + 1) * (seen[k].results + d.result) + d.history = pos[k] - seen[k].origin
      <4>1. 2 * seen[k].results + enc[k].history = seen[k].pos - seen[k].origin
            /\ 2 * d.result + d.history = enc[k].history + (pos[k] - seen[k].pos)
        BY <3>1, <3>4 DEF Speed
      <4>2. d.result \in Int /\ d.history \in Int /\ enc[k].history \in Int
        BY <1>4, <1>5 DEF Speed
      <4>3. ASSUME NEW r \in Int, NEW x \in Int, NEW h \in Int, NEW g \in Int,
                   NEW p \in Int, NEW u \in Int, NEW o \in Int,
                   2 * r + h = u - o, 2 * x + g = h + (p - u)
            PROVE  2 * (r + x) + g = p - o
        BY <4>3
      <4>. DEFINE r == seen[k].results
                   x == d.result
                   h == enc[k].history
                   g == d.history
                   p == pos[k]
                   u == seen[k].pos
                   o == seen[k].origin
      <4>5. /\ r \in Int /\ x \in Int /\ h \in Int /\ g \in Int /\ p \in Int /\ u \in Int
            /\ o \in Int /\ 2 * r + h = u - o /\ 2 * x + g = h + (p - u)
        BY <1>4, <4>1, <4>2
      <4>6. 2 * (r + x) + g = p - o
        <5>. HIDE DEF r, x, h, g, p, u, o
        <5>. QED BY <4>3, <4>5
      <4>. QED BY <4>6 DEF Speed
    <3>6. seen'[k].origin = seen[k].origin /\ seen'[k].results = seen[k].results + d.result
      BY <2>1, <2>7
    <3>7. Accounted(k)'
      BY <2>1, <2>3, <2>4, <2>6, <3>5, <3>6 DEF Accounted
    <3>. QED BY <2>5, <3>7
  <2>8. CASE ~ seen[k].accepted
    <3>1. d.history = 0
      <4>1. Turned(enc[k].prev_state, poll.code) \in -1 .. 1
        BY DEF Turned
      <4>. QED BY <1>4, <2>8, <4>1 DEF d, Decode, Speed
    <3>2. seen'[k].origin = q /\ seen'[k].results = 0
      BY <2>1, <2>8
    <3>3. (Speed + 1) * 0 + 0 = q - q
      BY <1>4, <2>4 DEF Speed
    <3>4. Accounted(k)'
      BY <2>1, <2>3, <2>4, <2>6, <3>1, <3>2, <3>3 DEF Accounted
    <3>. QED BY <2>5, <3>4
  <2>. QED BY <2>7, <2>8
<1>. QED BY <1>6, <1>7 DEF Tracked

(* A pin that is to be served has changed, and stays as it was read.       *)
LEMMA ReadTracks ==
  ASSUME Shapes, Tracked, UNCHANGED <<contacts, levels, enc, seen>>,
         poll'.at = poll.at, NEW k, k = Knob,
         k \in Knobs /\ Serving(k) => Serving(k)'
  PROVE  Tracked'
<1>1. pos' = pos /\ levels' = levels /\ enc' = enc /\ seen' = seen
  BY DEF contacts
<1>2. ASSUME NEW j \in Knobs, ~ seen'[j].hasty PROVE Serving(j)' /\ Accounted(j)'
  <2>1. Serving(j) /\ Accounted(j)
    BY <1>1, <1>2 DEF Tracked
  <2>2. Accounted(j)'
    BY <1>1, <2>1 DEF Accounted
  <2>3. Knob' = Knob
    BY DEF Knob, Pin
  <2>4. CASE j # k
    BY <2>2, <2>3, <2>4 DEF Serving
  <2>5. CASE j = k
    BY <2>1, <2>2, <2>5
  <2>. QED BY <2>4, <2>5
<1>. QED BY <1>2 DEF Tracked

LEMMA PollTracks ==
  ASSUME Shapes, Tracked, PollLevel
  PROVE  Tracked'
<1>. PICK k : k = Knob
  OBVIOUS
<1>1. UNCHANGED <<contacts, levels, enc, seen>>
  BY DEF PollLevel
<1>2. Level(Pin) \in 0 .. 1 /\ NextPin.pc = "level" /\ poll.pc = "level"
  BY ShapesTypes, PinLevel DEF PollLevel
<1>3. CASE poll' = NextPin
  <2>1. ASSUME NEW j \in Knobs, ~ seen'[j].hasty PROVE Serving(j)' /\ Accounted(j)'
    BY <1>1, <1>2, <1>3, <2>1, TrackedKept DEF Tracked, contacts
  <2>. QED BY <2>1 DEF Tracked
<1>4. CASE Level(Pin) # levels[poll.at]
           /\ poll' = [poll EXCEPT !.pc = "first", !.level = Level(Pin)]
  <2>1. /\ poll'.at = poll.at /\ poll'.pc = "first" /\ poll'.level = Level(Pin)
        /\ levels' = levels /\ pos' = pos /\ pressed' = pressed
    BY <1>1, <1>4 DEF Shapes, Polled, Reading, contacts
  <2>2. Pin' = Pin
    BY <2>1 DEF Pin
  <2>3. Level(Pin)' = Level(Pin)
    BY <2>1, <2>2 DEF Level
  <2>4. Serving(k)'
    BY <1>4, <2>1, <2>3 DEF Serving
  <2>. QED BY <1>1, <2>1, <2>4, ReadTracks
<1>. QED BY <1>3, <1>4 DEF PollLevel

LEMMA ReadATracks ==
  ASSUME Shapes, Tracked, NEW from, NEW to, ReadA(from, to),
         \/ from = "first" /\ to = "firstB"
         \/ from = "second" /\ to = "secondB"
  PROVE  Tracked'
<1>. PICK k : k = Knob
  OBVIOUS
<1>1. UNCHANGED <<contacts, levels, enc, seen>> /\ k \in Knobs /\ poll.pc = from
  BY DEF ReadA
<1>2. /\ poll'.at = poll.at /\ poll'.pc = to /\ poll'.level = poll.level
      /\ poll'.a = Level(<<k, 1>>) /\ poll'.code = poll.code
      /\ levels' = levels /\ pos' = pos /\ pressed' = pressed
  BY <1>1 DEF ReadA, Shapes, Polled, Reading, contacts
<1>3. Pin' = Pin
  BY <1>2 DEF Pin
<1>4. Level(Pin)' = Level(Pin) /\ Level(<<k, 1>>)' = Level(<<k, 1>>)
  BY <1>2, <1>3 DEF Level
<1>5. ASSUME Serving(k) PROVE Serving(k)'
  <2>1. poll.level = Level(Pin) /\ levels[poll.at] # poll.level
        /\ (to = "secondB" => poll.code = Code(pos[k]))
    BY <1>1, <1>5 DEF Serving
  <2>. QED BY <1>2, <1>4, <2>1 DEF Serving
<1>. QED BY <1>1, <1>2, <1>5, ReadTracks

LEMMA ReadNewStateTracks ==
  ASSUME Shapes, Tracked, ReadNewState
  PROVE  Tracked'
<1>. PICK k : k = Knob
  OBVIOUS
<1>1. UNCHANGED <<contacts, levels, enc, seen>> /\ k \in Knobs /\ poll.pc = "firstB"
  BY DEF ReadNewState, Shapes, Polled
<1>2. /\ poll'.at = poll.at /\ poll'.pc = "second" /\ poll'.level = poll.level
      /\ poll'.code = poll.a + 2 * Level(<<k, 2>>)
      /\ levels' = levels /\ pos' = pos /\ pressed' = pressed
  BY <1>1 DEF ReadNewState, State, Shapes, Polled, Reading, contacts
<1>3. Pin' = Pin
  BY <1>2 DEF Pin
<1>4. Level(Pin)' = Level(Pin)
  BY <1>2, <1>3 DEF Level
<1>5. ASSUME Serving(k) PROVE Serving(k)'
  <2>1. poll.level = Level(Pin) /\ levels[poll.at] # poll.level /\ poll.a = Level(<<k, 1>>)
    BY <1>1, <1>5 DEF Serving
  <2>2. poll'.code = Code(pos[k])
    BY <1>1, <1>2, <2>1, KnobLevels DEF Shapes, Hands
  <2>. QED BY <1>2, <1>4, <2>1, <2>2 DEF Serving
<1>. QED BY <1>1, <1>2, <1>5, ReadTracks

LEMMA ServedTracks ==
  ASSUME Shapes, Tracked, PttChange \/ Rejected
  PROVE  Tracked'
<1>1. poll'.pc = "level"
  BY ServedTypes DEF PttChange, Rejected
<1>2. pos' = pos /\ seen' = seen
  BY DEF PttChange, Rejected, contacts
<1>3. \A j \in Knobs : enc'[j].prev_state = enc[j].prev_state /\ enc'[j].history = enc[j].history
  <2>1. CASE PttChange
    BY <2>1 DEF PttChange
  <2>2. CASE Rejected
    <3>1. enc' = [enc EXCEPT ![Knob].first = FALSE]
      BY <2>2 DEF Rejected
    <3>. QED BY <3>1 DEF Shapes, Encoders
  <2>. QED BY <2>1, <2>2
<1>4. ASSUME NEW j \in Knobs, ~ seen'[j].hasty PROVE Serving(j)' /\ Accounted(j)'
  BY <1>1, <1>2, <1>3, <1>4, TrackedKept DEF Tracked
<1>. QED BY <1>4 DEF Tracked

LEMMA TrackedStep ==
  ASSUME Shapes, Tracked, [Next]_vars
  PROVE  Tracked'
<1>1. ASSUME pos' = pos, UNCHANGED <<levels, enc, poll, seen>> PROVE Tracked'
  BY <1>1, TrackedKept DEF Tracked
<1>2. CASE PressOrRelease
  BY <1>1, <1>2 DEF PressOrRelease, poller
<1>3. CASE \E k \in Knobs, d \in {1, -1} : Turn(k, d)
  BY <1>3, TurnTracks
<1>4. CASE Poller
  <2>1. CASE PollLevel
    BY <2>1, PollTracks
  <2>2. CASE PttChange \/ Rejected
    BY <2>2, ServedTracks
  <2>3. CASE ReadA("first", "firstB") \/ ReadA("second", "secondB")
    BY <2>3, ReadATracks
  <2>4. CASE ReadNewState
    BY <2>4, ReadNewStateTracks
  <2>5. CASE Accept
    BY <2>5, AcceptTracks
  <2>. QED BY <1>4, <2>1, <2>2, <2>3, <2>4, <2>5 DEF Poller
<1>5. CASE IoTick
  BY <1>1, <1>5, IoTickLeaves DEF contacts, poller
<1>6. CASE Command
  BY <1>1, <1>6 DEF Command, CommandPtt, CommandResetProtection, CommandSetProfile, CommandSet,
                    contacts, poller
<1>7. CASE UNCHANGED vars
  BY <1>1, <1>7 DEF vars, contacts, poller
<1>. QED BY <1>2, <1>3, <1>4, <1>5, <1>6, <1>7 DEF Next

-----------------------------------------------------------------------------
LEMMA InitHolds == PanelAssumption /\ Init => IInv
<1>. SUFFICES ASSUME PanelAssumption, Init PROVE IInv
  OBVIOUS
<1>1. Start \in Settings /\ Start \in Values /\ Start["tuning"] \in Int /\ Start["volume"] \in Int
      /\ Step \in Int
  <2>1. MinFreq .. MaxFreq \subseteq Int /\ Start \in Settings
    BY DEF PanelAssumption, Settings
  <2>. QED BY <2>1 DEF Settings, Values, PanelAssumption
<1>2. Hands
  <2>1. pos \in [Knobs -> {0, 2}] /\ used \in Controls /\ pressed = FALSE
    BY DEF Init
  <2>2. \A k \in Knobs : pos[k] \in Int
    BY <2>1
  <2>3. pos \in [Knobs -> Int]
    BY <2>1, <2>2
  <2>. QED BY <2>1, <2>3 DEF Hands
<1>9. Encoders
  <2>1. enc = [k \in Knobs |-> [prev_state |-> 0, history |-> 5, first |-> TRUE]]
        /\ seen = [k \in Knobs |-> [pos |-> pos[k], origin |-> pos[k], results |-> 0,
                                   accepted |-> FALSE, hasty |-> FALSE]]
    BY DEF Init
  <2>2. enc \in [Knobs -> [prev_state : 0 .. 3, history : Int, first : BOOLEAN]]
        /\ \A k \in Knobs : enc[k].history = 5 /\ ~ seen[k].accepted
    BY <2>1
  <2>3. \A k \in Knobs : pos[k] \in Int
    BY <1>2 DEF Hands
  <2>. QED BY <2>1, <2>2, <2>3 DEF Encoders
<1>3. Polled
  <2>1. At(1) \in Reading /\ At(1).pc = "level"
    BY PinTypes DEF At, Reading
  <2>2. levels = [i \in 1 .. Len(PollOrder) |-> -1] /\ poll = At(1) /\ key_down = FALSE
    BY DEF Init
  <2>3. -1 \in -1 .. 1
    OBVIOUS
  <2>4. levels \in [1 .. Len(PollOrder) -> -1 .. 1]
    BY <2>2, <2>3
  <2>. QED BY <2>1, <2>2, <2>4 DEF Polled
<1>4. Io
  BY <1>1 DEF Init, Io, Places, Knobs
<1>5. Radio
  BY <1>1 DEF Init, Radio, PanelAssumption
<1>6. Counts
  <2>1. \A k \in Knobs : Start[k] \in Int
    BY <1>1 DEF Knobs
  <2>. QED BY <2>1 DEF Init, Counts
<1>7. InHand
  BY DEF Init, InHand
<1>8. DialFollowsTicks
  <2>1. asked["tuning"].base = Start["tuning"] /\ asked["tuning"].given = 0 /\ ticks["tuning"] = 0
    BY DEF Init, Knobs
  <2>2. Dial("tuning") = Start["tuning"]
    BY DEF Init, Dial, PanelAssumption
  <2>3. Start["tuning"] - Step * (0 - 0) = Start["tuning"]
    BY <1>1
  <2>. QED BY <2>1, <2>2, <2>3 DEF DialFollowsTicks
<1>10. Tracked
  <2>1. \A k \in Knobs : ~ seen[k].accepted
    BY DEF Init
  <2>2. poll.pc = "level"
    BY DEF Init, At
  <2>. QED BY <2>1, <2>2 DEF Tracked, Serving, Accounted
<1>. QED BY <1>2, <1>3, <1>4, <1>5, <1>6, <1>7, <1>8, <1>9, <1>10 DEF IInv, Shapes

LEMMA StepHolds == PanelAssumption /\ IInv /\ [Next]_vars => IInv'
BY ShapesStep, DialStep, TrackedStep DEF IInv

LEMMA Invariant == Spec => []IInv
<1>1. Init => IInv
  BY InitHolds, PanelAssumption
<1>2. IInv /\ [Next]_vars => IInv'
  BY StepHolds, PanelAssumption
<1>. QED BY <1>1, <1>2, PTL DEF Spec

(* The state of the panel is well-typed: a frequency the radio, guard has is in   *)
(* the limits of set_frequency, a level is one of 0 to 100, and an encoder *)
(* gives a result before its history is beyond its speed.                  *)
THEOREM TypeCorrect == Spec => []TypeOK
<1>1. IInv => TypeOK
  BY ShapesTypes DEF IInv
<1>. QED BY <1>1, Invariant, PTL

(* No tick of the tuning knob is lost, used twice or left behind, however  *)
(* the polling thread counts in the middle of io_tick, for any step, any   *)
(* speed-up of a fast turn and any limits, unless a client or the stop     *)
(* watch changed the frequency under io_tick.                              *)
THEOREM DialFollows == Spec => []DialFollowsTicks
<1>1. IInv => DialFollowsTicks
  BY DEF IInv
<1>. QED BY <1>1, Invariant, PTL

(* The encoder of a knob that is not turned faster than it is polled gives *)
(* one result for every Speed + 1 positions, in the direction of the turn, *)
(* over any number of movements back and forth.                            *)
THEOREM KnobIsCounted == Spec => []KnobCounted
<1>1. IInv => KnobCounted
  BY DEF IInv, Tracked, Accounted, KnobCounted, Shapes
<1>. QED BY <1>1, Invariant, PTL

=============================================================================
