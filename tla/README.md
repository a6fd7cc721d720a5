# A TLA+ model of hermes-net

hermes-net is the network software of a HERMES station: email and files travel
by UUCP over HF radio.  This directory holds specifications of the parts of it
in which several threads or processes meet, the TLC configurations that check
them on small instances, and proofs, checked by TLAPS, that hold for every
size.  Paths below are relative to the repository's `src/`.

## The system

```
 mail, caller.sh                     another station
      |                                    ^
   uucico --- uuport            VARA or ARDOP modem ---- sound card / loopback
      |         |                  ^   |  two sockets            |
      |   shared memory            |   v                         |
      +--> uucpd: in_buffer, out_buffer, flags                   |
                |  radio_cmd: shared memory                      |
                v                                                v
        sbitx controller: command thread, 10 ms loop,  sound threads, DSP
                |
          transceiver (GPIO, I2C)
```

| part | state it keeps | operations | meets the others through |
|---|---|---|---|
| byte rings, `uucpd/circular_buffer.c` | head, tail, full, bytes, a spin flag | put_range, get_range, size, free_size, reset | shared memory between uucpd and uuport, and uucpd's own threads |
| modem drivers, `uucpd/vara.c`, `ardop.c` | connected, waiting_for_connection, clean_buffers, the modem's fill | four threads: control and data, each way | two sockets; flags of `rhizo_conn`; the rings; radio_cmd for keying |
| sessions, `uucpd/call_uucico.c` | uucico_active, pipes, a child process | start, feed, drain, end | rings, flags, the child uucico |
| uuport, `uucpd/uuport.c` | none of its own | read and write threads, end | shared memory with uucpd, standard input and output of a uucico |
| command channel, `trx_v2-userland/sbitx_io.c`, `sbitx_shm.c` | one command, one response, two robust mutexes, one condition | radio_cmd; the command thread | shared memory between the clients and the controller |
| switching, `sbitx_core.c`, `sbitx_gpio.c` | txrx_state, line, filters, level, protection | tr_switch, io_tick, swr_protection_check | called by the command thread and by the 10 ms loop, no lock |
| sound path, `sbitx_alsa.c`, `sbitx_buffer.c`, `ring_buffer.c`, `sbitx_dsp.c` | six ring buffers, rx/tx_starting | five threads: read, write, ask, clear | one mutex and one condition per buffer |
| configuration, `cfg_utils.c` | two files, two dirty flags | setters, config_thread | the radio structure, no lock |
| web socket, client, controller main | - | report status, send commands | radio_cmd, the radio structure |
| ubitx (`trx_v1-*`), `trx_v2-firmware/attiny85.ino` | the first radio and the power meter | serial and I2C commands | - |
| `uuxcomp/`, `system_scripts/` | files | one-shot filters and scripts | processes and pipes |

What makes them hard, and what makes them right:

* **Rings.** A function that tests and copies does so in two critical sections;
  the control thread resets rings others are using.  Right is: a byte stream,
  nothing lost, repeated or stale, and a size that is the number of bytes in it.
* **Modem driver and sessions.** Seven threads, two processes and a modem steer
  by four flags that no lock protects, each read and written alone.  Right is:
  the flags follow the link, sessions do not overlap, everything that begins is
  cleaned up, and nothing is sent without a connection.
* **Command channel.** Time-outs against late answers, clients that die holding
  a mutex, spurious wakeups.  Right is: my own answer, one execution, no client
  blocked for ever.
* **Switching.** Two threads in one unlocked sequence of writes to hardware with
  sleeps in between.  Right is: the state that later requests are judged by is
  what the transmitter does, and the line moves only with the filters open.
* **Sound path.** Answers used outside the lock that gave them, one condition
  for reader and writer, buffers emptied under sleeping threads, partners that
  may not be there.  Right is: the radio's sound never stops.
* **Sessions of uucico.** Two threads, a child and two pipes that are closed under
  the threads; the end of a session is told by counters.  Right is: served both
  ways while the child lives, no bytes mixed, and an end.
* **Configuration.** Two threads set the same variables without a lock, the text is
  stored apart from the value, flags are cleared after the write, files replaced in
  place.  Right is: hardware, dictionary and file follow the radio.

`PROJECT.json` lists the parts with their status, and under `hazards` the places
in the code where each of these can go wrong, with the properties that watch it.

## The modules

| module | code | what it is |
|---|---|---|
| `CircularBuffer` | `circular_buffer.c` and its callers in `call_uucico.c`, `vara.c` | the ring at the grain of its critical sections |
| `ByteStream` | - | what a ring promises: a bounded first-in first-out stream |
| `CircularBufferProofs` | - | theorems about the ring; it implements `ByteStream` |
| `VaraSession` | `vara.c`, `call_uucico.c`, `uuport.c`, `uucpd.c` | one station: threads, sessions, uuport, modem, link |
| `VaraSessionProofs` | - | theorems about the station |
| `UucicoSession` | `call_uucico.c` | the sessions: main thread, reader, writer, pipes, child |
| `UucicoSessionProofs` | - | theorems about the sessions; they implement those of `VaraSession` |
| `RadioTxRx` | `sbitx_core.c`, PTT of `sbitx_shm.c`, `sbitx_gpio.c` | switching, write by write |
| `ModemData` | data threads, reports and clean-up of `vara.c`, `ardop.c` | what is handed to the modem, and the counts of it |
| `ModemDataProofs` | - | theorems about the data path |
| `FrontPanel` | `sbitx_gpio.c`, knobs, key and stop watch of `sbitx_core.c` | the PTT key and the two knobs |
| `FrontPanelProofs` | - | theorems about the front panel |
| `RadioCommand` | `sbitx_io.c`, `sbitx_shm.c` | the command channel |
| `RadioProofs` | - | theorems about the command channel and about switching |
| `RadioSettings` | setters of `sbitx_core.c`, `cfg_utils.c`, commands of `sbitx_shm.c` | settings, dictionaries, files, hardware |
| `RadioSettingsProofs` | - | theorems about the settings |
| `AudioPipeline` | `sbitx_alsa.c`, `sbitx_buffer.c`, `ring_buffer.c` | five threads and six buffers |
| `AudioPipelineProofs` | - | theorems about the sound path |
| `MC...` | - | the instances the configurations check |

A definition named `Mutant...` is what a plausible mistake would make of the
definition that follows it; no specification uses it.  It is there to show that
the properties would notice.

### CircularBuffer

`ring` is `struct circular_buf_t_aux` without its constant `max`, `slots` its
buffer.  Bytes carry their number in the order they were put, so a byte that is
lost, repeated or out of order shows.  `writer` and `reader` are the callers:
`uucico_read_thread` and uuport's `write_thread` poll `free_size` and call
`put_range` (`WaitFree`, `TestFull`, `PutRange`); `vara_data_worker_thread_tx`,
`uucico_write_thread` and uuport's `read_thread` ask for `size`, cap it, call
`get_range` and pass their buffer on without looking at its result (`AskSize`,
`TestSize`, `GetRange`, `PassOn`).  `Reset` is the modem thread's.  The functions
that nothing calls are left out.  The capacity is any positive number: the code
uses a modulo by `max`, not a mask.

### VaraSession

One variable per flag of `rhizo_conn` (`connected`, `waiting` for
`waiting_for_connection`, `clean` for `clean_buffers`, `active` for
`uucico_active`), and a program counter per thread: `tx` and `rx` for the control
threads of `vara.c`, `data` for the thread that feeds the modem, `uucico` for
`uucico_thread`, `uuport` and `portWrite` for uuport and its write thread.  Every
access to a flag that another thread may see change is a step of its own.  The
in_buffer is one bit, `pending`: does it hold bytes.  The data thread's get_range is a
test (`DataTest`) and a copy (`DataCopy`), and a reset may fall between: then the
emptied ring may say it holds bytes.  The modem and the other
stations are external: the link is down, calling or up; both directions of the
control socket are queues.  `ModemCommand` is the modem reading its commands,
`CallAnswered`, `CallFails`, `IncomingCall` and `HangUp` are what it may report.

### UucicoSession

`VaraSession` has a session as four steps among the modem's flags; this module
opens it.  `main`, `reader` and `writer` are `uucico_thread`, `uucico_read_thread`
and `uucico_write_thread`, `open` the pipe ends uucpd has open, `input` and
`output` what the pipes hold, `child` the uucico itself.  A byte of the child is
named by its session and its number in it; of the bytes for the child only the
number is kept.  A system call that waits is an action that is not enabled; one on a
closed pipe fails (`ReadEnd`, `WriteEnd`).  The modem's threads are what they do to
rings and flags: `CallUucico`, `Disconnected`, `Receive`, the six steps of `CleanUp`, and
of the data thread its get_range.  A ring is a sequence, what lies between tail and
head, and every critical section that can meet a reset is a step: free_size (`ReadPut`)
and the copy in (`ReadCopy`), the test and the copy out of the two readers (`SendTest`,
`SendCopy`; `WriteTake`, `WriteCopy`).  `Retreated` and `Advanced` say what a copy
leaves that finds another ring than its test did: `circular_buffer.c` moves tail past
head, and all that lies from there on counts.  `torn` is history: in_buffer is such a
ring, until it is reset again.  In return `VaraSession` may take a
session for four steps: theorem `SessionAsInStation`.

### ModemData

The data path of either driver, chosen by `modem_type`.  `dtx` is the data thread:
it looks (`DtxLook`), asks for the size, which it caps at BUFFER_SIZE (`DtxTake`), tests and
copies in get_range (`DtxTest`, `DtxCopy`, `Retreated` and `torn` as in `UucicoSession`),
waits for room by `buffer_size` (`DtxRoom`), writes the chunk, or with ARDOP its next packet
(`DtxWrite`), adds it to `bytes_buffered_tx` (`DtxCount`) and sleeps (`DtxSleep`).
`crx` reads the modem's reports; a BUFFER is stored, compared and settled in three
steps (`CrxBuffer`, `CrxCompare`, `CrxSettle`), because the data thread counts
between them; a DISCONNECTED clears two counts, asks for the clean-up and clears
connected, one by one (`CrxZero`, `CrxZeroBuffered`, `CrxFall`, `CrxDown`).  `ctx` is
the clean-up of the other control thread, with its two resets; anybody may ask for one at
any time (`SessionEnd`).  A byte of
in_buffer is the number of times connected had been cleared when it was put.  The
modem is external: a buffer, a link, and a queue of reports that it does not let
grow beyond `MaxUnread[modem_type]`.  What it does with bytes written while the link is down
this code cannot tell: it keeps or drops them.  `DtxSleep` takes from the comment
"buffer management hack" that VARA's report of a chunk comes and is read within the
second the thread sleeps; for ARDOP, which has to be asked, nothing is assumed.
History: `handed` (bytes written that this connection is to count), `raced`,
`crossed`, `hurried`, `forgot` and `torn`, which say when a property has its exception.

### FrontPanel

From the contacts to what they set.  `pressed` and `pos` are the key and the knobs,
`Level` what a pin reads.  The polling thread goes through the pins in their order:
`PollLevel` is its first reading, `PttChange` and `ReadA` ... `Accept` the service of an
edge, which reads the pins again, an encoder's contact by contact and twice.
`Decode` is the body of `enc_read`.  `io` is where `io_tick` is and the values it took
at its top; the two loops that turn ticks into a frequency or a level are a test
and a body (`TestDown`, `TakeDown`), for the polling thread counts on in between.
`Switch` is `tr_switch` for the key, with its refusal while the protection is on;
`PowerTrips` and `Protect` are the protection.  `Command` is a client that changes the same
settings or the profile, switches the radio or ends the protection.  `tr_switch`
and the setters are one step here: `RadioTxRx` and `RadioSettings` open them.  `seen` and
`asked` are the accounts the properties compare with: positions and results of a
knob, ticks given since a setting was last known.  `rushed`, `bounced`, `unheard` and
`overruled` are history, for the exceptions.

### RadioSettings

`radio`, `dict` and `file` are one setting three times: the `_Atomic` variable,
the entry of the INI dictionary and the file.  `thread[t]` is where the command
thread or the 10 ms loop is inside a setter: assignment (`Assign`), hardware
(`ApplyFreq`, `ApplyLevel`, `ApplyMode`, `ReadFilters`, `TuneFilters`,
`SetLevels`), text (`Format`), `cfg_set` (`Store`), dirty flag (`Mark`);
`set_profile` calls the setters of frequency and mode (`ApplyProfile`, `Call`,
`CompareSame`, `CompareDiffers`, `Returned`).  `config` is `config_thread`: look, copy
under the mutex, write, clear the flag.  One setting stands for each kind that the
code treats differently: frequency, mode and level of a profile, the active profile,
one setting of the core file.  Profiles are in full operation, not controls only.
`raced` and `overtaken` are history: settings that two threads were changing at
once, and settings stored while their file was written.  They are the two exceptions the
properties allow, and each is taken back when a later change makes good.

### RadioTxRx

`tr_switch` is the chain `TrSwitch` - `TxRaise`, `TxLift`, `TxLine`, `TxFilter`, or
`RxHush`, `RxOpen`, `RxDrop`, `RxSettle`, a step for each write that the other thread or
the transmitter can tell from the next.  Threads `hw` (the 10 ms loop: `HwTick`,
`HwKeyDone`, `HwPower`, `HwSwr`, `HwTrip`) and `cmd` (`Ptt`, `ResetProtection`) run it with no
lock.  There is no clock: both threads have normal priority and share a processor, so a
sleep is at least what was asked for and has no upper bound, and a request may come
at any time.  So every interleaving of two calls is in the model.  `mixed` is history:
a call made its first write while the other call, in the other direction, was between its
writes.  It is cleared by a call that makes its first write while the other thread is
in no call.

### RadioCommand

`client[c]` is where a caller is in `radio_cmd`, `thread` where the command thread
is.  A mutex has an owner and a health: good, inconsistent after its owner died,
broken after it was unlocked in that state - what the robust attribute does and
no caller looks at.  A command is named by its caller and the number of the call,
and its response has its name, so a stale one can be told.

### AudioPipeline

A buffer is its two offsets; `at[t]` is the call thread `t` is about to make, and
`asleep` the threads inside `pthread_cond_wait`.  `Then` is the order of the
calls in the five loops.  A thread inside an ALSA call is a thread that takes its
time.  `ReadBuffer`, `WriteBuffer`, `ClearBuffer` and `Flush` hold the mutex for one
step; `AskSize` and `AskFree` release it before the answer is used.

## The runs

| run | shows |
|---|---|
| `RingStream` | with one writer and one reader and no reset the ring implements `ByteStream`, under fairness: the separate test and copy are harmless |
| `RingResetRace` (violation) | a reset inside `get_range` makes the size lie |
| `VaraSession` | the properties of a station below |
| `UucicoSession` | sessions are served both ways, in order, and end |
| `RadioTxRx` | state, line, level and filters agree after any overlap of two switches whose writes did not mix; the line is then switched cold |
| `RadioAlert` (violation) | the transmitter can be left on behind the protection alert |
| `RadioCommand` | own response, one execution, every call returns |
| `RadioSettings` | dictionary, files and hardware follow the radio, whoever sets what and when |
| `SettingsTuned` (violation) | a change of profile does not tune the oscillator |
| `AudioPipeline` | offsets in the mapping, tested calls never block, no missed wakeup, sound flows |
| `FrontPanel` | knobs are counted and ticks turned into a frequency without loss; the key is heard in the end |
| `ModemData` | the counts of bytes are true, VARA is not overfilled, a clean-up leaves nothing old, a chunk goes out |

### Bounds, and why they are enough

* `RingStream`: a ring of 4 and chunks of up to 3, 9 bytes: every combination of
  head, tail and full occurs, every wrap in the middle of a chunk, a full ring, and
  more than two times round.  `RingResetRace`: one writer and one reader on a ring of 3
  with chunks of 2, 4 bytes, one reset.  Theorem `TypeCorrect` of the ring has any number
  of writers and readers (the tree has two of each on one ring when uucico and uuport
  run at once).
* `VaraSession`: one call from another station and one run of uuport; calls from
  this station are not bounded, so links come and go for ever.  One unread word each
  way: the proofs do without the bound.
* `ModemData`: chunks of up to 2 bytes for a ring and a modem that take 2, packets of 1
  with ARDOP, one unread report of ARDOP, two of VARA, and four events, each a byte that
  is put, a link that comes up or a clean-up that somebody asks for: two links with a byte
  each, one link with two bytes and a clean-up in the middle of it, and so on.  A chunk has to wait
  for another to go out, a report is passed by a chunk, a reset meets a get_range, the
  bytes of one link meet the clean-up and the next link, and the next link may come up
  before the end of the last one is read.  The proofs do without all of these.
* `FrontPanel`: only one control is moved in a behaviour, and its movements and the
  commands of clients meanwhile are bounded together: 5 for the key, 3 for the tuning
  knob, 2 for the volume knob; the knobs decode by the same code and share no state but
  the loop.  A knob gives a result after two positions, so three movements include a
  result and a turn back, and two a tick that meets a command.  A knob counts as fast beyond one tick,
  not 50; frequencies from 1 to 6; the volume starts at 99, a step from its end.  With
  the key, a switch against it, the end of a protection and a change of profile can all
  be in one behaviour.
* `RadioTxRx`: no bound.  Neither key nor clients nor the power readings are limited,
  nor are the delays.  `REF_PEAK_REMOVAL` is 1 instead of the code's value: it only
  delays the trip.
* `RadioCommand`: two clients with two calls, a death and a spurious wakeup: a
  late answer can meet the same client's next call and another client's.
* `UucicoSession`: two sessions, rings, buffers and pipes of two, one byte from
  the first child and three from the second, one fork that fails, clean-ups without limit: rings and pipes fill, the
  throttle of `call_uucico.c:217` closes and opens, a ring is torn and made whole again, and
  the second session meets what the first one left, its counters included.
* `RadioSettings`: two profiles, two values of each setting and all three modes, three calls that change
  one and one restart: two calls can run into each other in the two threads and a third
  come before or after, while the files are written or not.
* `AudioPipeline`: buffers of one block, half a block to a period, one switch
  between receiving and transmitting.  Small buffers make full and empty frequent;
  the proofs hold for every size.

### The properties

Ring.  `InOrder`: what a reader passes on is the next part of what was put.
`SizeCountsStored`: the size is the number of bytes put and not yet taken.
`ImplementsStream`: refinement of `ByteStream`, with its fairness.

Station.  `ConnectedFollowsLink`: with no event unread or in hand, connected is the
link.  `NoSessionWhenInactive`: with uucico_active clear no session is left.
`CleanUpStands`: the request stands while it is carried out.
`CleanUpEnds`: a clean-up that was asked for is done in the end.

Sessions.  `ServedBothWays`: neither thread leaves while the child lives.
`SessionsInOrder`: in in_buffer only the end of a session may be missing, and no
session stands behind a later one; a ring torn by a reset amid the data thread's
get_range is the exception, until it is reset again.  `SessionEnds`: a session is over in
the end, unless fork failed.  It is stated for behaviours in which in_buffer does not stay
torn: a false size can make the reader wait for room
(`call_uucico.c:227`), and one torn again after each clean-up could do so for ever.
That a call which comes while uucico_active is still set gets no uucico
(`call_uucico.c:58-59`) no property is against.

Modem.  `Counted`: what the driver calls transmitted and what it calls buffered are
together what it wrote, never more, and not less unless a chunk was counted amid a
report.  `CountsAreTrue`: with every report read they are what the modem
transmitted and holds, unless a report and a chunk passed one another, or bytes were
on the next link before the counts of the last one were cleared.
`NotOverfilled`: VARA is never given more than it takes, unless the end of a clean-up
cleared `buffer_size` under a new connection.  `OldBytesEmptied`: after a clean-up no
byte from before the fall of the link is in in_buffer, unless a new connection came up while
it was asked for, or the ring was torn by a reset amid a get_range and not reset since.
`ChunkGoesOut`: a chunk without room goes out in the end while
the link stays.

Front panel.  `KnobCounted`: a knob that was never moved before its last place was
noticed gives one result for two positions, over any turn back and forth, with both
contacts calling the handler that reads both.
`KnobCaughtUp`: where a knob rests is decoded in the end, whatever was missed before, if
at its last movement the thread remembered both contacts as they were and was not in
their handler; otherwise the last place may go unserved, as `sbitx_gpio.c:295` remembers a
reading the handler did not go by.  `DialFollowsTicks`: the frequency
moves by exactly the ticks counted.  `KeyHeard`: when the key rests the radio
does what it says, unless a contact bounced between the two readings, the key
moved while `tr_switch` slept, the profile does not listen to it, the protection refused
the switch, or the protection or a client switched the radio after the key did.

Settings.  `StoredAsSet`: what nobody is setting is in the dictionary as in the
radio, unless two threads last set it at once.  `SavedWhenClean`: an unmarked dictionary
is in its file, but for what was stored while the file was being written.
`HardwareFollows`: filters and loudspeaker are those of the active profile, unless two
threads changed them at once.
`ComesBackAsLeft`: a radio left alone starts again with its settings, with the
exceptions of the other two (`raced`, `overtaken`).  A mode CW is
excepted too: it is stored as CW and read as LSB (`cfg_utils.c:249`).

Radio.  `LineFollowsState`: when no call of `tr_switch` is under way, `txrx_state` says
what line, level and filter are.  `LineSwitchedCold`: TX_LINE changes only with the filter
relays open, and falls only with the level down.  Both hold for every overlap of two calls
in the same direction, for a call that begins while the other is under way but writes only
when that one is done, and again after any mix, once a call has run alone.  Where
the writes of two calls in opposite directions do mix (`mixed`) both are false of the
code: the radio can be left in `IN_RX` with the line high, where CMD_PTT_OFF is answered
by a NACK.  The 10 ms at the start of a switch to reception make that rare and nothing makes
it impossible: it takes a thread that runs some milliseconds late, or a switch to
transmission that follows the first of two switches to reception which overlap.  `OwnResponse`,
`ExecutedOnce`, `CallsReturn` for the command channel.  `OwnResponse` and
`ExecutedOnce` carry two conditions the code needs: both mutexes healthy, and an
allowance for the re-execution after a spurious wakeup.

Sound.  `TestedCallsNeverBlock`: `control_thread` sleeps on the radio's two input
buffers only.  `ReadersSleepForCause`: no reader sleeps on what it waits for.
`SoundFlows`: the DSP runs and both of the radio's outputs are read for ever, unless a
`clear_buffer` strands `radio_capture`: it signals nobody, so a writer asleep on
the buffer it empties sleeps on.

### Fairness

Weak fairness of a thread says it is scheduled; every loop in the code polls,
sleeps or waits for a condition, none stops by itself.  Beyond that:

* ring: writers finish a `put_range` they began; nobody must produce;
* station: the child uucico ends by its own timers, a killed uuport exits, the modem
  reads its commands and settles its calls.  `PatientSpec` adds that other
  stations hang up in the end (strong fairness: the opportunity comes and goes); this
  is needed by `CleanUpEnds`, because a DISCONNECT that meets a link just going
  down is ignored and `vara.c:371` waits without a limit;
* sessions: the three threads run, the child ends, and in_buffer is sent or thrown away
  (that is `CleanUpEnds` and the data thread of `VaraSession`);
* command channel: strong fairness for locking a mutex, for a lock that is often
  free is granted in the end; nobody must call;
* sound: the radio's sound card goes on, so its two threads and `control_thread` are
  fair; the loopback threads are not;
* front panel: the polling thread and the 10 ms loop run;
* modem data: the three threads run; the modem transmits while the link is up, answers
  when asked, and ends the link when told to.  It need not connect, nor disconnect
  by itself.

`RadioSettings` has no liveness property.  Deadlock is checked for the radio, its
settings, the front panel and the sound path.  The others may stop: all
writers, clients or callers of the bounded behaviour may be done.

### Disagreements found

1. `circular_buf_get_range` tests in one critical section and moves the tail in
   another.  With a reset in between `circular_buf_size` is not "the current number of
   elements in the buffer" (`circular_buffer.h:78`) any more.  Run `RingResetRace`.
2. `sbitx_core.c:240`, "set the frequency and mode": `set_profile` calls
   `set_frequency` with the value the profile has, which returns at line 331 without
   tuning.  Run `SettingsTuned`.
3. `sbitx_shm.c:86`, "tx was already shut at this point": `sbitx_core.c:444-445`
   leave room for a PTT_ON.  Run `RadioAlert`.

Seen while modelling, as exceptions of properties or hazards without one:

* `sbitx_gpio.c` reads a pin a second time to serve its edge, and remembers the first
  reading: a contact that bounces between the two leaves `key_down` wrong until it
  moves again (`bounced` in `KeyHeard`).  An encoder starts with a history of 5, so its first accepted reading gives a result.  It
  is thrown away when it comes in the first call of the handler, as with a knob that rests
  with its contacts open.  With both closed the first call accepts nothing, and the first
  position the knob is turned to, either way, counts as a tick upwards.
* Two calls of `tr_switch` in opposite directions whose writes mix can leave the state and the
  line in disagreement (`mixed` in `RadioTxRx`).
* A reset amid the data thread's get_range leaves old bytes in in_buffer, and a wrong size,
  until the next reset (`torn`): they can go out on the next connection.
* A clean-up that a new connection overtakes (`hurried`) waits in `vara.c:371` for
  that connection to end; bytes the data thread had taken before go to it.  When it
  ends by itself, `buffer_size` may be cleared while the modem holds bytes (`forgot`).
* The ARDOP driver looks at `buffer_size` before each packet (`ardop.c:88`), but
  nothing makes sure that ARDOP reported it since the last one (it sleeps 2 s,
  `ardop.c:134`): it can write more than the modem has room for, and it never clears
  `buffer_size`.  So `NotOverfilled` is stated for VARA.
* `vara.c:198-199` clears the count of transmitted bytes twice.
* `clear_buffer` (`sbitx_buffer.c:111`) signals nobody: a capture thread asleep on the
  buffer it empties is not woken by the room it makes, and nothing but a spurious
  wakeup ever wakes it (proved: `WritersStayBehind`).  In every round this can be the
  loopback's thread (`sbitx_alsa.c:935`); the radio's own only at a switch between
  receiving and transmitting (proved: `RadioNotStranded`).
* When a new link comes up and carries bytes before the driver has read the end of the
  last one, clearing its counts forgets those bytes until they have gone out: the
  exception of `CountsAreTrue` that the proof of it brought to light.

## The proofs

All constants are arbitrary within the named ASSUMEs of the modules: sizes are
positive, a chunk, period or block fits into the buffer, bounds are naturals.

* `CircularBufferProofs`.  `TypeCorrect`: any writers, readers and resets.
  `StreamInOrder`, `SizeIsTrue` and `SpaceSuffices`: with one writer, one reader and
  no reset, `InOrder`, `SizeCountsStored` and `EnoughFreeSpace` (a chunk that is
  copied fits).  None is inductive: when `put_range` copies, that the chunk fits was
  found out two critical sections earlier.
  `StreamInv` adds what is remembered in between (`SpaceStillFree`, `BytesStillStored`:
  the other side can only make more space, or more bytes), that every byte written
  is passed on, in hand or stored (`AllAccountedFor`), and what the slots hold
  (`HoldsNewest`).  The lemmas are arithmetic: `AdvanceFits` and `RetreatStored` say
  what the pointers do to the size, `PutKeepsNewest` and `TakeKeepsNewest` what the
  copies do to the contents, across the wrap.  `RingIsStream`: under the same conditions
  the ring implements `ByteStream`, each step being a put, a get or a stutter.  The
  queue is the bytes stored, oldest first (`QueueIs`), what the reader holds is the
  stretch before them (`HandFollows`), and as both are runs of consecutive numbers the
  lemmas about such runs (`Bytes`...) say what a chunk appended or taken leaves.
* `VaraSessionProofs`.  `ConnectedCorrect` needs more than it says: while events
  are unread, the last of them, or the one in hand, tells the link.  That is the
  inductive addition, with `TailEnds` and `AppendEnds` about the ends of the queue.
  `NoSessionLeft` and `CleanUpNotDropped` follow from the same invariant, which
  says who may clear a flag and where that thread then is.
* `UucicoSessionProofs`.  `SessionsServed` cannot be seen from one session: the
  writer leaves when one counter exceeds the other.  The invariant says that
  either counter is the number of sessions its thread has ended (`CountersTell`; so
  they are equal whenever a session starts), which pipe ends are open where
  (`Phases`), that the threads outlive the child and are joined (`Threads`), and that
  a session is open only while uucico_active is set (`Called`).  `TypeCorrect`
  needs the same: the counters are bounded by the sessions.  `SessionAsInStation`
  is a refinement: with a session's place mapped to that of `VaraSession`
  (`SessionPlace`), every step is one of its `UucicoThread`, a step of the modem's
  threads on the flags (`FlagSteps`), or a stutter.  `OutputInOrder` adds where
  the child's bytes are: those the reader has passed on, those in its own buffer and
  those in the pipe are what the child wrote, without a gap (`OutputFollows`).  While
  in_buffer is not torn the chunk that the reader found room for still fits when it is
  copied (`Whole`), and a get_range that copies more than there is, the only step that
  breaks the order, tears it; what a torn ring holds is only known to have its type, and a
  reset makes it whole.
* `AudioPipelineProofs`.  One invariant for the first three theorems: `PlacesOK` (each
  thread stays at the buffers of its loop, so each buffer has one reader and one
  writer - lemma `OnePartner`), `AnswerStands` (between the question and the call
  only the partner acts, and it makes the answer truer), and `SleepersCall` (who
  sleeps does so in a read or a write).  A signal therefore reaches the one thread
  that can be asleep on the buffer, which is why one suffices.  Three more are about
  the signal that `clear_buffer` does not give.  `WritersLeftByClears`: a writer comes to
  sleep where there is room for it by nothing else.  `WritersStayBehind`: then only a
  spurious wakeup helps, for the buffer stays empty (`StrandedEmpty`, the inductive
  addition), so its reader sleeps too.  `RadioNotStranded`: to the radio's own capture
  thread, on which `SoundFlows` depends, this cannot happen before the first switch.

* `ModemDataProofs`.  Four theorems from one invariant of three parts, and a fifth from
  one more.  `Accounts`:
  between the two steps of a settlement the moved bytes are in both counts, and
  what will be true is the sum with `buffer_size` (`BytesCounted`).  `Emptied`: from
  the second reset on connected stays clear unless a new connection hurried, so
  what is put meanwhile is new, and a copy takes from the front, unless it tears the ring
  (`OldEmptied`); that connected is still to be cleared means that a clean-up is asked
  for, which cannot end before.  `Roomy`: outside the second after a
  write every report under way says at least what VARA holds, and in that second
  the newest does (`NewestEnough`); so what `DtxRoom` sees is never too little
  (`NeverOverfilled`).  `TypeCorrect` holds that a subtraction of counts other threads
  change never gives a negative number.  `CountsTrue` rests on `Tracked`: the unread
  BUFFER reports fall from what the driver's count will be when it has done what it is at
  (`Newer`) to what VARA holds (`Falling`), so with none unread the two are equal;
  what was handed over is in VARA or was transmitted (`Ledger`); and a report that
  belongs to the link there is now means that bytes were on it (`Recent`).  The search
  for it showed that `CountsAreTrue` had held only because the run let one report be
  unread: with two, a link can end and the next carry bytes before the driver has
  cleared its counts.  `crossed` now names that case and the run has two.
* `RadioProofs`, about two modules that share no state (`RadioTxRx` has names of its
  own, `TxRxSpec`, `TxRxTypeOK`, so that both can be extended).  `RadioCommand`:
  `OwnResponseOnly` and `NeverExecutedTwice`: while neither mutex
  is broken they exclude (`Exclusive`), so only the owner of `response_mutex` writes,
  and the command in the channel is that of whoever waits (`Placed`); a command
  that is about to be executed was executed by spurious wakeups only (`Budget`); and
  while an answer is there for a client the thread executes nothing unless it woke by
  itself (`Answered`).  `Numbered` holds with broken mutexes too: a call not yet made
  is nowhere in the channel.
  `RadioTxRx`: there is no assumption on time; the theorems hold however late the threads
  run and however close requests follow each other.  `LineFollows` and `SwitchedCold` rest
  on `Pins`.  While `mixed` is clear the two threads are not both between their first and last
  writes in opposite directions (`Apart`); so if any thread writes for transmission,
  the pins are as its place says (`Raising`), if any for reception likewise (`Lowering`),
  however many calls in the same direction overlap, and if none does they are as
  `txrx_state` says (`Resting`).  A call that begins alone brings `Pins` about again, for its
  writes come to set all four.  The steps that write nothing are one lemma
  (`PinsUnwritten`), those of `tr_switch` another (`PinsWritten`).
* `FrontPanelProofs`.  `DialFollows` needs one fact beside the types: from its top to the
  ticks of the tuning knob `io_tick` holds the frequency the active profile has, unless
  somebody changed it meanwhile (`InHand`).  Then each round of a loop takes a tick for a
  step, what the polling thread counts is in both sides of the account, and a store
  that is refused, a client or the stop watch starts the account again
  (`RebasedFollows`, `DisturbedDial`).  `TypeCorrect` says of the encoder that it gives a
  result before its history is beyond its speed (`DecodeTypes`), and of the knobs that
  what they store is within the limits (`StoredTypes`).  `KnobIsCounted` rests on
  `Tracked`: a knob that is not hasty does not move while one of its pins is served,
  so both readings are where it stands (`Serving`), and that is at most one position
  from the one last accepted, of which all results and the history are the account
  (`Accounted`, `DecodeCounts`).
* `RadioSettingsProofs`.  Each property of the quiet radio is the end of one about the
  steps.  `StoredOrPending`: a setting that is not raced is in the dictionary, or exactly
  one thread has assigned it and will store what the radio has (`AssignStores`,
  `StoreStores`).  `SavedOrMarked`: a setting is in its file, in the copy being written,
  marked, about to be marked, or was overtaken (`ConfigSaves`).  `SpeakerFollows` and
  `FiltersFollow`: the device is as the active profile has it or a thread is due to set it
  so, where an assignment that meets another thread at the device makes it raced
  (`AssignSpeaker`, `AssignFilters`).  `ComesBack` puts the first two together.

Every invariant and every safety property of an action that a passing run checks is
proved.  Only model-checked: the liveness properties (`CleanUpEnds`, `SessionEnds`,
`CallsReturn`, `SoundFlows`, `KnobCaughtUp`, `KeyHeard`, `ChunkGoesOut`) and the
fairness in `ImplementsStream`, because fairness, ENABLED and `~>` are out of the
prover's reach, and the three violations.

## Not modelled, and why

Formatting, logging, leds, the serial keying of other radios, and the arithmetic of
the DSP.  Shutdown: both daemons leave with `exit`, and the hazards list where a join
could wait for ever.  Of the ARDOP driver the data path to the modem is modelled; its control threads
have the shape of the VARA ones, but not its thread from the modem.  What the drivers
tell the display, and VARA's IAMALIVE.  The setters
of power level, digital voice, timeout, threshold and serial number are of the
kinds `RadioSettings` has.  The step size is not: `CMD_SET_STEPHZ` marks the user
file without ever storing the value, so it is not saved at all.  A radio in
transmission (`set_profile` then sets other levels) and a file cut in the middle are
left out.  The scripts, `uuxcomp` and
the firmwares are sequential.  Vendored code (mongoose, gpio, ATTiny core) is not
the station's own.

## Plan

Done, in this order: `CircularBuffer` with `ByteStream`; `VaraSession`;
`RadioTxRx`; `RadioCommand`; `AudioPipeline`; `UucicoSession`; `RadioSettings`;
`FrontPanel`; `ModemData`; the proofs, of all the invariants and of the two
refinements, the ring as a stream and the sessions as those of the station.  Next:

1. `UuportSession`: uuport's two threads and the two uucicos on one ring, composed
   with the flags of `VaraSession`; no byte of one connection reaches the uucico of
   the next.
2. In `ModemData`: the thread from the modem, and with it out_buffer.
3. In `RadioTxRx`: profile changes under a held key.
4. The serial command channel of the first radio (`trx_v1-userland/ubitx_io.c`,
   `ubitx_controller.c`): a late answer against the next command.
5. An abstract store that `RadioSettings` implements (radio as set, file as some
   earlier radio), and the loss of a modem socket in `uucpd.c`.
6. Proofs: the same for what is added; `FrontPanel` and `RadioSettings` take `tr_switch` and
   the setters for one step, which is not proved.
