---------------------------- MODULE VaraSession ----------------------------
(***************************************************************************)
(* A uucpd that drives the VARA modem: the control threads of              *)
(* uucpd/vara.c, the data thread that empties in_buffer, the uucico thread *)
(* of call_uucico.c and uuport, which share the flags of rhizo_conn.  The  *)
(* modem is external and modelled from how vara.c uses it: it answers      *)
(* CONNECT with CONNECTED or DISCONNECTED, reports calls from other        *)
(* stations and hang-ups with the same two words, and acts on DISCONNECT   *)
(* when a link is up.  Both directions of the control socket are first-in  *)
(* first-out.                                                              *)
(*                                                                         *)
(* Every access to a flag that another thread may see change is a step;    *)
(* the sleeps are steps that may take any time.  Of in_buffer only whether *)
(* it holds bytes matters here (CircularBuffer models its inside); a reset *)
(* between the test and the copy of a get_range may leave it so.  Of a     *)
(* session of uucico only how far its end has come is kept.                *)
(***************************************************************************)
EXTENDS Naturals, Sequences

CONSTANTS
  MaxIncoming,   \* bound: calls from other stations in a behaviour
  MaxPorts,      \* bound: runs of uuport in a behaviour
  MaxUnread      \* bound: unread words in either direction of the socket

ASSUME SessionAssumption ==
  MaxIncoming \in Nat /\ MaxPorts \in Nat /\ MaxUnread \in Nat

VARIABLES
  connected, waiting, clean, active,  \* flags of rhizo_conn: connected,
               \* waiting_for_connection, clean_buffers, uucico_active
  pending,     \* in_buffer holds bytes to be sent by the modem
  tx,          \* where vara_control_worker_thread_tx is
  rx,          \* where vara_control_worker_thread_rx is
  uucico,      \* where uucico_thread is
  data,        \* where vara_data_worker_thread_tx is
  uuport,      \* the uuport run by a local uucico that calls out
  portWrite,   \* where its write_thread is
  ports,       \* history: runs of uuport so far
  link,        \* the modem's link to another station
  incoming,    \* history: calls from other stations so far
  commands,    \* control socket, to the modem
  events       \* control socket, from the modem

flags == <<connected, waiting, clean, active>>
port == <<uuport, portWrite, ports>>
modem == <<link, incoming, commands, events>>
vars == <<flags, pending, tx, rx, data, uucico, port, modem>>

Init ==
  /\ connected = FALSE /\ waiting = FALSE /\ clean = FALSE /\ active = FALSE
  /\ pending = FALSE
  /\ tx = "top" /\ rx = "read" /\ data = "poll"
  /\ uucico = "wait"
  /\ uuport = "none" /\ portWrite = "over" /\ ports = 0
  /\ link = "down" /\ incoming = 0
  /\ commands = <<>> /\ events = <<>>

-----------------------------------------------------------------------------
(* vara_control_worker_thread_tx, the 1 Hz loop.                           *)

TxStep(from, to) == tx = from /\ tx' = to

Command(word) ==
  /\ Len(commands) < MaxUnread
  /\ commands' = Append(commands, word)
  /\ UNCHANGED <<flags, pending, rx, data, uucico, port, link, incoming,
                 events>>

TxTop ==
  /\ TxStep("top", IF ~ clean THEN "look"
                   ELSE IF connected THEN "disconnect" ELSE "kill")
  /\ UNCHANGED <<flags, pending, rx, data, uucico, port, modem>>

TxDisconnect ==
  /\ TxStep("disconnect", "kill")
  /\ Command("DISCONNECT")

(* killall uucico; killall uuport                                          *)
TxKill ==
  /\ TxStep("kill", "reset")
  /\ uucico' = IF uucico = "running" THEN "killed" ELSE uucico
  /\ uuport' = IF uuport = "running" THEN "killed" ELSE uuport
  /\ UNCHANGED <<flags, pending, rx, data, portWrite, ports, modem>>

TxReset(from, to) ==
  /\ TxStep(from, to)
  /\ pending' = FALSE
  /\ UNCHANGED <<flags, rx, data, uucico, port, modem>>

(* Mutant: the request is dropped before the buffers are emptied again.    *)
MutantTxWaitClosed ==
  /\ ~ connected
  /\ TxStep("closed", "reset2")
  /\ clean' = FALSE
  /\ UNCHANGED <<connected, waiting, active, pending, rx, data, uucico, port,
                 modem>>

TxWaitClosed ==
  /\ ~ connected
  /\ TxStep("closed", "reset2")
  /\ UNCHANGED <<flags, pending, rx, data, uucico, port, modem>>

(* Mutant: buffer_size is zeroed and clean_buffers is forgotten.           *)
MutantTxClear ==
  /\ TxStep("clear", "look")
  /\ UNCHANGED <<flags, pending, rx, data, uucico, port, modem>>

TxClear ==
  /\ TxStep("clear", "look")
  /\ clean' = FALSE
  /\ UNCHANGED <<connected, waiting, active, pending, rx, data, uucico, port, modem>>

(* The condition for a call is read one flag after the other.              *)
TxLookConnected ==
  /\ TxStep("look", IF connected THEN "top" ELSE "lookRest")
  /\ UNCHANGED <<flags, pending, rx, data, uucico, port, modem>>

TxLookRest ==
  /\ TxStep("lookRest", IF pending /\ ~ waiting THEN "connect" ELSE "top")
  /\ UNCHANGED <<flags, pending, rx, data, uucico, port, modem>>

TxConnect ==
  /\ TxStep("connect", "mark")
  /\ Command("CONNECT")

TxMarkWaiting ==
  /\ TxStep("mark", "top")
  /\ waiting' = TRUE
  /\ UNCHANGED <<connected, clean, active, pending, rx, data, uucico, port, modem>>

ControlTx ==
  \/ TxTop \/ TxDisconnect \/ TxKill
  \/ TxReset("reset", "closed") \/ TxWaitClosed \/ TxReset("reset2", "clear")
  \/ TxClear \/ TxLookConnected \/ TxLookRest \/ TxConnect \/ TxMarkWaiting

-----------------------------------------------------------------------------
(* vara_control_worker_thread_rx: one event of the modem at a time.        *)

RxStep(from, to) == rx = from /\ rx' = to

(* DISCONNECTED: clean_buffers, then connected, then (the led command in   *)
(* between takes its time) waiting_for_connection.                         *)
RxDisconnected ==
  /\ RxStep("read", "down")
  /\ events # <<>> /\ Head(events) = "DISCONNECTED"
  /\ events' = Tail(events)
  /\ clean' = TRUE
  /\ UNCHANGED <<connected, waiting, active, pending, tx, data, uucico, port,
                 link, incoming, commands>>

(* Mutant: a DISCONNECTED that leaves connected set.                       *)
MutantRxDown ==
  /\ RxStep("down", "forget")
  /\ UNCHANGED <<flags, pending, tx, data, uucico, port, modem>>

RxDown ==
  /\ RxStep("down", "forget")
  /\ connected' = FALSE
  /\ UNCHANGED <<waiting, clean, active, pending, tx, data, uucico, port, modem>>

(* CONNECTED: connected, the led, then uucico is called if the connection  *)
(* was not asked for, then waiting_for_connection.                         *)
RxConnected ==
  /\ RxStep("read", "up")
  /\ events # <<>> /\ Head(events) = "CONNECTED"
  /\ events' = Tail(events)
  /\ connected' = TRUE
  /\ UNCHANGED <<waiting, clean, active, pending, tx, data, uucico, port,
                 link, incoming, commands>>

RxCallUucico ==
  /\ RxStep("up", "forget")
  /\ active' = (active \/ ~ waiting)
  /\ UNCHANGED <<connected, waiting, clean, pending, tx, data, uucico, port, modem>>

RxForget ==
  /\ RxStep("forget", "read")
  /\ waiting' = FALSE
  /\ UNCHANGED <<connected, clean, active, pending, tx, data, uucico, port, modem>>

ControlRx == RxDisconnected \/ RxDown \/ RxConnected \/ RxCallUucico \/ RxForget

-----------------------------------------------------------------------------
(* vara_data_worker_thread_tx: it waits for a connection and for bytes,    *)
(* then for bytes alone, and hands a buffer of them to the modem; there    *)
(* may be more than a buffer holds.                                        *)
DataStep(from, to) ==
  /\ data = from /\ data' = to
  /\ UNCHANGED <<flags, tx, rx, uucico, port, modem>>

DataCheck == connected /\ pending /\ DataStep("poll", "take") /\ UNCHANGED pending

(* get_range finds what its caller counted; or the ring was emptied after  *)
(* that, it fails, and the thread is back with nothing taken.              *)
DataTest ==
  /\ \/ pending /\ DataStep("take", "copy")
     \/ DataStep("take", "poll")
  /\ UNCHANGED pending

(* Its copy takes some of the bytes or all of them; where there are none   *)
(* any more it moves tail past head, which leaves a size that is not 0     *)
(* but for a copy of a whole ring.                                         *)
DataCopy == DataStep("copy", "poll") /\ pending' \in BOOLEAN

DataThread == DataCheck \/ DataTest \/ DataCopy

-----------------------------------------------------------------------------
(* uucico_thread.                                                          *)

UucicoStep(from, to) == uucico = from /\ uucico' = to

SessionStart ==
  /\ active
  /\ UucicoStep("wait", "running")
  /\ UNCHANGED <<flags, pending, tx, rx, data, port, modem>>

(* What the child writes goes to in_buffer, also what it wrote before it   *)
(* was killed.                                                             *)
SessionWrite ==
  /\ uucico \in {"running", "killed"}
  /\ pending' = TRUE
  /\ UNCHANGED <<flags, tx, rx, data, uucico, port, modem>>

(* Mutant: uucico_active is cleared before the threads are joined.         *)
MutantSessionEnd ==
  /\ UucicoStep("running", "joined") \/ UucicoStep("killed", "joined")
  /\ active' = FALSE
  /\ UNCHANGED <<connected, waiting, clean, pending, tx, rx, data, port, modem>>

(* The child ends when its work is done or its own timers expire, and when *)
(* it is killed; the thread waits for it and joins the session's threads.  *)
SessionEnd ==
  /\ UucicoStep("running", "joined") \/ UucicoStep("killed", "joined")
  /\ UNCHANGED <<flags, pending, tx, rx, data, port, modem>>

(* Mutant: the thread returns instead of waiting for the next session, as  *)
(* it does when fork() fails.                                              *)
MutantSessionClean ==
  /\ UucicoStep("joined", "returned")
  /\ clean' = TRUE
  /\ UNCHANGED <<connected, waiting, active, pending, tx, rx, data, port, modem>>

SessionClean ==
  /\ UucicoStep("joined", "over")
  /\ clean' = TRUE
  /\ UNCHANGED <<connected, waiting, active, pending, tx, rx, data, port, modem>>

SessionOver ==
  /\ UucicoStep("over", "wait")
  /\ active' = FALSE
  /\ UNCHANGED <<connected, waiting, clean, pending, tx, rx, data, port, modem>>

UucicoThread ==
  SessionStart \/ SessionWrite \/ SessionEnd \/ SessionClean \/ SessionOver

-----------------------------------------------------------------------------
(* uuport, run by a local uucico that wants to call another station.       *)

PortStart ==
  /\ uuport = "none" /\ ports < MaxPorts
  /\ uuport' = "running" /\ portWrite' = "test" /\ ports' = ports + 1
  /\ UNCHANGED <<flags, pending, tx, rx, data, uucico, modem>>

(* Its write_thread looks at clean_buffers and then reads from its uucico, *)
(* which may take any time, and puts what it read.                         *)
PortTest ==
  /\ uuport # "none"
  /\ portWrite = "test" /\ portWrite' = IF clean THEN "over" ELSE "put"
  /\ UNCHANGED <<flags, pending, tx, rx, data, uucico, uuport, ports, modem>>

PortPut ==
  /\ uuport # "none"
  /\ portWrite = "put" /\ portWrite' = "test"
  /\ pending' = TRUE
  /\ UNCHANGED <<flags, tx, rx, data, uucico, uuport, ports, modem>>

(* The end of its input, its 40 s without a connection, or a signal: it    *)
(* always asks for the clean-up before it exits.                           *)
PortEnd ==
  /\ uuport \in {"running", "killed"}
  /\ uuport' = "none" /\ portWrite' = "over"
  /\ clean' = TRUE
  /\ UNCHANGED <<connected, waiting, active, pending, tx, rx, data, uucico, ports,
                 modem>>

-----------------------------------------------------------------------------
(* The modem and the other stations (external).                            *)

Report(event) ==
  /\ Len(events) < MaxUnread
  /\ events' = Append(events, event)

ModemCommand ==
  /\ commands # <<>>
  /\ commands' = Tail(commands)
  /\ CASE Head(commands) = "CONNECT" /\ link = "down" ->
            link' = "calling" /\ UNCHANGED events
       [] Head(commands) = "DISCONNECT" /\ link # "down" ->
            link' = "down" /\ Report("DISCONNECTED")
       [] OTHER -> UNCHANGED <<link, events>>
  /\ UNCHANGED <<flags, pending, tx, rx, data, uucico, port, incoming>>

LinkStep(from, to, event) ==
  /\ link = from /\ link' = to
  /\ Report(event)
  /\ UNCHANGED <<flags, pending, tx, rx, data, uucico, port, commands>>

CallAnswered ==
  /\ LinkStep("calling", "up", "CONNECTED") /\ UNCHANGED incoming

CallFails ==
  LinkStep("calling", "down", "DISCONNECTED") /\ UNCHANGED incoming

HangUp ==
  LinkStep("up", "down", "DISCONNECTED") /\ UNCHANGED incoming

IncomingCall ==
  /\ incoming < MaxIncoming
  /\ incoming' = incoming + 1
  /\ LinkStep("down", "up", "CONNECTED")

Modem == ModemCommand \/ CallAnswered \/ CallFails \/ IncomingCall \/ HangUp

-----------------------------------------------------------------------------
Next ==
  \/ ControlTx \/ ControlRx \/ DataThread \/ UucicoThread
  \/ PortStart \/ PortTest \/ PortPut \/ PortEnd
  \/ Modem

Spec == Init /\ [][Next]_vars

(* The threads of uucpd are never blocked for good, a uucico ends by its   *)
(* own timers if by nothing else, a killed uuport exits, and the modem     *)
(* reads its commands and answers calls.  Nobody is obliged to call, to    *)
(* hang up or to write.                                                    *)
Fairness ==
  /\ WF_vars(ControlTx)
  /\ WF_vars(ControlRx)
  /\ WF_vars(DataThread)
  /\ WF_vars(SessionStart \/ SessionEnd \/ SessionClean \/ SessionOver)
  /\ WF_vars(uuport = "killed" /\ PortEnd)
  /\ WF_vars(ModemCommand) /\ WF_vars(CallAnswered \/ CallFails)

FairSpec == Spec /\ Fairness

(* The same, and every other station hangs up in the end.                  *)
PatientSpec == FairSpec /\ SF_vars(HangUp)

-----------------------------------------------------------------------------
FlagsType ==
  /\ connected \in BOOLEAN /\ waiting \in BOOLEAN /\ clean \in BOOLEAN
  /\ active \in BOOLEAN /\ pending \in BOOLEAN

TypeOK ==
  /\ FlagsType
  /\ tx \in {"top", "disconnect", "kill", "reset", "closed", "reset2", "clear",
             "look", "lookRest", "connect", "mark"}
  /\ rx \in {"read", "down", "up", "forget"}
  /\ data \in {"poll", "take", "copy"}
  /\ uucico \in {"wait", "running", "killed", "joined", "over"}
  /\ uuport \in {"none", "running", "killed"}
  /\ portWrite \in {"test", "put", "over"}
  /\ ports \in 0 .. MaxPorts
  /\ link \in {"down", "calling", "up"} /\ incoming \in 0 .. MaxIncoming
  /\ commands \in Seq({"CONNECT", "DISCONNECT"})
  /\ events \in Seq({"CONNECTED", "DISCONNECTED"})

(* The flag that every thread steers by is the state of the link, as far   *)
(* as it has been read: with no event unread or in hand, connected says    *)
(* whether the link is up.                                                 *)
ConnectedFollowsLink ==
  events = <<>> /\ rx # "down" => (connected <=> link = "up")

(* uucico_active is cleared last: without it no session is left running    *)
(* whose threads could meet the pipes of the next one, whoever calls while *)
(* it ends.                                                                *)
NoSessionWhenInactive == ~ active => uucico = "wait"

(* While the control thread waits for the end of the connection or cleans  *)
(* up after it, the request stands: uuport's write_thread, which looks at  *)
(* it, is not let in before the buffers are empty.                         *)
CleanUpStands ==
  tx \in {"disconnect", "kill", "reset", "closed", "reset2", "clear"} => clean

(* A clean-up that was asked for is done in the end, even when its         *)
(* DISCONNECT is lost on a link that is just going down or coming up,      *)
(* provided that other stations hang up.                                   *)
CleanUpEnds == clean ~> ~ clean

=============================================================================
