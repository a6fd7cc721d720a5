------------------------------ MODULE ModemData ------------------------------
(***************************************************************************)
(* The data path of uucpd to its modem, VARA or ARDOP (vara.c, ardop.c):   *)
(* the data thread that hands chunks of in_buffer to the modem while the   *)
(* modem has room, the control thread that reads the modem's reports and   *)
(* keeps the counts of bytes, and the clean-up of the other control        *)
(* thread, which empties the rings between two connections.  VaraSession   *)
(* models how connections and sessions come and go; here a link comes up   *)
(* and goes down as it likes.                                              *)
(*                                                                         *)
(* The modem is external: it counts the bytes in its buffer, transmits     *)
(* them while the link is up, forgets them when it goes down, and reports  *)
(* on the control socket.  VARA reports its buffer on every change, ARDOP  *)
(* when it is asked.  What either does with bytes written while the link   *)
(* is down is not known from this code: it keeps or drops them.            *)
(***************************************************************************)
EXTENDS Integers, Sequences, SequencesExt

CONSTANTS
  Modems,        \* the modem_type this runs with: "vara", "ardop"
  MaxBuffer,     \* MAX_VARA_BUFFER, MAX_ARDOP_BUFFER
  Capacity,      \* of in_buffer (INTERNAL_BUFFER_SIZE)
  BufferSize,    \* BUFFER_SIZE, the largest chunk
  MaxPacket,     \* MAX_ARDOP_PACKET
  MaxEvents,     \* bound: bytes put into in_buffer, connections, and sessions
                 \* that end and ask for a clean-up, all together
  MaxUnread      \* bound, for each modem: unread reports beyond which it waits

ASSUME DataAssumption ==
  /\ Modems \subseteq {"vara", "ardop"}
  /\ BufferSize \in Nat \ {0} /\ MaxPacket \in Nat \ {0} /\ MaxBuffer \in Nat
  /\ BufferSize <= MaxBuffer /\ Capacity \in Nat /\ BufferSize <= Capacity
  /\ MaxEvents \in Nat /\ MaxUnread \in [Modems -> Nat]

VARIABLES
  modem_type,
  connected, clean_buffers, buffer_size,   \* these and the
  bytes_transmitted, bytes_buffered_tx,    \* next three: of rhizo_conn
  in_buffer,   \* for each byte, how often connected had fallen when it was put
  dtx,         \* the data thread to the modem: place, bytes of its chunk still
               \* to be written, and packet_size
  crx,         \* the reading control thread: place and report
  ctx,         \* where the writing control thread is
  modem,       \* [link, buffer, sent, hangup, asked]: the link is up; bytes held;
               \* bytes transmitted on this link (VARA); told to end it; asked
               \* for BUFFER
  reports,     \* control socket, from the modem
  torn,        \* history: in_buffer has a false size since its last reset
  falls,       \* history: how often connected was cleared
  \* history, the first three with VARA only
  handed,      \* bytes written to the modem that this connection is to count
  raced,       \* a chunk was counted, or buffer_size cleared, amid a report
  crossed,     \* a report and a chunk passed one another, or bytes were on the
               \* next link before the counts of the last one were cleared
  hurried,     \* history: connected was set while a clean-up was asked for
  forgot,      \* history: what the data thread last took for room may rest on
               \* a buffer_size that was cleared while the modem held bytes
  events       \* history: for the bound

counts == <<bytes_transmitted, bytes_buffered_tx>>
shared == <<modem_type, connected, clean_buffers, buffer_size>>
threads == <<dtx, crx, ctx>>
ring == <<in_buffer, torn>>
accounts == <<falls, handed, raced, crossed, hurried, forgot>>
vars == <<shared, counts, ring, threads, modem, reports, accounts, events>>

Buffer(n) == <<"BUFFER", n>>
Connected == <<"CONNECTED", 0>>
Disconnected == <<"DISCONNECTED", 0>>
NoReport == <<"none", 0>>

Vara == modem_type = "vara"
Smaller(a, b) == IF a < b THEN a ELSE b

(* What circular_buf_get_range's copy leaves: it does not look at the size *)
(* again, and where a reset has left less than n bytes, tail passes head   *)
(* and all that lies from there on counts, bytes of whatever connection.   *)
Stale == -1
Retreated(q, n) ==
  IF n <= Len(q) THEN SubSeq(q, n + 1, Len(q))
  ELSE [i \in 1 .. Capacity - n |-> Stale] \o q

Init ==
  /\ modem_type \in Modems
  /\ connected = FALSE /\ clean_buffers = FALSE /\ buffer_size = 0
  /\ bytes_transmitted = 0 /\ bytes_buffered_tx = 0
  /\ in_buffer = <<>> /\ torn = FALSE
  /\ dtx = [pc |-> "look", chunk |-> 0, packet_size |-> 0]
  /\ crx = [pc |-> "read", report |-> NoReport]
  /\ ctx = "look"
  /\ modem = [link |-> FALSE, buffer |-> 0, sent |-> 0, hangup |-> FALSE, asked |-> FALSE]
  /\ reports = <<>>
  /\ falls = 0 /\ handed = 0
  /\ raced = FALSE /\ crossed = FALSE /\ hurried = FALSE /\ forgot = FALSE
  /\ events = 0

-----------------------------------------------------------------------------
(* uucico or uuport puts a byte, when there is room; a session or uuport   *)
(* ends and asks for a clean-up, whatever the link is like.                *)
Event == events < MaxEvents /\ events' = events + 1

Put ==
  /\ Event
  /\ Len(in_buffer) < Capacity
  /\ in_buffer' = Append(in_buffer, falls)
  /\ UNCHANGED <<torn, shared, counts, threads, modem, reports, accounts>>

SessionEnd ==
  /\ Event
  /\ clean_buffers' = TRUE
  /\ UNCHANGED <<modem_type, connected, buffer_size, counts, ring, threads, modem,
                 reports, accounts>>

-----------------------------------------------------------------------------
(* vara_data_worker_thread_tx, ardop_data_worker_thread_tx.                *)
DtxGoto(pc) == dtx' = [dtx EXCEPT !.pc = pc]

DtxLook ==
  /\ dtx.pc = "look" /\ connected /\ in_buffer # <<>>
  /\ DtxGoto("take")
  /\ UNCHANGED <<shared, counts, ring, crx, ctx, modem, reports, accounts, events>>

(* It does not look at connected again, however long it waits for bytes.   *)
DtxTake ==
  /\ dtx.pc = "take" /\ in_buffer # <<>>
  /\ dtx' = [dtx EXCEPT !.pc = "test", !.packet_size = Smaller(Len(in_buffer), BufferSize)]
  /\ UNCHANGED <<shared, counts, ring, crx, ctx, modem, reports, accounts, events>>

(* get_range's test.  Where it fails, what the private buffer held before  *)
(* goes out once more.                                                     *)
DtxTest ==
  /\ dtx.pc = "test"
  /\ dtx' = IF Len(in_buffer) >= dtx.packet_size THEN [dtx EXCEPT !.pc = "copy"]
            ELSE [dtx EXCEPT !.pc = "room", !.chunk = dtx.packet_size]
  /\ UNCHANGED <<shared, counts, ring, crx, ctx, modem, reports, accounts, events>>

DtxCopy ==
  /\ dtx.pc = "copy"
  /\ dtx' = [dtx EXCEPT !.pc = "room", !.chunk = dtx.packet_size]
  /\ in_buffer' = Retreated(in_buffer, dtx.packet_size)
  /\ torn' = (torn \/ dtx.packet_size > Len(in_buffer))
  /\ UNCHANGED <<shared, counts, crx, ctx, modem, reports, accounts, events>>

MutantDtxRoom ==
  /\ dtx.pc = "room" /\ buffer_size <= MaxBuffer
  /\ DtxGoto("write")
  /\ UNCHANGED <<shared, counts, ring, crx, ctx, modem, reports, accounts, events>>

DtxRoom ==
  /\ dtx.pc = "room" /\ buffer_size + dtx.packet_size <= MaxBuffer
  /\ DtxGoto("write")
  /\ UNCHANGED <<shared, counts, ring, crx, ctx, modem, reports, accounts, events>>

IsBuffer(r) == r[1] = "BUFFER"
ReportUnderWay ==
  (\E i \in DOMAIN reports : IsBuffer(reports[i])) \/ (crx.pc # "read" /\ IsBuffer(crx.report))

(* The chunk, or with ARDOP its next packet.                               *)
DtxWrite ==
  LET n == IF Vara THEN dtx.chunk ELSE Smaller(dtx.chunk, MaxPacket)
  IN
  /\ dtx.pc = "write"
  /\ \E kept \in BOOLEAN :
       /\ modem.link => kept
       /\ modem' = [modem EXCEPT !.buffer = IF kept THEN @ + n ELSE @]
  /\ reports' = IF Vara /\ modem' # modem THEN Append(reports, Buffer(modem'.buffer))
                ELSE reports
  /\ dtx' = [dtx EXCEPT !.pc = IF Vara THEN "count" ELSE "sleep",
                        !.chunk = @ - n]
  /\ handed' = IF Vara THEN handed + n ELSE handed
  /\ crossed' = (crossed \/ (Vara /\ (ReportUnderWay \/ ~ modem.link)))
  /\ UNCHANGED <<shared, counts, ring, crx, ctx, falls, raced, hurried, forgot,
                 events>>

(* Written, and not in bytes_buffered_tx yet.                              *)
Uncounted == IF dtx.pc = "count" THEN dtx.packet_size ELSE 0

DtxCount ==
  /\ dtx.pc = "count"
  /\ bytes_buffered_tx' = bytes_buffered_tx + dtx.packet_size
  /\ DtxGoto("sleep")
  /\ raced' = (raced \/ crx.pc = "settle")
  /\ UNCHANGED <<shared, bytes_transmitted, ring, crx, ctx,
                 modem, reports, falls, handed, crossed, hurried, forgot, events>>

(* "buffer management hack": a second is enough for VARA's report of the   *)
(* chunk to come and be read; ARDOP may not even have been asked.          *)
DtxSleep ==
  /\ dtx.pc = "sleep" /\ (Vara => ~ ReportUnderWay)
  /\ dtx' = IF dtx.chunk = 0 THEN [dtx EXCEPT !.pc = "look", !.packet_size = 0]
            ELSE [dtx EXCEPT !.pc = "room"]
  /\ UNCHANGED <<shared, counts, ring, crx, ctx, modem, reports, accounts, events>>

DataTx ==
  DtxLook \/ DtxTake \/ DtxTest \/ DtxCopy \/ DtxRoom \/ DtxWrite \/ DtxCount \/ DtxSleep

-----------------------------------------------------------------------------
(* The control thread that reads: vara_control_worker_thread_rx or         *)
(* ardop_control_worker_thread_rx.                                         *)
CrxGoto(from, to) ==
  /\ crx.pc = from
  /\ crx' = [crx EXCEPT !.pc = to, !.report = IF to = "read" THEN NoReport ELSE @]

CrxRead ==
  /\ crx.pc = "read" /\ reports # <<>>
  /\ reports' = Tail(reports)
  /\ crx' = [pc |-> "act", report |-> Head(reports)]
  /\ UNCHANGED <<shared, counts, ring, dtx, ctx, modem, accounts, events>>

CrxConnected ==
  /\ crx.report = Connected /\ CrxGoto("act", "read")
  /\ connected' = TRUE
  /\ hurried' = (hurried \/ clean_buffers \/ ctx # "look")
  /\ UNCHANGED <<modem_type, clean_buffers, buffer_size, counts, ring, dtx, ctx,
                 modem, reports, falls, handed, raced, crossed, forgot, events>>

(* DISCONNECTED.  The VARA driver clears its counts, one by one.           *)
CrxZero ==
  /\ crx.report = Disconnected /\ CrxGoto("act", IF Vara THEN "zero" ELSE "fall")
  /\ bytes_transmitted' = IF Vara THEN 0 ELSE bytes_transmitted
  /\ UNCHANGED <<shared, bytes_buffered_tx, ring, dtx, ctx, modem, reports, accounts,
                 events>>

MutantCrxZeroBuffered ==
  /\ CrxGoto("zero", "fall")
  /\ handed' = Uncounted
  /\ raced' = FALSE
  /\ crossed' = (dtx.pc = "count" \/ modem.buffer # 0 \/ (modem.link /\ modem.sent # 0))
  /\ UNCHANGED <<shared, counts, ring, dtx, ctx, modem,
                 reports, falls, hurried, forgot, events>>

(* What was written and not counted yet will be counted for the next link; *)
(* what is on the next link already will not be.                           *)
CrxZeroBuffered ==
  /\ CrxGoto("zero", "fall")
  /\ bytes_buffered_tx' = 0
  /\ handed' = Uncounted
  /\ raced' = FALSE
  /\ crossed' = (dtx.pc = "count" \/ modem.buffer # 0 \/ (modem.link /\ modem.sent # 0))
  /\ UNCHANGED <<shared, bytes_transmitted, ring, dtx, ctx, modem,
                 reports, falls, hurried, forgot, events>>

(* The clean-up is asked for before connected falls.                       *)
CrxFall ==
  /\ CrxGoto("fall", "down")
  /\ clean_buffers' = TRUE
  /\ UNCHANGED <<modem_type, connected, buffer_size, counts, ring, dtx, ctx, modem, reports,
                 accounts, events>>

(* The request was lost when a clean-up under way has dropped it or will.  *)
CrxDown ==
  /\ CrxGoto("down", "read")
  /\ connected' = FALSE
  /\ falls' = IF connected THEN falls + 1 ELSE falls
  /\ hurried' = (hurried /\ (ctx = "clean" \/ (ctx \in {"look", "forget"} /\ ~ clean_buffers)))
  /\ UNCHANGED <<modem_type, clean_buffers, buffer_size, counts, ring, dtx, ctx, modem,
                 reports, handed, raced, crossed, forgot, events>>

(* BUFFER: the report is stored, compared, and what has gone out since the *)
(* last one is moved from one count to the other.                          *)
CrxBuffer ==
  /\ IsBuffer(crx.report) /\ CrxGoto("act", IF Vara THEN "compare" ELSE "read")
  /\ buffer_size' = crx.report[2]
  /\ forgot' = (forgot /\ dtx.pc = "write")
  /\ UNCHANGED <<modem_type, connected, clean_buffers, counts, ring, dtx, ctx, modem,
                 reports, falls, handed, raced, crossed, hurried, events>>

MutantCrxCompare ==
  /\ crx.pc = "compare"
  /\ bytes_transmitted' = bytes_transmitted + bytes_buffered_tx - buffer_size
  /\ CrxGoto("compare", "settle")
  /\ crossed' = (crossed \/ dtx.pc = "count")
  /\ UNCHANGED <<shared, bytes_buffered_tx, ring, dtx, ctx,
                 modem, reports, falls, handed, raced, hurried, forgot, events>>

CrxCompare ==
  /\ crx.pc = "compare"
  /\ IF buffer_size = 0 \/ buffer_size < bytes_buffered_tx
     THEN /\ bytes_transmitted' = bytes_transmitted + bytes_buffered_tx - buffer_size
          /\ CrxGoto("compare", "settle")
     ELSE /\ CrxGoto("compare", "read")
          /\ UNCHANGED bytes_transmitted
  /\ crossed' = (crossed \/ dtx.pc = "count")
  /\ UNCHANGED <<shared, bytes_buffered_tx, ring, dtx, ctx,
                 modem, reports, falls, handed, raced, hurried, forgot, events>>

MutantCrxSettle ==
  /\ CrxGoto("settle", "read")
  /\ bytes_buffered_tx' = 0
  /\ UNCHANGED <<shared, bytes_transmitted, ring, dtx, ctx,
                 modem, reports, accounts, events>>

CrxSettle ==
  /\ CrxGoto("settle", "read")
  /\ bytes_buffered_tx' = buffer_size
  /\ UNCHANGED <<shared, bytes_transmitted, ring, dtx, ctx,
                 modem, reports, accounts, events>>

ControlRx ==
  \/ CrxRead \/ CrxConnected \/ CrxZero \/ CrxZeroBuffered \/ CrxFall \/ CrxDown
  \/ CrxBuffer \/ CrxCompare \/ CrxSettle

-----------------------------------------------------------------------------
(* The control thread that writes: the clean-up.                           *)
CtxLook ==
  /\ ctx = "look" /\ clean_buffers
  /\ ctx' = IF connected THEN "hangup" ELSE "reset"
  /\ UNCHANGED <<shared, counts, ring, dtx, crx, modem, reports, accounts, events>>

(* DISCONNECT, a second later.                                             *)
CtxHangUp ==
  /\ ctx = "hangup" /\ ctx' = "reset"
  /\ modem' = [modem EXCEPT !.hangup = modem.link]
  /\ UNCHANGED <<shared, counts, ring, dtx, crx, reports, accounts, events>>

(* ARDOP is asked for its buffer now and then.                             *)
CtxAsk ==
  /\ ctx = "look" /\ ~ Vara /\ connected /\ ~ modem.asked
  /\ modem' = [modem EXCEPT !.asked = TRUE]
  /\ UNCHANGED <<shared, counts, ring, threads, reports, accounts, events>>

MutantReset(from, to) ==
  /\ ctx = from /\ ctx' = to
  /\ in_buffer' = IF from = "reset" THEN <<>> ELSE in_buffer
  /\ torn' = (torn /\ from # "reset")
  /\ UNCHANGED <<shared, counts, dtx, crx, modem, reports, accounts, events>>

Reset(from, to) ==
  /\ ctx = from /\ ctx' = to
  /\ in_buffer' = <<>> /\ torn' = FALSE
  /\ UNCHANGED <<shared, counts, dtx, crx, modem, reports, accounts, events>>

CtxWait ==
  /\ ctx = "wait" /\ ~ connected
  /\ ctx' = "resetAgain"
  /\ UNCHANGED <<shared, counts, ring, dtx, crx, modem, reports, accounts, events>>

(* ARDOP is told to forget what it holds.                                  *)
CtxClean ==
  /\ ctx = "clean" /\ ctx' = IF Vara THEN "forget" ELSE "look"
  /\ clean_buffers' = FALSE
  /\ modem' = IF Vara THEN modem ELSE [modem EXCEPT !.buffer = 0]
  /\ UNCHANGED <<modem_type, connected, buffer_size, counts, ring, dtx, crx, reports,
                 accounts, events>>

MutantCtxForget ==
  /\ ctx = "forget" /\ ctx' = "look"
  /\ UNCHANGED <<shared, counts, ring, dtx, crx, modem, reports, accounts, events>>

CtxForget ==
  /\ ctx = "forget" /\ ctx' = "look"
  /\ buffer_size' = 0
  /\ forgot' = (modem.buffer > 0)
  /\ raced' = (raced \/ crx.pc \in {"compare", "settle"})
  /\ UNCHANGED <<modem_type, connected, clean_buffers, counts, ring, dtx, crx, modem,
                 reports, falls, handed, crossed, hurried, events>>

ControlTx ==
  \/ CtxLook \/ CtxAsk \/ CtxHangUp
  \/ Reset("reset", "wait") \/ CtxWait \/ Reset("resetAgain", "clean")
  \/ CtxClean \/ CtxForget

-----------------------------------------------------------------------------
(* The modem.                                                              *)
Quiet == UNCHANGED <<shared, counts, ring, threads, accounts>>

LinkUp ==
  /\ ~ modem.link /\ Event /\ Len(reports) < MaxUnread[modem_type]
  /\ modem' = [modem EXCEPT !.link = TRUE, !.sent = 0, !.hangup = FALSE]
  /\ reports' = Append(reports, Connected)
  /\ Quiet

(* ARDOP says it twice, as DISCONNECTED and as NEWSTATE DISC.              *)
LinkDown ==
  /\ modem.link /\ Len(reports) < MaxUnread[modem_type]
  /\ modem' = [modem EXCEPT !.link = FALSE, !.buffer = 0, !.sent = 0, !.hangup = FALSE]
  /\ reports' = reports \o (IF Vara THEN <<Disconnected>> ELSE <<Disconnected, Disconnected>>)
  /\ Quiet /\ UNCHANGED events

Transmit ==
  /\ modem.link /\ modem.buffer > 0 /\ (Vara => Len(reports) < MaxUnread[modem_type])
  /\ \E n \in 1 .. modem.buffer :
       modem' = [modem EXCEPT !.buffer = @ - n, !.sent = IF Vara THEN @ + n ELSE @]
  /\ reports' = IF Vara THEN Append(reports, Buffer(modem'.buffer)) ELSE reports
  /\ Quiet /\ UNCHANGED events

Answer ==
  /\ modem.asked /\ Len(reports) < MaxUnread[modem_type]
  /\ modem' = [modem EXCEPT !.asked = FALSE]
  /\ reports' = Append(reports, Buffer(modem.buffer))
  /\ Quiet /\ UNCHANGED events

-----------------------------------------------------------------------------
Next ==
  \/ Put \/ SessionEnd
  \/ DataTx \/ ControlRx \/ ControlTx
  \/ LinkUp \/ LinkDown \/ Transmit \/ Answer

Spec == Init /\ [][Next]_vars

(* The threads keep running; the modem transmits what it holds while the   *)
(* link is up, ends the link when told to and answers.  It need not make a *)
(* connection nor end one by itself.                                       *)
Fairness ==
  /\ WF_vars(DataTx) /\ WF_vars(ControlRx) /\ WF_vars(ControlTx)
  /\ WF_vars(Transmit) /\ WF_vars(Answer) /\ WF_vars(modem.hangup /\ LinkDown)

FairSpec == Spec /\ Fairness

-----------------------------------------------------------------------------
Tags == Seq(Stale .. falls)
Words == {"BUFFER", "CONNECTED", "DISCONNECTED", "none"} \X Nat

(* Types; a chunk at hand is neither empty nor larger than packet_size.    *)
TypeOK ==
  /\ modem_type \in Modems
  /\ {connected, clean_buffers, torn, raced, crossed, hurried, forgot} \subseteq BOOLEAN
  /\ {buffer_size, bytes_transmitted, bytes_buffered_tx, falls, handed} \subseteq Nat
  /\ in_buffer \in Tags /\ Len(in_buffer) <= Capacity
  /\ dtx \in [pc : {"look", "take", "test", "copy", "room", "write", "count", "sleep"},
              chunk : Nat, packet_size : 0 .. BufferSize]
  /\ dtx.chunk <= dtx.packet_size
  /\ dtx.pc \in {"look", "take", "test", "copy"} => dtx.chunk = 0
  /\ dtx.pc \in {"test", "copy"} => dtx.packet_size # 0
  /\ dtx.pc \in {"room", "write"} => dtx.chunk # 0
  /\ crx \in [pc : {"read", "act", "zero", "fall", "down", "compare", "settle"},
              report : Words]
  /\ ctx \in {"look", "hangup", "reset", "wait", "resetAgain", "clean", "forget"}
  /\ modem \in [link : BOOLEAN, buffer : Nat, sent : Nat, hangup : BOOLEAN, asked : BOOLEAN]
  /\ reports \in Seq(Words)

(* What the VARA driver says was transmitted and what it says is still in  *)
(* the modem's buffer are together what it wrote: never more, although the *)
(* data thread adds in the middle of a report, and never less unless it    *)
(* did.  A chunk written for a link that was just reported down counts for *)
(* the next one.                                                           *)
Counted ==
  LET total == bytes_transmitted + bytes_buffered_tx + Uncounted IN
  Vara /\ crx.pc \notin {"settle", "zero"} =>
    total <= handed /\ (total = handed \/ raced)

(* Once every report has been read, what is called transmitted was         *)
(* transmitted on this link and what is called buffered is in the modem,   *)
(* unless a report and a chunk had passed one another, or bytes were on    *)
(* this link before the counts of the last one were cleared.               *)
CountsAreTrue ==
  Vara /\ connected /\ modem.link /\ reports = <<>> /\ crx.pc = "read" /\ dtx.pc # "count" =>
    \/ (bytes_transmitted = modem.sent /\ bytes_buffered_tx = modem.buffer)
    \/ raced \/ crossed

(* The modem is never given more than it takes, unless the end of a        *)
(* clean-up cleared buffer_size under a connection that is already there.  *)
NotOverfilled ==
  [][Vara /\ modem'.buffer > modem.buffer => (modem'.buffer <= MaxBuffer \/ forgot)]_vars

(* Two resets are there so that what is put between them, while the link   *)
(* is still being ended, is emptied too: when the clean-up is over, no     *)
(* byte of an earlier connection is left, whoever asks for clean-ups and   *)
(* whenever.  There are two exceptions: a connection that comes up while a *)
(* clean-up is asked for, whose end that clean-up may take for done, and a *)
(* ring that was reset between the test and the copy of a get_range, until *)
(* it is reset again.                                                      *)
OldBytesEmptied ==
  (ctx = "look" /\ ~ clean_buffers /\ ~ hurried /\ ~ torn) =>
    \A i \in DOMAIN in_buffer : in_buffer[i] = falls

(* A chunk for which the modem has no room goes out while the link stays.  *)
ChunkGoesOut == []<>(dtx.chunk = 0 \/ ~ connected \/ hurried)

=============================================================================
