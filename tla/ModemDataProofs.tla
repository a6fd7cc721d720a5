-------------------------- MODULE ModemDataProofs --------------------------
(* Theorems about the data path to the modem, for VARA and for ARDOP, for  *)
(* every size of buffer, chunk and packet, and for any number of bytes,    *)
(* connections, sessions and unread reports.                               *)
EXTENDS ModemData, TLAPS

-----------------------------------------------------------------------------
(* The inductive invariants.                                               *)

(* The counts inside a report: what was moved to bytes_transmitted is      *)
(* still in bytes_buffered_tx as well, and will be what buffer_size says.  *)
Accounts ==
  /\ Vara /\ dtx.pc \in {"room", "write"} => dtx.chunk = dtx.packet_size
  /\ Vara /\ dtx.pc \in {"count", "sleep"} => dtx.chunk = 0
  /\ Counted
  /\ Vara /\ crx.pc = "settle" =>
       LET total == bytes_transmitted + buffer_size + Uncounted
       IN  total <= handed /\ (total = handed \/ raced)
  /\ crx.pc = "zero" => bytes_transmitted = 0
  /\ crx.pc \in {"zero", "compare", "settle"} => Vara

(* Once the clean-up has emptied in_buffer for the second time, only bytes *)
(* of the time after the fall are put, for connected stays clear.  Where   *)
(* connected is about to be cleared, a clean-up is asked for that cannot   *)
(* end before.                                                             *)
Fresh == \A i \in DOMAIN in_buffer : in_buffer[i] = falls

Emptied ==
  ~ hurried =>
    /\ ctx \in {"look", "forget"} /\ ~ clean_buffers /\ ~ torn => Fresh
    /\ ctx = "clean" /\ ~ torn => Fresh
    /\ ctx \in {"resetAgain", "clean", "forget"} => ~ connected
    /\ crx.pc = "down" /\ connected => clean_buffers

(* What the control thread knows, or is about to read, of the buffer of    *)
(* VARA.  The newest report says at least what is there; but for the chunk *)
(* just written, all of them do.                                           *)
InHand == crx.pc = "act" /\ IsBuffer(crx.report)
Enough(n) == n >= modem.buffer

NewestEnough ==
  \/ \E i \in DOMAIN reports :
       /\ IsBuffer(reports[i])
       /\ \A j \in DOMAIN reports : j >= i /\ IsBuffer(reports[j]) => Enough(reports[j][2])
  \/ /\ \A i \in DOMAIN reports : ~ IsBuffer(reports[i])
     /\ IF InHand THEN Enough(crx.report[2]) ELSE Enough(buffer_size) \/ forgot

AllEnough ==
  /\ \A i \in DOMAIN reports : IsBuffer(reports[i]) => Enough(reports[i][2])
  /\ InHand => Enough(crx.report[2])
  /\ Enough(buffer_size) \/ forgot

Roomy ==
  Vara =>
    /\ dtx.pc \in {"count", "sleep"} => NewestEnough
    /\ dtx.pc \notin {"count", "sleep"} => AllEnough
    /\ dtx.pc = "write" => modem.buffer + dtx.packet_size <= MaxBuffer \/ forgot

IInv == TypeOK /\ Accounts /\ Emptied /\ Roomy
-----------------------------------------------------------------------------
(* Sequences.                                                              *)
LEMMA SeqLarger ==
  ASSUME NEW S, NEW T, S \subseteq T, NEW s \in Seq(S)
  PROVE  s \in Seq(T)
OBVIOUS

LEMMA TailTypes ==
  ASSUME NEW S, NEW s \in Seq(S), s # <<>>
  PROVE  /\ Tail(s) \in Seq(S) /\ Head(s) \in S
         /\ Len(Tail(s)) = Len(s) - 1 /\ Head(s) = s[1]
         /\ \A i \in 1 .. Len(s) - 1 : Tail(s)[i] = s[i + 1]
OBVIOUS

LEMMA AppendTypes ==
  ASSUME NEW S, NEW s \in Seq(S), NEW e \in S
  PROVE  /\ Append(s, e) \in Seq(S) /\ Len(Append(s, e)) = Len(s) + 1
         /\ Append(s, e)[Len(s) + 1] = e
         /\ \A i \in 1 .. Len(s) : Append(s, e)[i] = s[i]
OBVIOUS

-----------------------------------------------------------------------------
LEMMA LengthTypes ==
  ASSUME NEW S, NEW s \in Seq(S)
  PROVE  Len(s) \in Nat /\ (s # <<>> <=> Len(s) > 0)
OBVIOUS

LEMMA RestTypes ==
  ASSUME NEW S, NEW s \in Seq(S), NEW n \in Nat, n <= Len(s)
  PROVE  /\ SubSeq(s, n + 1, Len(s)) \in Seq(S)
         /\ Len(SubSeq(s, n + 1, Len(s))) = Len(s) - n
         /\ \A i \in 1 .. Len(s) - n : SubSeq(s, n + 1, Len(s))[i] = s[n + i]
<1>1. Len(s) \in Nat
  OBVIOUS
<1>. QED BY <1>1

(* What a copy of n bytes leaves in in_buffer: the rest, or a false size.  *)
LEMMA RetreatedTypes ==
  ASSUME DataAssumption, TypeOK, NEW n \in 0 .. BufferSize
  PROVE  /\ Retreated(in_buffer, n) \in Tags /\ Len(Retreated(in_buffer, n)) <= Capacity
         /\ n <= Len(in_buffer) =>
              /\ DOMAIN Retreated(in_buffer, n) = 1 .. Len(in_buffer) - n
              /\ \A i \in 1 .. Len(in_buffer) - n :
                   /\ n + i \in 1 .. Len(in_buffer)
                   /\ Retreated(in_buffer, n)[i] = in_buffer[n + i]
<1>1. /\ in_buffer \in Seq(Stale .. falls) /\ Len(in_buffer) \in Nat
      /\ Len(in_buffer) <= Capacity /\ Capacity \in Nat /\ BufferSize \in Nat
      /\ BufferSize <= Capacity /\ falls \in Nat /\ n \in Nat
  BY DEF DataAssumption, TypeOK, Tags
<1>2. CASE n <= Len(in_buffer)
  <2>1. Retreated(in_buffer, n) = SubSeq(in_buffer, n + 1, Len(in_buffer))
    BY <1>2 DEF Retreated
  <2>2. /\ SubSeq(in_buffer, n + 1, Len(in_buffer)) \in Seq(Stale .. falls)
        /\ Len(SubSeq(in_buffer, n + 1, Len(in_buffer))) = Len(in_buffer) - n
        /\ \A i \in 1 .. Len(in_buffer) - n :
             SubSeq(in_buffer, n + 1, Len(in_buffer))[i] = in_buffer[n + i]
    BY <1>1, <1>2, RestTypes
  <2>3. \A i \in 1 .. Len(in_buffer) - n : n + i \in 1 .. Len(in_buffer)
    BY <1>1, <1>2
  <2>4. DOMAIN SubSeq(in_buffer, n + 1, Len(in_buffer)) = 1 .. Len(in_buffer) - n
    BY <2>2
  <2>5. Len(in_buffer) - n <= Capacity
    BY <1>1, <1>2
  <2>. QED BY <2>1, <2>2, <2>3, <2>4, <2>5 DEF Tags
<1>3. CASE n > Len(in_buffer)
  <2> DEFINE s == [i \in 1 .. Capacity - n |-> Stale]
  <2>1. Retreated(in_buffer, n) = s \o in_buffer
    BY <1>1, <1>3 DEF Retreated
  <2>2. Capacity - n \in Nat /\ Stale \in Stale .. falls
    BY <1>1 DEF Stale
  <2>3. s \in Seq(Stale .. falls) /\ Len(s) = Capacity - n
    BY <2>2
  <2>4. s \o in_buffer \in Seq(Stale .. falls) /\ Len(s \o in_buffer) = Len(s) + Len(in_buffer)
    BY <1>1, <2>3
  <2>5. Capacity - n + Len(in_buffer) <= Capacity
    BY <1>1, <1>3
  <2> HIDE DEF s
  <2>. QED BY <1>1, <1>3, <2>1, <2>3, <2>4, <2>5 DEF Tags
<1>. QED BY <1>1, <1>2, <1>3

Places == {"look", "take", "test", "copy", "room", "write", "count", "sleep"}
Chunks == [pc : Places, chunk : Nat, packet_size : 0 .. BufferSize]

(* What TypeOK says of the data thread.                                    *)
DtxOK ==
  /\ dtx \in Chunks /\ dtx.chunk <= dtx.packet_size
  /\ dtx.pc \in {"look", "take", "test", "copy"} => dtx.chunk = 0
  /\ dtx.pc \in {"test", "copy"} => dtx.packet_size # 0
  /\ dtx.pc \in {"room", "write"} => dtx.chunk # 0

LEMMA DtxTypes ==
  ASSUME TypeOK
  PROVE  /\ DtxOK /\ dtx \in Chunks /\ dtx.pc \in Places /\ dtx.chunk \in Nat
         /\ dtx.packet_size \in 0 .. BufferSize /\ dtx.chunk <= dtx.packet_size
BY DEF TypeOK, DtxOK, Chunks, Places

LEMMA DtxSteps == TypeOK /\ DataTx => DtxOK'
<1> SUFFICES ASSUME TypeOK, DataTx PROVE DtxOK'
  OBVIOUS
<1> USE DataAssumption
<1>1. CASE DtxLook
  <2>1. /\ dtx' \in Chunks /\ dtx'.pc = "take" /\ dtx.pc = "look"
        /\ dtx'.chunk = dtx.chunk /\ dtx'.packet_size = dtx.packet_size
    BY <1>1, DtxTypes DEF DtxLook, DtxGoto, Chunks, Places
  <2>. QED BY <2>1, DtxTypes DEF DtxOK
<1>2. CASE DtxTake
  <2> DEFINE n == Smaller(Len(in_buffer), BufferSize)
  <2>1. /\ in_buffer \in Seq(Stale .. falls) /\ in_buffer # <<>>
        /\ dtx.pc = "take" /\ dtx' = [dtx EXCEPT !.pc = "test", !.packet_size = n]
    BY <1>2 DEF DtxTake, TypeOK, Tags
  <2>2. n \in Nat /\ n > 0 /\ n \in 0 .. BufferSize
    BY <2>1, LengthTypes DEF Smaller
  <2> HIDE DEF n
  <2>3. /\ dtx' \in Chunks /\ dtx'.pc = "test"
        /\ dtx'.chunk = dtx.chunk /\ dtx'.packet_size = n
    BY <2>1, <2>2, DtxTypes DEF Chunks, Places
  <2>. QED BY <2>1, <2>2, <2>3, DtxTypes DEF DtxOK
<1>3. CASE DtxTest \/ DtxCopy
  <2>1. /\ dtx.pc \in {"test", "copy"}
        /\ \/ dtx' = [dtx EXCEPT !.pc = "copy"]
           \/ dtx' = [dtx EXCEPT !.pc = "room", !.chunk = dtx.packet_size]
    BY <1>3 DEF DtxTest, DtxCopy
  <2>2. CASE dtx' = [dtx EXCEPT !.pc = "copy"]
    <3>1. /\ dtx' \in Chunks /\ dtx'.packet_size = dtx.packet_size
          /\ dtx'.pc = "copy" /\ dtx'.chunk = dtx.chunk
      BY <2>2, DtxTypes DEF Chunks, Places
    <3>. QED BY <2>1, <3>1, DtxTypes DEF DtxOK
  <2>3. CASE dtx' = [dtx EXCEPT !.pc = "room", !.chunk = dtx.packet_size]
    <3>1. dtx.packet_size \in Nat
      BY DtxTypes
    <3>2. /\ dtx' \in Chunks /\ dtx'.packet_size = dtx.packet_size
          /\ dtx'.pc = "room" /\ dtx'.chunk = dtx.packet_size
      BY <2>3, <3>1, DtxTypes DEF Chunks, Places
    <3>. QED BY <2>1, <3>1, <3>2, DtxTypes DEF DtxOK
  <2>. QED BY <2>1, <2>2, <2>3
<1>4. CASE DtxRoom
  <2>1. /\ dtx' \in Chunks /\ dtx'.pc = "write" /\ dtx.pc = "room"
        /\ dtx'.chunk = dtx.chunk /\ dtx'.packet_size = dtx.packet_size
    BY <1>4, DtxTypes DEF DtxRoom, DtxGoto, Chunks, Places
  <2>. QED BY <2>1, DtxTypes DEF DtxOK
<1>5. CASE DtxWrite
  <2> DEFINE n == IF Vara THEN dtx.chunk ELSE Smaller(dtx.chunk, MaxPacket)
  <2>1. n \in Nat /\ n <= dtx.chunk /\ dtx.chunk \in Nat
    BY DtxTypes DEF Smaller
  <2>2. dtx' = [dtx EXCEPT !.pc = IF Vara THEN "count" ELSE "sleep", !.chunk = dtx.chunk - n]
    BY <1>5 DEF DtxWrite
  <2> HIDE DEF n
  <2>3. dtx.chunk - n \in Nat /\ dtx.chunk - n <= dtx.chunk
    BY <2>1
  <2>4. /\ dtx' \in Chunks /\ dtx'.pc \in {"count", "sleep"}
        /\ dtx'.chunk = dtx.chunk - n /\ dtx'.packet_size = dtx.packet_size
    BY <2>2, <2>3, DtxTypes DEF Chunks, Places
  <2>. QED BY <2>3, <2>4, DtxTypes DEF DtxOK
<1>6. CASE DtxCount
  <2>1. /\ dtx' \in Chunks /\ dtx'.pc = "sleep"
        /\ dtx'.chunk = dtx.chunk /\ dtx'.packet_size = dtx.packet_size
    BY <1>6, DtxTypes DEF DtxCount, DtxGoto, Chunks, Places
  <2>. QED BY <2>1, DtxTypes DEF DtxOK
<1>7. CASE DtxSleep
  <2>1. CASE dtx.chunk = 0
    <3>1. 0 \in 0 .. BufferSize
      OBVIOUS
    <3>2. /\ dtx' \in Chunks /\ dtx'.pc = "look" /\ dtx'.packet_size = 0 /\ dtx'.chunk = 0
      BY <1>7, <2>1, <3>1, DtxTypes DEF DtxSleep, Chunks, Places
    <3>. QED BY <3>2 DEF DtxOK
  <2>2. CASE dtx.chunk # 0
    <3>1. /\ dtx' \in Chunks /\ dtx'.pc = "room"
          /\ dtx'.chunk = dtx.chunk /\ dtx'.packet_size = dtx.packet_size
      BY <1>7, <2>2, DtxTypes DEF DtxSleep, Chunks, Places
    <3>. QED BY <2>2, <3>1, DtxTypes DEF DtxOK
  <2>. QED BY <2>1, <2>2
<1>. QED BY <1>1, <1>2, <1>3, <1>4, <1>5, <1>6, <1>7 DEF DataTx

LEMMA CrxGoes ==
  ASSUME TypeOK, NEW from, NEW to \in {"read", "act", "zero", "fall", "down", "compare", "settle"},
         CrxGoto(from, to)
  PROVE  /\ crx' \in [pc : {"read", "act", "zero", "fall", "down", "compare", "settle"},
                      report : Words]
         /\ crx.pc = from /\ crx'.pc = to
         /\ to # "read" => crx'.report = crx.report
BY DEF TypeOK, CrxGoto, NoReport, Words

LEMMA BooleanTypes ==
  ASSUME TypeOK
  PROVE  /\ connected \in BOOLEAN /\ clean_buffers \in BOOLEAN /\ raced \in BOOLEAN
         /\ crossed \in BOOLEAN /\ hurried \in BOOLEAN /\ forgot \in BOOLEAN
         /\ torn \in BOOLEAN
         /\ buffer_size \in Nat /\ bytes_transmitted \in Nat /\ bytes_buffered_tx \in Nat
         /\ falls \in Nat /\ handed \in Nat
BY DEF TypeOK

LEMMA TypeStep == TypeOK /\ [Next]_vars => TypeOK'
<1> SUFFICES ASSUME TypeOK, [Next]_vars PROVE TypeOK'
  OBVIOUS
<1> USE DataAssumption
<1>1. ASSUME Put PROVE TypeOK'
  <2>1. /\ in_buffer' = Append(in_buffer, falls) /\ falls \in Stale .. falls
        /\ Len(in_buffer) < Capacity /\ Capacity \in Nat
    BY <1>1, BooleanTypes DEF Put, Stale, DataAssumption
  <2>2. in_buffer' \in Seq(Stale .. falls) /\ Len(in_buffer') <= Capacity
    BY <2>1, AppendTypes, LengthTypes DEF ring, TypeOK, Tags
  <2>. QED BY <1>1, <2>2 DEF Put, shared, counts, threads, accounts, ring, TypeOK, Tags
<1>2. ASSUME SessionEnd PROVE TypeOK'
  BY <1>2 DEF SessionEnd, counts, threads, ring, accounts, TypeOK, Tags
<1>3. ASSUME DtxLook \/ DtxTake \/ DtxTest \/ DtxRoom \/ DtxSleep PROVE TypeOK'
  <2>1. DtxOK' /\ Tags' = Tags
    BY <1>3, DtxSteps
       DEF DataTx, DtxLook, DtxTake, DtxTest, DtxRoom, DtxSleep, accounts, Tags
  <2>2. UNCHANGED <<shared, counts, ring, crx, ctx, modem, reports, accounts>>
    BY <1>3 DEF DtxLook, DtxTake, DtxTest, DtxRoom, DtxSleep
  <2>. QED
    BY <2>1, <2>2 DEF shared, counts, ring, accounts, TypeOK, DtxOK, Chunks, Places
<1>4. ASSUME DtxCopy PROVE TypeOK'
  <2>1. /\ in_buffer' = Retreated(in_buffer, dtx.packet_size) /\ torn' \in BOOLEAN
        /\ UNCHANGED <<shared, counts, crx, ctx, modem, reports, accounts>>
    BY <1>4, BooleanTypes DEF DtxCopy
  <2>2. DtxOK' /\ Tags' = Tags
    BY <1>4, <2>1, DtxSteps DEF DataTx, accounts, Tags
  <2>3. in_buffer' \in Tags /\ Len(in_buffer') <= Capacity
    BY <2>1, DtxTypes, RetreatedTypes
  <2>. QED
    BY <2>1, <2>2, <2>3 DEF shared, counts, accounts, TypeOK, DtxOK, Chunks, Places
<1>5. ASSUME DtxWrite PROVE TypeOK'
  <2> DEFINE n == IF Vara THEN dtx.chunk ELSE Smaller(dtx.chunk, MaxPacket)
  <2>1. n \in Nat
    BY DtxTypes DEF Smaller
  <2>2. /\ handed' = IF Vara THEN handed + n ELSE handed
        /\ \E kept \in BOOLEAN :
             modem' = [modem EXCEPT !.buffer = IF kept THEN modem.buffer + n ELSE modem.buffer]
        /\ UNCHANGED <<shared, counts, ring, crx, ctx, falls, raced, hurried, forgot>>
    BY <1>5 DEF DtxWrite
  <2> HIDE DEF n
  <2>3. DtxOK' /\ Tags' = Tags
    BY <1>5, <2>2, DtxSteps DEF DataTx, Tags
  <2>4. modem' \in [link : BOOLEAN, buffer : Nat, sent : Nat, hangup : BOOLEAN,
                    asked : BOOLEAN]
    <3>1. modem.buffer \in Nat
      BY DEF TypeOK
    <3>2. PICK b \in Nat : modem' = [modem EXCEPT !.buffer = b]
      BY <2>1, <2>2, <3>1
    <3>. QED BY <3>2 DEF TypeOK
  <2>5. handed' \in Nat
    BY <2>1, <2>2, BooleanTypes
  <2>6. Buffer(modem'.buffer) \in Words
    BY <2>4 DEF Buffer, Words
  <2>7. reports' \in Seq(Words)
    BY <1>5, <2>6, AppendTypes DEF DtxWrite, TypeOK
  <2>8. crossed' \in BOOLEAN
    BY <1>5, BooleanTypes DEF DtxWrite
  <2>. QED
    BY <2>2, <2>3, <2>4, <2>5, <2>7, <2>8
       DEF shared, counts, ring, TypeOK, DtxOK, Chunks, Places
<1>6. ASSUME DtxCount PROVE TypeOK'
  <2>1. bytes_buffered_tx' \in Nat
    BY <1>6, BooleanTypes, DtxTypes DEF DtxCount
  <2>2. raced' \in BOOLEAN
    BY <1>6, BooleanTypes DEF DtxCount
  <2>3. DtxOK' /\ Tags' = Tags
    BY <1>6, DtxSteps DEF DataTx, DtxCount, Tags
  <2>. QED
    BY <1>6, <2>1, <2>2, <2>3 DEF DtxCount, shared, ring, TypeOK, DtxOK, Chunks, Places
<1>7. ASSUME CrxRead PROVE TypeOK'
  BY <1>7, TailTypes DEF CrxRead, shared, counts, accounts, ring, TypeOK, Tags, Words
<1>8. ASSUME CrxConnected PROVE TypeOK'
  BY <1>8 DEF CrxConnected, CrxGoto, NoReport, counts, ring, TypeOK, Tags, Words
<1>9. ASSUME CrxZero PROVE TypeOK'
  <2>1. /\ crx' \in [pc : {"read", "act", "zero", "fall", "down", "compare", "settle"}, report : Words]
        /\ bytes_transmitted' \in Nat
    BY <1>9, CrxGoes, BooleanTypes DEF CrxZero
  <2>. QED
    BY <1>9, <2>1 DEF CrxZero, shared, accounts, ring, TypeOK, Tags
<1>10. ASSUME CrxZeroBuffered PROVE TypeOK'
  <2>1. /\ crx' \in [pc : {"read", "act", "zero", "fall", "down", "compare", "settle"}, report : Words]
        /\ bytes_buffered_tx' \in Nat
    BY <1>10, CrxGoes DEF CrxZeroBuffered
  <2>2. handed' \in Nat
    BY <1>10 DEF CrxZeroBuffered, Uncounted, TypeOK
  <2>3. raced' \in BOOLEAN /\ crossed' \in BOOLEAN
    BY <1>10 DEF CrxZeroBuffered
  <2>. QED
    BY <1>10, <2>1, <2>2, <2>3 DEF CrxZeroBuffered, shared, ring, TypeOK, Tags
<1>11. ASSUME CrxFall PROVE TypeOK'
  <2>1. crx' \in [pc : {"read", "act", "zero", "fall", "down", "compare", "settle"},
                  report : Words]
    BY <1>11, CrxGoes DEF CrxFall
  <2>. QED
    BY <1>11, <2>1 DEF CrxFall, counts, ring, accounts, TypeOK, Tags
<1>12. ASSUME CrxDown PROVE TypeOK'
  <2>1. crx' \in [pc : {"read", "act", "zero", "fall", "down", "compare", "settle"},
                  report : Words]
    BY <1>12, CrxGoes DEF CrxDown
  <2>2. falls' \in Nat /\ Stale .. falls \subseteq Stale .. falls'
    BY <1>12, BooleanTypes DEF CrxDown, Stale
  <2>3. Tags \subseteq Tags'
    BY <2>2, SeqLarger DEF Tags
  <2>4. hurried' \in BOOLEAN
    BY <1>12, BooleanTypes DEF CrxDown
  <2>5. in_buffer' \in Tags' /\ Len(in_buffer') <= Capacity
    BY <1>12, <2>3 DEF CrxDown, ring, TypeOK
  <2>6. /\ UNCHANGED <<modem_type, clean_buffers, buffer_size, torn, dtx, ctx, modem>>
        /\ UNCHANGED <<bytes_transmitted, bytes_buffered_tx, reports, handed, raced>>
        /\ UNCHANGED <<crossed, forgot>>
        /\ connected' \in BOOLEAN
    BY <1>12 DEF CrxDown, counts, ring
  <2>. QED
    BY <2>1, <2>2, <2>4, <2>5, <2>6 DEF TypeOK
<1>13. ASSUME CrxBuffer PROVE TypeOK'
  <2>1. crx' \in [pc : {"read", "act", "zero", "fall", "down", "compare", "settle"}, report : Words]
    <3>1. (IF Vara THEN "compare" ELSE "read")
            \in {"read", "act", "zero", "fall", "down", "compare", "settle"}
      OBVIOUS
    <3>. QED BY <1>13, <3>1, CrxGoes DEF CrxBuffer
  <2>2. buffer_size' \in Nat
    <3>1. crx.report \in Words
      BY DEF TypeOK
    <3>. QED BY <1>13, <3>1 DEF CrxBuffer, Words
  <2>3. forgot' \in BOOLEAN
    BY <1>13, BooleanTypes DEF CrxBuffer
  <2>. QED
    BY <1>13, <2>1, <2>2, <2>3 DEF CrxBuffer, counts, ring, TypeOK, Tags
<1>14. ASSUME CrxCompare PROVE TypeOK'
  <2>1. crx' \in [pc : {"read", "act", "zero", "fall", "down", "compare", "settle"}, report : Words]
    BY <1>14, CrxGoes DEF CrxCompare
  <2>2. bytes_transmitted' \in Nat
    BY <1>14, BooleanTypes DEF CrxCompare
  <2>3. crossed' \in BOOLEAN
    BY <1>14, BooleanTypes DEF CrxCompare
  <2>. QED
    BY <1>14, <2>1, <2>2, <2>3 DEF CrxCompare, shared, ring, TypeOK, Tags
<1>15. ASSUME CrxSettle PROVE TypeOK'
  <2>1. crx' \in [pc : {"read", "act", "zero", "fall", "down", "compare", "settle"}, report : Words]
    BY <1>15, CrxGoes DEF CrxSettle
  <2>2. bytes_buffered_tx' \in Nat
    BY <1>15, BooleanTypes DEF CrxSettle
  <2>. QED
    BY <1>15, <2>1, <2>2 DEF CrxSettle, shared, accounts, ring, TypeOK, Tags
<1>16. ASSUME CtxLook PROVE TypeOK'
  BY <1>16 DEF CtxLook, shared, counts, accounts, ring, TypeOK, Tags, Words
<1>17. ASSUME CtxAsk PROVE TypeOK'
  BY <1>17 DEF CtxAsk, shared, counts, threads, accounts, ring, TypeOK, Tags, Words
<1>18. ASSUME CtxHangUp PROVE TypeOK'
  BY <1>18 DEF CtxHangUp, shared, counts, accounts, ring, TypeOK, Tags, Words
<1>19. ASSUME Reset("reset", "wait") PROVE TypeOK'
  <2>1. <<>> \in Seq(Stale .. falls) /\ Len(<<>>) <= Capacity
    OBVIOUS
  <2>. QED BY <1>19, <2>1 DEF Reset, shared, counts, accounts, TypeOK, Tags
<1>20. ASSUME Reset("resetAgain", "clean") PROVE TypeOK'
  <2>1. <<>> \in Seq(Stale .. falls) /\ Len(<<>>) <= Capacity
    OBVIOUS
  <2>. QED BY <1>20, <2>1 DEF Reset, shared, counts, accounts, TypeOK, Tags
<1>21. ASSUME CtxWait PROVE TypeOK'
  BY <1>21 DEF CtxWait, shared, counts, accounts, ring, TypeOK, Tags, Words
<1>22. ASSUME CtxClean PROVE TypeOK'
  BY <1>22 DEF CtxClean, counts, accounts, ring, TypeOK, Tags, Words
<1>23. ASSUME CtxForget PROVE TypeOK'
  BY <1>23 DEF CtxForget, counts, ring, TypeOK, Tags, Words
<1>24. ASSUME LinkUp PROVE TypeOK'
  BY <1>24, AppendTypes DEF LinkUp, Quiet, Connected, shared, counts, threads, accounts, ring, TypeOK, Tags, Words
<1>25. ASSUME LinkDown PROVE TypeOK'
  <2>1. modem' \in [link : BOOLEAN, buffer : Nat, sent : Nat, hangup : BOOLEAN,
                    asked : BOOLEAN]
    BY <1>25 DEF LinkDown, TypeOK
  <2>2. Disconnected \in Words /\ reports \in Seq(Words)
    BY DEF Disconnected, Words, TypeOK
  <2>3. reports' \in Seq(Words)
    BY <1>25, <2>2 DEF LinkDown
  <2>. QED
    BY <1>25, <2>1, <2>3
       DEF LinkDown, Quiet, shared, counts, threads, accounts, ring, TypeOK, Tags
<1>26. ASSUME Transmit PROVE TypeOK'
  <2>1. modem' \in [link : BOOLEAN, buffer : Nat, sent : Nat, hangup : BOOLEAN,
                    asked : BOOLEAN]
    <3>1. PICK n \in 1 .. modem.buffer :
            modem' = [modem EXCEPT !.buffer = modem.buffer - n,
                                   !.sent = IF Vara THEN modem.sent + n ELSE modem.sent]
      BY <1>26 DEF Transmit
    <3>2. modem.buffer \in Nat /\ modem.sent \in Nat
      BY DEF TypeOK
    <3>3. modem.buffer - n \in Nat /\ modem.sent + n \in Nat
      BY <3>2
    <3>4. PICK b \in Nat, t \in Nat : modem' = [modem EXCEPT !.buffer = b, !.sent = t]
      BY <3>1, <3>2, <3>3
    <3>. QED BY <3>4 DEF TypeOK
  <2>2. Buffer(modem'.buffer) \in Words
    BY <2>1 DEF Buffer, Words
  <2>3. reports' \in Seq(Words)
    BY <1>26, <2>2, AppendTypes DEF Transmit, TypeOK
  <2>4. UNCHANGED <<shared, counts, threads, ring, accounts>>
    BY <1>26 DEF Transmit, Quiet
  <2>. QED
    BY <2>1, <2>3, <2>4 DEF shared, counts, threads, accounts, ring, TypeOK, Tags
<1>27. ASSUME Answer PROVE TypeOK'
  <2>1. Buffer(modem.buffer) \in Words
    BY DEF TypeOK, Buffer, Words
  <2>2. reports' \in Seq(Words)
    BY <1>27, <2>1, AppendTypes DEF Answer, TypeOK
  <2>3. modem' \in [link : BOOLEAN, buffer : Nat, sent : Nat, hangup : BOOLEAN,
                    asked : BOOLEAN]
    BY <1>27 DEF Answer, TypeOK
  <2>4. UNCHANGED <<shared, counts, threads, ring, accounts>>
    BY <1>27 DEF Answer, Quiet
  <2>. QED
    BY <2>2, <2>3, <2>4 DEF shared, counts, threads, accounts, ring, TypeOK, Tags
<1>28. ASSUME UNCHANGED vars PROVE TypeOK'
  BY <1>28 DEF vars, shared, counts, threads, accounts, ring, TypeOK, Tags, Words
<1>. QED
  BY <1>1, <1>2, <1>3, <1>4, <1>5, <1>6, <1>7, <1>8, <1>9, <1>10, <1>11, <1>12,
     <1>13, <1>14, <1>15, <1>16, <1>17, <1>18, <1>19, <1>20, <1>21, <1>22, <1>23, <1>24,
     <1>25, <1>26, <1>27, <1>28
     DEF Next, DataTx, ControlRx, ControlTx

-----------------------------------------------------------------------------
(* A step that touches none of the counts, nor the places of the threads   *)
(* that keep them.                                                         *)
LEMMA AccountsKept ==
  ASSUME Accounts,
         UNCHANGED <<modem_type, buffer_size, counts, dtx, crx, handed, raced>>
  PROVE  Accounts'
BY DEF Accounts, Counted, Uncounted, Vara, counts

LEMMA AccountsStep == TypeOK /\ Accounts /\ [Next]_vars => Accounts'
<1> SUFFICES ASSUME TypeOK, Accounts, [Next]_vars PROVE Accounts'
  OBVIOUS
<1> USE DataAssumption
<1>0. /\ buffer_size \in Nat /\ bytes_transmitted \in Nat /\ bytes_buffered_tx \in Nat
      /\ handed \in Nat /\ dtx.packet_size \in Nat /\ Uncounted \in Nat
      /\ dtx.chunk \in Nat
  BY BooleanTypes, DtxTypes DEF Uncounted
<1>1. ASSUME DtxLook \/ DtxTake PROVE Accounts'
  <2>1. dtx'.pc \in {"take", "test"} /\ dtx.pc \in {"look", "take"}
    BY <1>1, DtxTypes DEF DtxLook, DtxTake, DtxGoto, Chunks
  <2>. QED
    BY <1>1, <2>1
       DEF DtxLook, DtxTake, shared, counts, accounts, Accounts, Counted, Uncounted, Vara
<1>2. ASSUME DtxTest \/ DtxCopy PROVE Accounts'
  <2>1. /\ dtx.pc \in {"test", "copy"} /\ dtx'.pc \in {"copy", "room"}
        /\ dtx'.pc = "room" => dtx'.chunk = dtx'.packet_size
    BY <1>2, DtxTypes DEF DtxTest, DtxCopy, Chunks
  <2>. QED
    BY <1>2, <2>1
       DEF DtxTest, DtxCopy, shared, counts, accounts, Accounts, Counted, Uncounted, Vara
<1>3. ASSUME DtxRoom PROVE Accounts'
  <2>1. /\ dtx'.pc = "write" /\ dtx.pc = "room" /\ dtx'.chunk = dtx.chunk
        /\ dtx'.packet_size = dtx.packet_size
    BY <1>3, DtxTypes DEF DtxRoom, DtxGoto, Chunks
  <2>. QED
    BY <1>3, <2>1 DEF DtxRoom, shared, counts, accounts, Accounts, Counted, Uncounted, Vara
<1>4. ASSUME DtxWrite PROVE Accounts'
  <2>1. CASE Vara
    <3>1. /\ dtx.pc = "write" /\ dtx'.pc = "count" /\ dtx'.packet_size = dtx.packet_size
          /\ dtx'.chunk = dtx.chunk - dtx.chunk /\ handed' = handed + dtx.chunk
      BY <1>4, <2>1, DtxTypes DEF DtxWrite, Chunks
    <3>2. dtx'.chunk = 0
      BY <1>0, <3>1
    <3>3. Uncounted = 0 /\ Uncounted' = dtx.chunk
      BY <2>1, <3>1 DEF Uncounted, Accounts
    <3>4. /\ dtx.packet_size = dtx.chunk /\ crx' = crx /\ (raced' <=> raced)
          /\ bytes_transmitted' = bytes_transmitted /\ bytes_buffered_tx' = bytes_buffered_tx
          /\ buffer_size' = buffer_size /\ (Vara' <=> Vara)
      BY <1>4, <2>1, <3>1 DEF DtxWrite, shared, counts, Accounts, Vara
    <3>5. PICK n \in Nat : /\ n = dtx.chunk /\ handed' = handed + n
                           /\ Uncounted' = n /\ Uncounted = 0
      BY <1>0, <3>1, <3>3
    <3>6. Counted'
      <4>. DEFINE t == bytes_transmitted + bytes_buffered_tx
      <4>1. t \in Nat /\ handed \in Nat /\ n \in Nat
        BY <1>0
      <4>2. bytes_transmitted' + bytes_buffered_tx' + Uncounted' = t + n
        BY <3>4, <3>5
      <4>3. CASE crx.pc \notin {"settle", "zero"}
        <5>1. t + Uncounted <= handed /\ (t + Uncounted = handed \/ raced)
          BY <2>1, <4>3 DEF Accounts, Counted
        <5>. HIDE DEF t
        <5>2. t + Uncounted = t
          BY <3>5, <4>1
        <5>3. t <= handed /\ (t = handed \/ raced)
          BY <5>1, <5>2
        <5>4. t + n <= handed + n
          BY <4>1, <5>3
        <5>5. t = handed => t + n = handed + n
          OBVIOUS
        <5>. QED BY <3>4, <3>5, <4>2, <5>3, <5>4, <5>5 DEF Counted
      <4>4. CASE crx.pc \in {"settle", "zero"}
        BY <3>4, <4>4 DEF Counted
      <4>. QED BY <4>3, <4>4
    <3>7. ASSUME crx.pc = "settle"
          PROVE  /\ bytes_transmitted + buffer_size + n <= handed'
                 /\ bytes_transmitted + buffer_size + n = handed' \/ raced
      <4>1. /\ bytes_transmitted + buffer_size + Uncounted <= handed
            /\ bytes_transmitted + buffer_size + Uncounted = handed \/ raced
        BY <2>1, <3>7 DEF Accounts
      <4>2. bytes_transmitted + buffer_size \in Nat /\ raced \in BOOLEAN
        BY <1>0, BooleanTypes
      <4>3. bytes_transmitted + buffer_size + n <= handed + n
        BY <1>0, <3>5, <4>1
      <4>4. bytes_transmitted + buffer_size + n = handed + n \/ raced
        <5>1. CASE raced
          BY <5>1
        <5>2. CASE bytes_transmitted + buffer_size + Uncounted = handed
          <6>1. bytes_transmitted + buffer_size = handed
            BY <1>0, <3>5, <4>2, <5>2
          <6>. QED BY <6>1
        <5>. QED BY <4>1, <5>1, <5>2
      <4>. QED BY <3>5, <4>3, <4>4
    <3>. QED
      BY <2>1, <3>1, <3>2, <3>4, <3>5, <3>6, <3>7 DEF Accounts
  <2>2. CASE ~ Vara
    BY <1>4, <2>2 DEF DtxWrite, shared, counts, Accounts, Counted, Vara
  <2>. QED BY <2>1, <2>2
<1>5. ASSUME DtxCount PROVE Accounts'
  <2>1. /\ dtx.pc = "count" /\ dtx'.pc = "sleep" /\ dtx'.chunk = dtx.chunk
        /\ Uncounted = dtx.packet_size /\ Uncounted' = 0
    BY <1>5, DtxTypes DEF DtxCount, DtxGoto, Chunks, Uncounted
  <2>2. /\ bytes_buffered_tx' = bytes_buffered_tx + dtx.packet_size
        /\ (raced' <=> (raced \/ crx.pc = "settle")) /\ handed' = handed
        /\ bytes_transmitted' = bytes_transmitted /\ buffer_size' = buffer_size
        /\ crx' = crx /\ (Vara' <=> Vara)
    BY <1>5 DEF DtxCount, shared, Vara
  <2>3. Counted'
    <3>. DEFINE t == bytes_transmitted + bytes_buffered_tx + dtx.packet_size
    <3>1. bytes_transmitted' + bytes_buffered_tx' + Uncounted' = t
      BY <1>0, <2>1, <2>2
    <3>2. CASE Vara /\ crx.pc \notin {"settle", "zero"}
      <4>1. t <= handed /\ (t = handed \/ raced)
        BY <2>1, <3>2 DEF Accounts, Counted
      <4>. HIDE DEF t
      <4>. QED BY <2>2, <3>1, <3>2, <4>1 DEF Counted
    <3>3. CASE ~ (Vara /\ crx.pc \notin {"settle", "zero"})
      BY <2>2, <3>3 DEF Counted
    <3>. QED BY <3>2, <3>3
  <2>4. Vara /\ crx.pc = "settle" =>
          bytes_transmitted + buffer_size <= handed /\ raced'
    BY <1>0, <2>1, <2>2 DEF Accounts
  <2>. QED
    BY <1>0, <2>1, <2>2, <2>3, <2>4 DEF Accounts
<1>6. ASSUME DtxSleep PROVE Accounts'
  <2>1. /\ dtx.pc = "sleep" /\ (Vara => dtx'.pc = "look")
        /\ dtx'.pc \in {"look", "room"} /\ Uncounted = 0 /\ Uncounted' = 0
    BY <1>6, DtxTypes DEF DtxSleep, Chunks, Uncounted, Accounts
  <2>. QED
    BY <1>6, <2>1 DEF DtxSleep, shared, counts, accounts, Accounts, Counted, Vara
<1>7. ASSUME CrxRead PROVE Accounts'
  BY <1>7 DEF CrxRead, shared, counts, accounts, Accounts, Counted, Uncounted, Vara
<1>8. ASSUME CrxConnected \/ CrxFall \/ CrxDown PROVE Accounts'
  <2>1. crx.pc \in {"act", "fall", "down"} /\ crx'.pc \in {"down", "read"}
    BY <1>8, CrxGoes DEF CrxConnected, CrxFall, CrxDown
  <2>. QED
    BY <1>8, <2>1
       DEF CrxConnected, CrxFall, CrxDown, accounts, counts, Accounts, Counted, Uncounted, Vara
<1>9. ASSUME CrxZero PROVE Accounts'
  <2>1. crx.pc = "act" /\ crx'.pc = IF Vara THEN "zero" ELSE "fall"
    BY <1>9, CrxGoes DEF CrxZero
  <2>. QED
    BY <1>9, <2>1 DEF CrxZero, shared, accounts, Accounts, Counted, Uncounted, Vara
<1>10. ASSUME CrxZeroBuffered PROVE Accounts'
  <2>1. crx.pc = "zero" /\ crx'.pc = "fall" /\ Uncounted' = Uncounted
    BY <1>10, CrxGoes DEF CrxZeroBuffered, Uncounted
  <2>. QED
    BY <1>0, <1>10, <2>1 DEF CrxZeroBuffered, shared, Accounts, Counted, Vara
<1>11. ASSUME CrxBuffer PROVE Accounts'
  <2>1. crx.pc = "act" /\ crx'.pc = IF Vara THEN "compare" ELSE "read"
    BY <1>11, CrxGoes DEF CrxBuffer
  <2>. QED
    BY <1>11, <2>1 DEF CrxBuffer, counts, Accounts, Counted, Uncounted, Vara
<1>12. ASSUME CrxCompare PROVE Accounts'
  <2>1. CASE buffer_size = 0 \/ buffer_size < bytes_buffered_tx
    <3>1. crx.pc = "compare" /\ crx'.pc = "settle" /\ Uncounted' = Uncounted
      BY <1>12, <2>1, CrxGoes DEF CrxCompare, Uncounted
    <3>2. bytes_transmitted' + buffer_size = bytes_transmitted + bytes_buffered_tx
      BY <1>0, <1>12, <2>1 DEF CrxCompare
    <3>3. bytes_transmitted' \in Nat
      BY <1>0, <1>12, <2>1 DEF CrxCompare
    <3>. QED
      BY <1>0, <1>12, <3>1, <3>2, <3>3 DEF CrxCompare, shared, Accounts, Counted, Vara
  <2>2. CASE ~ (buffer_size = 0 \/ buffer_size < bytes_buffered_tx)
    <3>1. crx.pc = "compare" /\ crx'.pc = "read" /\ Uncounted' = Uncounted
      BY <1>12, <2>2, CrxGoes DEF CrxCompare, Uncounted
    <3>. QED
      BY <1>12, <2>2, <3>1 DEF CrxCompare, shared, Accounts, Counted, Vara
  <2>. QED BY <2>1, <2>2
<1>13. ASSUME CrxSettle PROVE Accounts'
  <2>1. crx.pc = "settle" /\ crx'.pc = "read" /\ Uncounted' = Uncounted
    BY <1>13, CrxGoes DEF CrxSettle, Uncounted
  <2>. QED
    BY <1>0, <1>13, <2>1 DEF CrxSettle, shared, accounts, Accounts, Counted, Vara
<1>14. ASSUME CtxForget PROVE Accounts'
  <2>1. /\ bytes_transmitted' = bytes_transmitted /\ bytes_buffered_tx' = bytes_buffered_tx
        /\ dtx' = dtx /\ crx' = crx /\ handed' = handed /\ (Vara' <=> Vara)
        /\ buffer_size' = 0 /\ (raced' <=> (raced \/ crx.pc \in {"compare", "settle"}))
    BY <1>14 DEF CtxForget, counts, Vara
  <2>2. Uncounted' = Uncounted
    BY <2>1 DEF Uncounted
  <2>3. Counted'
    BY <1>0, <2>1, <2>2 DEF Accounts, Counted
  <2>4. Vara /\ crx.pc = "settle" =>
          bytes_transmitted + 0 + Uncounted <= handed /\ raced'
    BY <1>0, <2>1 DEF Accounts
  <2>. QED
    BY <1>0, <2>1, <2>2, <2>3, <2>4 DEF Accounts
<1>15. ASSUME \/ Put \/ SessionEnd \/ CtxLook \/ CtxAsk \/ CtxHangUp \/ Reset("reset", "wait")
              \/ CtxWait \/ Reset("resetAgain", "clean") \/ CtxClean
              \/ LinkUp \/ LinkDown \/ Transmit \/ Answer \/ UNCHANGED vars
       PROVE Accounts'
  BY <1>15, AccountsKept
     DEF Put, SessionEnd, CtxLook, CtxAsk, CtxHangUp, Reset, CtxWait, CtxClean, LinkUp,
         LinkDown, Transmit, Answer, Quiet, vars, shared, counts, threads, accounts
<1>. QED
  BY <1>1, <1>2, <1>3, <1>4, <1>5, <1>6, <1>7, <1>8, <1>9, <1>10, <1>11, <1>12, <1>13,
     <1>14, <1>15
     DEF Next, DataTx, ControlRx, ControlTx

-----------------------------------------------------------------------------
LEMMA EmptiedStep == TypeOK /\ Emptied /\ [Next]_vars => Emptied'
<1> SUFFICES ASSUME TypeOK, Emptied, [Next]_vars PROVE Emptied'
  OBVIOUS
<1> USE DataAssumption
<1>0. /\ in_buffer \in Seq(Stale .. falls) /\ Len(in_buffer) \in Nat
      /\ DOMAIN in_buffer = 1 .. Len(in_buffer)
      /\ connected \in BOOLEAN /\ clean_buffers \in BOOLEAN /\ hurried \in BOOLEAN
      /\ falls \in Nat /\ torn \in BOOLEAN
  BY BooleanTypes, LengthTypes DEF TypeOK, Tags
<1>1. ASSUME Put PROVE Emptied'
  <2>1. in_buffer' = Append(in_buffer, falls) /\ falls' = falls
    BY <1>1 DEF Put, accounts
  <2>2. Fresh => Fresh'
    BY <1>0, <2>1 DEF Fresh
  <2>. QED
    BY <1>1, <2>2 DEF Put, shared, threads, accounts, Emptied
<1>2. ASSUME SessionEnd PROVE Emptied'
  BY <1>2 DEF SessionEnd, threads, ring, accounts, Emptied, Fresh
<1>3. ASSUME DtxCopy PROVE Emptied'
  <2> DEFINE n == dtx.packet_size
  <2>1. /\ in_buffer' = Retreated(in_buffer, n) /\ falls' = falls
        /\ torn' = (torn \/ n > Len(in_buffer)) /\ n \in 0 .. BufferSize
    BY <1>3, DtxTypes DEF DtxCopy, accounts
  <2> HIDE DEF n
  <2>2. ~ torn' => ~ torn /\ n <= Len(in_buffer)
    <3>1. n > Len(in_buffer) \/ n <= Len(in_buffer)
      BY <1>0, <2>1
    <3>. QED BY <1>0, <2>1, <3>1, Zenon
  <2>3. ~ torn' /\ Fresh => Fresh'
    BY <1>0, <2>1, <2>2, RetreatedTypes DEF Fresh
  <2>. QED
    BY <1>3, <2>2, <2>3 DEF DtxCopy, shared, accounts, Emptied
<1>4. ASSUME CrxConnected PROVE Emptied'
  <2>1. crx.pc = "act" /\ crx'.pc = "read"
    BY <1>4, CrxGoes DEF CrxConnected
  <2>. QED
    BY <1>0, <1>4, <2>1 DEF CrxConnected, ring, Emptied, Fresh
<1>5. ASSUME CrxFall PROVE Emptied'
  BY <1>0, <1>5 DEF CrxFall, ring, accounts, Emptied, Fresh
<1>6. ASSUME CrxDown PROVE Emptied'
  <2>1. crx.pc = "down" /\ crx'.pc = "read"
    BY <1>6, CrxGoes DEF CrxDown
  <2>2. CASE ~ connected
    BY <1>0, <1>6, <2>1, <2>2 DEF CrxDown, ring, Emptied, Fresh
  <2>3. CASE connected
    BY <1>0, <1>6, <2>1, <2>3 DEF CrxDown, ring, Emptied, Fresh
  <2>. QED BY <1>0, <2>2, <2>3
<1>7. ASSUME Reset("reset", "wait") \/ Reset("resetAgain", "clean") PROVE Emptied'
  <2>1. in_buffer' = <<>> /\ Fresh'
    BY <1>7 DEF Reset, Fresh
  <2>. QED
    BY <1>7, <2>1 DEF Reset, shared, accounts, Emptied
<1>8. ASSUME CtxLook \/ CtxHangUp \/ CtxWait PROVE Emptied'
  BY <1>8 DEF CtxLook, CtxHangUp, CtxWait, shared, ring, accounts, Emptied, Fresh
<1>9. ASSUME CtxClean PROVE Emptied'
  BY <1>9 DEF CtxClean, ring, accounts, Emptied, Fresh
<1>10. ASSUME CtxForget PROVE Emptied'
  BY <1>10 DEF CtxForget, ring, Emptied, Fresh
<1>11. ASSUME CrxRead \/ CrxZero \/ CrxZeroBuffered \/ CrxBuffer \/ CrxCompare \/ CrxSettle
       PROVE Emptied'
  <2>1. crx'.pc # "down"
    BY <1>11, CrxGoes
       DEF CrxRead, CrxZero, CrxZeroBuffered, CrxBuffer, CrxCompare, CrxSettle
  <2>2. UNCHANGED <<connected, clean_buffers, in_buffer, torn, ctx, falls, hurried>>
    BY <1>11
       DEF CrxRead, CrxZero, CrxZeroBuffered, CrxBuffer, CrxCompare, CrxSettle, shared, ring,
           accounts
  <2>. QED BY <2>1, <2>2 DEF Emptied, Fresh
<1>12. ASSUME \/ DtxLook \/ DtxTake \/ DtxTest \/ DtxRoom \/ DtxWrite \/ DtxCount \/ DtxSleep
              \/ CtxAsk \/ LinkUp \/ LinkDown \/ Transmit \/ Answer \/ UNCHANGED vars
       PROVE Emptied'
  <2>1. UNCHANGED <<connected, clean_buffers, in_buffer, torn, crx, ctx, falls, hurried>>
    BY <1>12
       DEF DtxLook, DtxTake, DtxTest, DtxRoom, DtxWrite, DtxCount, DtxSleep, CtxAsk, LinkUp,
           LinkDown, Transmit, Answer, Quiet, vars, shared, ring, threads, accounts
  <2>. QED BY <2>1 DEF Emptied, Fresh
<1>. QED
  BY <1>1, <1>2, <1>3, <1>4, <1>5, <1>6, <1>7, <1>8, <1>9, <1>10, <1>11, <1>12
     DEF Next, DataTx, ControlRx, ControlTx

-----------------------------------------------------------------------------
(* The room in the modem.                                                  *)
LEMMA ReportTypes ==
  ASSUME TypeOK
  PROVE  /\ Len(reports) \in Nat /\ DOMAIN reports = 1 .. Len(reports)
         /\ \A i \in 1 .. Len(reports) : reports[i] \in Words /\ reports[i][2] \in Nat
         /\ crx.report[2] \in Nat /\ buffer_size \in Nat /\ modem.buffer \in Nat
<1>1. reports \in Seq(Words) /\ crx.report \in Words /\ buffer_size \in Nat
      /\ modem.buffer \in Nat
  BY BooleanTypes DEF TypeOK
<1>2. \A w \in Words : w[2] \in Nat
  BY DEF Words
<1>. QED BY <1>1, <1>2

LEMMA AllIsNewest == TypeOK /\ AllEnough => NewestEnough
BY ReportTypes DEF AllEnough, NewestEnough

LEMMA RoomyKept ==
  ASSUME Roomy, modem'.buffer = modem.buffer,
         UNCHANGED <<modem_type, buffer_size, dtx, crx, reports, forgot>>
  PROVE  Roomy'
BY DEF Roomy, NewestEnough, AllEnough, InHand, Enough, Vara

(* The modem reports something, its buffer no larger than before.          *)
LEMMA RoomyReported ==
  ASSUME DataAssumption, TypeOK, Roomy,
         NEW r \in Words, reports' = Append(reports, r),
         modem'.buffer \in Nat, modem'.buffer <= modem.buffer,
         IsBuffer(r) => r[2] >= modem'.buffer,
         UNCHANGED <<modem_type, buffer_size, dtx, crx, forgot>>
  PROVE  Roomy'
<1>1. /\ DOMAIN reports' = 1 .. Len(reports) + 1
      /\ \A i \in 1 .. Len(reports) : reports'[i] = reports[i]
      /\ reports'[Len(reports) + 1] = r
  <2>1. reports \in Seq(Words)
    BY DEF TypeOK
  <2>. QED BY <2>1, AppendTypes
<1>2. \A n \in Nat : n >= modem.buffer => n >= modem'.buffer
  BY ReportTypes DEF Enough
<1>3. (InHand' <=> InHand) /\ (Vara' <=> Vara) /\ (forgot' <=> forgot)
  BY DEF InHand, Vara
<1>4. IsBuffer(r) => r[2] >= modem'.buffer
  OBVIOUS
<1>5. AllEnough => AllEnough'
  <2> SUFFICES ASSUME AllEnough PROVE AllEnough'
    OBVIOUS
  <2>1. ASSUME NEW i \in DOMAIN reports', IsBuffer(reports'[i])
        PROVE  reports'[i][2] >= modem'.buffer
    <3>1. CASE i \in 1 .. Len(reports)
      BY <1>1, <1>2, <2>1, <3>1, ReportTypes DEF AllEnough, Enough
    <3>2. CASE i = Len(reports) + 1
      BY <1>1, <1>4, <2>1, <3>2
    <3>. QED BY <1>1, <3>1, <3>2, ReportTypes
  <2>2. InHand' => crx'.report[2] >= modem'.buffer
    BY <1>2, <1>3, ReportTypes DEF AllEnough, Enough
  <2>3. buffer_size' >= modem'.buffer \/ forgot'
    BY <1>2, <1>3, ReportTypes DEF AllEnough, Enough
  <2>. QED BY <2>1, <2>2, <2>3 DEF AllEnough, Enough
<1>6. NewestEnough => NewestEnough'
  <2>1. CASE IsBuffer(r)
    <3>1. Len(reports) + 1 \in DOMAIN reports' /\ IsBuffer(reports'[Len(reports) + 1])
      BY <1>1, <2>1, ReportTypes
    <3>2. \A j \in DOMAIN reports' : j >= Len(reports) + 1 => reports'[j][2] >= modem'.buffer
      <4>1. \A j \in DOMAIN reports' : j >= Len(reports) + 1 => j = Len(reports) + 1
        BY <1>1, ReportTypes
      <4>. QED BY <1>1, <1>4, <2>1, <4>1
    <3>. QED BY <3>1, <3>2 DEF NewestEnough, Enough
  <2>2. CASE ~ IsBuffer(r)
    <3>1. \A j \in DOMAIN reports' : IsBuffer(reports'[j]) =>
            j \in DOMAIN reports /\ reports'[j] = reports[j]
      BY <1>1, <2>2, ReportTypes
    <3>2. ASSUME NEW i \in DOMAIN reports, IsBuffer(reports[i]),
                 \A j \in DOMAIN reports : j >= i /\ IsBuffer(reports[j]) => reports[j][2] >= modem.buffer
          PROVE  NewestEnough'
      <4>1. i \in DOMAIN reports' /\ IsBuffer(reports'[i])
        BY <1>1, <3>2, ReportTypes
      <4>2. \A j \in DOMAIN reports' :
              j >= i /\ IsBuffer(reports'[j]) => reports'[j][2] >= modem'.buffer
        BY <1>2, <3>1, <3>2, ReportTypes
      <4>. QED BY <4>1, <4>2 DEF NewestEnough, Enough
    <3>3. ASSUME \A i \in DOMAIN reports : ~ IsBuffer(reports[i]),
                 IF InHand THEN crx.report[2] >= modem.buffer ELSE buffer_size >= modem.buffer \/ forgot
          PROVE  NewestEnough'
      <4>1. \A i \in DOMAIN reports' : ~ IsBuffer(reports'[i])
        BY <3>1, <3>3
      <4>2. IF InHand' THEN crx'.report[2] >= modem'.buffer ELSE buffer_size' >= modem'.buffer \/ forgot'
        BY <1>2, <1>3, <3>3, ReportTypes
      <4>. QED BY <4>1, <4>2 DEF NewestEnough, Enough
    <3>. QED BY <3>2, <3>3 DEF NewestEnough, Enough
  <2>. QED BY <2>1, <2>2
<1>7. Vara /\ dtx.pc = "write" => modem'.buffer + dtx.packet_size <= MaxBuffer \/ forgot'
  <2>. SUFFICES ASSUME Vara, dtx.pc = "write", ~ forgot'
                PROVE  modem'.buffer + dtx.packet_size <= MaxBuffer
    OBVIOUS
  <2>1. modem.buffer + dtx.packet_size <= MaxBuffer
    BY <1>3 DEF Roomy
  <2>2. dtx.packet_size \in Nat /\ modem.buffer \in Nat /\ MaxBuffer \in Nat
    BY ReportTypes, DtxTypes DEF DataAssumption
  <2>. QED BY <2>1, <2>2
<1>. QED BY <1>3, <1>5, <1>6, <1>7 DEF Roomy

(* The control thread acts on a report that is not BUFFER, or goes on.     *)
LEMMA RoomyActed ==
  ASSUME Roomy, ~ InHand, ~ InHand',
         UNCHANGED <<modem_type, buffer_size, dtx, modem, reports, forgot>>
  PROVE  Roomy'
BY DEF Roomy, NewestEnough, AllEnough, Enough, Vara

LEMMA RoomyStep == TypeOK /\ Roomy /\ [Next]_vars => Roomy'
<1> SUFFICES ASSUME TypeOK, Roomy, [Next]_vars PROVE Roomy'
  OBVIOUS
<1> USE DataAssumption
<1>1. ASSUME DtxLook \/ DtxTake \/ DtxTest \/ DtxCopy PROVE Roomy'
  <2>1. dtx.pc \notin {"count", "sleep"} /\ dtx'.pc \notin {"count", "sleep", "write"}
    BY <1>1, DtxTypes DEF DtxLook, DtxTake, DtxTest, DtxCopy, DtxGoto, Chunks
  <2>. QED
    BY <1>1, <2>1 DEF DtxLook, DtxTake, DtxTest, DtxCopy, shared, accounts, Roomy, AllEnough,
                      InHand, Enough, Vara
<1>2. ASSUME DtxRoom PROVE Roomy'
  <2>1. /\ dtx.pc = "room" /\ dtx'.pc = "write" /\ dtx'.packet_size = dtx.packet_size
        /\ buffer_size + dtx.packet_size <= MaxBuffer
    BY <1>2, DtxTypes DEF DtxRoom, DtxGoto, Chunks
  <2>2. Vara => AllEnough /\ AllEnough'
    BY <1>2, <2>1 DEF DtxRoom, shared, accounts, Roomy, AllEnough, InHand, Enough
  <2>3. Vara => modem.buffer + dtx.packet_size <= MaxBuffer \/ forgot
    BY <2>1, <2>2, ReportTypes, DtxTypes DEF AllEnough, Enough
  <2>. QED
    BY <1>2, <2>1, <2>2, <2>3 DEF DtxRoom, shared, accounts, Roomy, Vara
<1>3. ASSUME DtxWrite PROVE Roomy'
  <2>1. CASE ~ Vara
    BY <1>3, <2>1 DEF DtxWrite, shared, Roomy, Vara
  <2>2. CASE Vara
    <3>1. dtx.pc = "write" /\ dtx'.pc = "count" /\ AllEnough
      BY <1>3, <2>2, DtxTypes DEF DtxWrite, Chunks, Roomy
    <3>2. CASE modem' = modem
      <4>1. /\ buffer_size' = buffer_size /\ crx' = crx /\ reports' = reports
            /\ forgot' = forgot
        BY <1>3, <3>2 DEF DtxWrite, shared
      <4>2. NewestEnough'
        BY <3>1, <3>2, <4>1, AllIsNewest DEF NewestEnough, InHand, Enough
      <4>. QED BY <3>1, <4>2 DEF Roomy
    <3>3. CASE modem' # modem
      <4>1. reports' = Append(reports, Buffer(modem'.buffer))
        BY <1>3, <2>2, <3>3 DEF DtxWrite
      <4>2. modem'.buffer \in Nat
        BY <1>3, TypeStep DEF TypeOK
      <4>3. Buffer(modem'.buffer) \in Words /\ reports \in Seq(Words)
        BY <4>2 DEF Buffer, Words, TypeOK
      <4>4. /\ Len(reports) \in Nat /\ DOMAIN reports' = 1 .. Len(reports) + 1
            /\ reports'[Len(reports) + 1] = Buffer(modem'.buffer)
        BY <4>1, <4>3, AppendTypes
      <4>5. /\ Len(reports) + 1 \in DOMAIN reports'
            /\ IsBuffer(reports'[Len(reports) + 1])
            /\ \A j \in DOMAIN reports' :
                 j >= Len(reports) + 1 => reports'[j][2] >= modem'.buffer
        BY <4>2, <4>4 DEF IsBuffer, Buffer
      <4>6. NewestEnough'
        BY <4>5 DEF NewestEnough, Enough
      <4>. QED BY <3>1, <4>6 DEF Roomy
    <3>. QED BY <3>2, <3>3
  <2>. QED BY <2>1, <2>2
<1>4. ASSUME DtxCount PROVE Roomy'
  <2>1. dtx.pc = "count" /\ dtx'.pc = "sleep"
    BY <1>4, DtxTypes DEF DtxCount, DtxGoto, Chunks
  <2>. QED
    BY <1>4, <2>1 DEF DtxCount, shared, Roomy, NewestEnough, InHand, Enough, Vara
<1>5. ASSUME DtxSleep PROVE Roomy'
  <2>1. dtx.pc = "sleep" /\ dtx'.pc \in {"look", "room"}
    BY <1>5, DtxTypes DEF DtxSleep, Chunks
  <2>2. Vara => /\ \A i \in DOMAIN reports : ~ IsBuffer(reports[i])
                /\ ~ InHand
    BY <1>5 DEF DtxSleep, ReportUnderWay, InHand
  <2>3. Vara => AllEnough
    BY <2>1, <2>2 DEF Roomy, NewestEnough, AllEnough
  <2>. QED
    BY <1>5, <2>1, <2>3 DEF DtxSleep, shared, accounts, Roomy, AllEnough, InHand, Enough, Vara
<1>6. ASSUME CrxRead PROVE Roomy'
  <2>1. /\ crx.pc = "read" /\ ~ InHand /\ reports # <<>> /\ reports' = Tail(reports)
        /\ crx'.pc = "act" /\ crx'.report = Head(reports)
        /\ UNCHANGED <<modem_type, buffer_size, dtx, modem, forgot>>
    BY <1>6 DEF CrxRead, shared, accounts, InHand
  <2>2. reports \in Seq(Words) /\ Len(reports) \in Nat /\ Len(reports) > 0
    BY <2>1, LengthTypes DEF TypeOK
  <2>3. /\ crx'.report = reports[1] /\ DOMAIN reports' = 1 .. Len(reports) - 1
        /\ \A i \in 1 .. Len(reports) - 1 : reports'[i] = reports[i + 1]
    BY <2>1, <2>2, TailTypes
  <2>4. /\ DOMAIN reports = 1 .. Len(reports)
        /\ \A i \in DOMAIN reports' : i + 1 \in DOMAIN reports /\ reports'[i] = reports[i + 1]
        /\ \A i \in DOMAIN reports : i # 1 => i - 1 \in DOMAIN reports'
                                              /\ reports'[i - 1] = reports[i]
    <3>1. DOMAIN reports = 1 .. Len(reports)
      BY <2>2
    <3>2. \A i \in 1 .. Len(reports) - 1 : i + 1 \in 1 .. Len(reports)
      BY <2>2
    <3>3. \A i \in 1 .. Len(reports) : i # 1 => i - 1 \in 1 .. Len(reports) - 1 /\ i - 1 + 1 = i
      BY <2>2
    <3>. QED BY <2>3, <3>1, <3>2, <3>3
  <2>5. InHand' <=> IsBuffer(reports[1])
    BY <2>1, <2>3 DEF InHand, IsBuffer
  <2>6. AllEnough => AllEnough'
    <3> SUFFICES ASSUME AllEnough PROVE AllEnough'
      OBVIOUS
    <3>1. \A i \in DOMAIN reports' : IsBuffer(reports'[i]) => reports'[i][2] >= modem.buffer
      BY <2>4 DEF AllEnough, Enough
    <3>2. IsBuffer(reports[1]) => reports[1][2] >= modem.buffer
      BY <2>2, <2>4 DEF AllEnough, Enough
    <3>. QED BY <2>1, <2>3, <2>5, <3>1, <3>2 DEF AllEnough, Enough
  <2>7. NewestEnough => NewestEnough'
    <3>1. ASSUME NEW i \in DOMAIN reports, IsBuffer(reports[i]),
                 \A j \in DOMAIN reports :
                   j >= i /\ IsBuffer(reports[j]) => reports[j][2] >= modem.buffer
          PROVE  NewestEnough'
      <4>1. CASE \E k \in DOMAIN reports : k # 1 /\ k >= i /\ IsBuffer(reports[k])
        <5>1. PICK k \in DOMAIN reports : k # 1 /\ k >= i /\ IsBuffer(reports[k])
          BY <4>1
        <5>2. k - 1 \in DOMAIN reports' /\ IsBuffer(reports'[k - 1])
          BY <2>4, <5>1
        <5>3. \A j \in DOMAIN reports' :
                j >= k - 1 /\ IsBuffer(reports'[j]) => reports'[j][2] >= modem.buffer
          <6>1. ASSUME NEW j \in DOMAIN reports', j >= k - 1
                PROVE  j + 1 \in DOMAIN reports /\ j + 1 >= i /\ reports'[j] = reports[j + 1]
            BY <2>2, <2>3, <2>4, <5>1, <6>1
          <6>. QED BY <3>1, <6>1
        <5>. QED BY <2>1, <5>2, <5>3 DEF NewestEnough, Enough
      <4>2. CASE \A k \in DOMAIN reports : k # 1 /\ k >= i => ~ IsBuffer(reports[k])
        <5>1. i = 1
          BY <2>4, <3>1, <4>2
        <5>2. reports[1][2] >= modem.buffer /\ IsBuffer(reports[1])
          BY <2>4, <3>1, <5>1
        <5>3. \A j \in DOMAIN reports' : ~ IsBuffer(reports'[j])
          <6>1. ASSUME NEW j \in DOMAIN reports'
                PROVE  j + 1 \in DOMAIN reports /\ j + 1 # 1 /\ j + 1 >= 1
            BY <2>2, <2>3, <2>4
          <6>. QED BY <2>4, <4>2, <5>1, <6>1
        <5>. QED BY <2>1, <2>3, <2>5, <5>2, <5>3 DEF NewestEnough, Enough
      <4>. QED BY <4>1, <4>2
    <3>2. ASSUME \A i \in DOMAIN reports : ~ IsBuffer(reports[i]),
                 buffer_size >= modem.buffer \/ forgot
          PROVE  NewestEnough'
      <4>1. \A j \in DOMAIN reports' : ~ IsBuffer(reports'[j])
        BY <2>4, <3>2
      <4>2. ~ InHand'
        BY <2>2, <2>4, <2>5, <3>2
      <4>. QED BY <2>1, <3>2, <4>1, <4>2 DEF NewestEnough, Enough
    <3>. QED BY <2>1, <3>1, <3>2 DEF NewestEnough, Enough
  <2>. QED BY <2>1, <2>6, <2>7 DEF Roomy, Vara
<1>7. ASSUME CrxConnected \/ CrxZero PROVE Roomy'
  <2>1. ~ IsBuffer(crx.report) /\ crx'.pc # "act"
    BY <1>7, CrxGoes DEF CrxConnected, CrxZero, Connected, Disconnected, IsBuffer
  <2>. QED
    BY <1>7, <2>1, RoomyActed DEF CrxConnected, CrxZero, shared, accounts, InHand
<1>8. ASSUME CrxZeroBuffered \/ CrxFall \/ CrxDown \/ CrxCompare \/ CrxSettle PROVE Roomy'
  <2>1. crx.pc # "act" /\ crx'.pc # "act"
    BY <1>8, CrxGoes DEF CrxZeroBuffered, CrxFall, CrxDown, CrxCompare, CrxSettle
  <2>. QED
    BY <1>8, <2>1, RoomyActed
       DEF CrxZeroBuffered, CrxFall, CrxDown, CrxCompare, CrxSettle, shared, accounts, InHand
<1>9. ASSUME CrxBuffer PROVE Roomy'
  <2>1. /\ InHand /\ ~ InHand' /\ buffer_size' = crx.report[2]
        /\ (forgot' <=> forgot /\ dtx.pc = "write")
        /\ UNCHANGED <<modem_type, dtx, modem, reports>>
    BY <1>9, CrxGoes DEF CrxBuffer, InHand
  <2>2. AllEnough => AllEnough'
    BY <2>1 DEF AllEnough, Enough
  <2>3. NewestEnough => NewestEnough'
    BY <2>1 DEF NewestEnough, Enough
  <2>. QED BY <2>1, <2>2, <2>3 DEF Roomy, Vara
<1>10. ASSUME CtxForget PROVE Roomy'
  <2>1. /\ buffer_size' = 0 /\ (forgot' <=> modem.buffer > 0)
        /\ UNCHANGED <<modem_type, dtx, crx, modem, reports>>
    BY <1>10 DEF CtxForget
  <2>2. buffer_size' >= modem.buffer \/ forgot'
    BY <2>1, ReportTypes
  <2>3. AllEnough => AllEnough'
    BY <2>1, <2>2 DEF AllEnough, InHand, Enough
  <2>4. NewestEnough => NewestEnough'
    BY <2>1, <2>2 DEF NewestEnough, InHand, Enough
  <2>5. modem.buffer + dtx.packet_size <= MaxBuffer \/ forgot'
    BY <2>1, ReportTypes, DtxTypes DEF DataAssumption
  <2>. QED BY <2>1, <2>3, <2>4, <2>5 DEF Roomy, Vara
<1>11. ASSUME LinkUp PROVE Roomy'
  <2>1. Connected \in Words /\ ~ IsBuffer(Connected) /\ modem'.buffer = modem.buffer
    BY <1>11 DEF LinkUp, Connected, Words, IsBuffer, TypeOK
  <2>2. /\ reports' = Append(reports, Connected)
        /\ UNCHANGED <<modem_type, buffer_size, dtx, crx, forgot>>
    BY <1>11 DEF LinkUp, Quiet, shared, threads, accounts
  <2>3. modem'.buffer \in Nat /\ modem'.buffer <= modem.buffer
    BY <2>1, ReportTypes
  <2>. QED BY <2>1, <2>2, <2>3, RoomyReported
<1>12. ASSUME LinkDown PROVE Roomy'
  <2>1. CASE ~ Vara
    BY <1>12, <2>1 DEF LinkDown, Quiet, shared, Roomy, Vara
  <2>2. CASE Vara
    <3>1. Disconnected \in Words /\ ~ IsBuffer(Disconnected) /\ modem'.buffer = 0
      BY <1>12 DEF LinkDown, Disconnected, Words, IsBuffer, TypeOK
    <3>2. reports' = Append(reports, Disconnected)
      BY <1>12, <2>2, <3>1 DEF LinkDown, TypeOK
    <3>3. UNCHANGED <<modem_type, buffer_size, dtx, crx, forgot>>
      BY <1>12 DEF LinkDown, Quiet, shared, threads, accounts
    <3>4. modem'.buffer \in Nat /\ modem'.buffer <= modem.buffer
      BY <3>1, ReportTypes
    <3>. QED BY <3>1, <3>2, <3>3, <3>4, RoomyReported
  <2>. QED BY <2>1, <2>2
<1>13. ASSUME Transmit PROVE Roomy'
  <2>1. CASE ~ Vara
    BY <1>13, <2>1 DEF Transmit, Quiet, shared, Roomy, Vara
  <2>2. CASE Vara
    <3>1. modem'.buffer \in Nat /\ modem'.buffer <= modem.buffer
      <4>1. modem.buffer \in Nat /\ \A n \in 1 .. modem.buffer : modem.buffer - n \in Nat
                                                  /\ modem.buffer - n <= modem.buffer
        BY ReportTypes
      <4>2. \E n \in 1 .. modem.buffer : modem'.buffer = modem.buffer - n
        BY <1>13 DEF Transmit, TypeOK
      <4>. QED BY <4>1, <4>2
    <3>2. /\ Buffer(modem'.buffer) \in Words /\ Buffer(modem'.buffer)[2] = modem'.buffer
      BY <3>1 DEF Buffer, Words
    <3>3. /\ reports' = Append(reports, Buffer(modem'.buffer))
          /\ UNCHANGED <<modem_type, buffer_size, dtx, crx, forgot>>
      BY <1>13, <2>2 DEF Transmit, Quiet, shared, threads, accounts
    <3>. QED BY <3>1, <3>2, <3>3, RoomyReported
  <2>. QED BY <2>1, <2>2
<1>14. ASSUME Answer PROVE Roomy'
  <2>1. modem'.buffer = modem.buffer
    BY <1>14 DEF Answer, TypeOK
  <2>2. Buffer(modem.buffer) \in Words /\ Buffer(modem.buffer)[2] = modem.buffer
    BY ReportTypes DEF Buffer, Words
  <2>3. /\ reports' = Append(reports, Buffer(modem.buffer))
        /\ UNCHANGED <<modem_type, buffer_size, dtx, crx, forgot>>
    BY <1>14 DEF Answer, Quiet, shared, threads, accounts
  <2>4. modem'.buffer \in Nat /\ modem'.buffer <= modem.buffer
    BY <2>1, ReportTypes
  <2>. QED BY <2>1, <2>2, <2>3, <2>4, RoomyReported
<1>15. ASSUME \/ Put \/ SessionEnd \/ CtxLook \/ CtxAsk \/ CtxHangUp \/ Reset("reset", "wait")
              \/ CtxWait \/ Reset("resetAgain", "clean") \/ UNCHANGED vars
       PROVE Roomy'
  <2>1. modem'.buffer = modem.buffer
    BY <1>15 DEF Put, SessionEnd, CtxLook, CtxAsk, CtxHangUp, Reset, CtxWait, vars, TypeOK
  <2>. QED
    BY <1>15, <2>1, RoomyKept
       DEF Put, SessionEnd, CtxLook, CtxAsk, CtxHangUp, Reset, CtxWait, vars, shared, threads,
           accounts
<1>16. ASSUME CtxClean PROVE Roomy'
  <2>1. CASE ~ Vara
    BY <1>16, <2>1 DEF CtxClean, Roomy, Vara
  <2>2. CASE Vara
    BY <1>16, <2>2, RoomyKept DEF CtxClean, accounts
  <2>. QED BY <2>1, <2>2
<1>. QED
  BY <1>1, <1>2, <1>3, <1>4, <1>5, <1>6, <1>7, <1>8, <1>9, <1>10, <1>11, <1>12, <1>13,
     <1>14, <1>15, <1>16
     DEF Next, DataTx, ControlRx, ControlTx

-----------------------------------------------------------------------------
(* Only a write of the data thread adds to the modem's buffer.             *)
LEMMA WriteFits ==
  TypeOK /\ Roomy /\ [Next]_vars =>
    (Vara /\ modem'.buffer > modem.buffer => modem'.buffer <= MaxBuffer \/ forgot)
<1> SUFFICES ASSUME TypeOK, Roomy, [Next]_vars, Vara, modem'.buffer > modem.buffer
             PROVE  modem'.buffer <= MaxBuffer \/ forgot
  OBVIOUS
<1> USE DataAssumption
<1>1. CASE DtxWrite
  <2>1. modem'.buffer \in {modem.buffer + dtx.chunk, modem.buffer} /\ dtx.pc = "write"
    BY <1>1 DEF DtxWrite, TypeOK
  <2>2. modem.buffer + dtx.packet_size <= MaxBuffer \/ forgot
    BY <2>1 DEF Roomy
  <2>3. dtx.chunk \in Nat /\ dtx.packet_size \in Nat /\ dtx.chunk <= dtx.packet_size
        /\ modem.buffer \in Nat /\ MaxBuffer \in Nat
    BY ReportTypes, DtxTypes DEF DataAssumption
  <2>4. modem'.buffer = modem.buffer + dtx.chunk
    BY <2>1, <2>3
  <2>. QED BY <2>2, <2>3, <2>4
<1>2. CASE LinkDown \/ Transmit
  <2>1. modem'.buffer = 0 \/ \E n \in 1 .. modem.buffer : modem'.buffer = modem.buffer - n
    BY <1>2 DEF LinkDown, Transmit, TypeOK
  <2>. QED BY <2>1, ReportTypes
<1>3. CASE \/ Put \/ SessionEnd \/ DtxLook \/ DtxTake \/ DtxTest \/ DtxCopy \/ DtxRoom
           \/ DtxCount \/ DtxSleep \/ UNCHANGED vars
  <2>1. modem' = modem
    BY <1>3 DEF Put, SessionEnd, DtxLook, DtxTake, DtxTest, DtxCopy, DtxRoom, DtxCount, DtxSleep,
                vars
  <2>. QED BY <2>1, ReportTypes
<1>4. CASE ControlRx
  <2>1. modem' = modem
    BY <1>4
       DEF ControlRx, CrxRead, CrxConnected, CrxZero, CrxZeroBuffered, CrxFall, CrxDown,
           CrxBuffer, CrxCompare, CrxSettle
  <2>. QED BY <2>1, ReportTypes
<1>5. CASE ControlTx \/ LinkUp \/ Answer
  <2>1. modem'.buffer = modem.buffer
    BY <1>5
       DEF ControlTx, CtxLook, CtxAsk, CtxHangUp, Reset, CtxWait, CtxClean, CtxForget,
           LinkUp, Answer, TypeOK
  <2>. QED BY <2>1, ReportTypes
<1>. QED BY <1>1, <1>2, <1>3, <1>4, <1>5 DEF Next, DataTx

LEMMA InitHolds == Init => IInv
<1> SUFFICES ASSUME Init PROVE IInv
  OBVIOUS
<1> USE DataAssumption DEF Init
<1>1. TypeOK
  <2>1. <<>> \in Tags /\ <<>> \in Seq(Words) /\ Len(<<>>) <= Capacity /\ 0 \in 0 .. BufferSize
    BY DEF Tags
  <2>2. NoReport \in Words
    BY DEF NoReport, Words
  <2>3. DtxOK
    BY <2>1 DEF DtxOK, Chunks, Places
  <2>4. crx \in [pc : {"read", "act", "zero", "fall", "down", "compare", "settle"},
                 report : Words]
    BY <2>2
  <2>5. modem \in [link : BOOLEAN, buffer : Nat, sent : Nat, hangup : BOOLEAN, asked : BOOLEAN]
    OBVIOUS
  <2>. QED BY <2>1, <2>3, <2>4, <2>5 DEF TypeOK, DtxOK, Chunks, Places
<1>2. Accounts
  BY DEF Accounts, Counted, Uncounted
<1>3. Emptied
  BY DEF Emptied, Fresh
<1>4. Roomy
  BY DEF Roomy, AllEnough, InHand, Enough
<1>. QED BY <1>1, <1>2, <1>3, <1>4 DEF IInv

LEMMA InvariantHolds == Spec => []IInv
<1>1. IInv /\ [Next]_vars => IInv'
  BY TypeStep, AccountsStep, EmptiedStep, RoomyStep DEF IInv
<1>. QED BY InitHolds, <1>1, PTL DEF Spec

(* Whatever the threads and the modem do, the state stays well-typed; no   *)
(* count ever falls below nought, although bytes_transmitted is computed   *)
(* from two counts that other threads change.                              *)
THEOREM TypeCorrect == Spec => []TypeOK
<1>1. IInv => TypeOK
  BY DEF IInv
<1>. QED BY InvariantHolds, <1>1, PTL

(* What the VARA driver says was transmitted and what it says is buffered  *)
(* never exceed what it wrote, and equal it but for a race.                *)
THEOREM BytesCounted == Spec => []Counted
<1>1. IInv => Counted
  BY DEF IInv, Accounts
<1>. QED BY InvariantHolds, <1>1, PTL

(* After a clean-up that no new connection overtook, no byte from before   *)
(* the end of the connection is left in in_buffer, unless a reset fell     *)
(* between the test and the copy of a get_range.                           *)
THEOREM OldEmptied == Spec => []OldBytesEmptied
<1>1. IInv => OldBytesEmptied
  BY DEF IInv, Emptied, Fresh, OldBytesEmptied
<1>. QED BY InvariantHolds, <1>1, PTL

(* VARA is never given more than MAX_VARA_BUFFER bytes by what the data    *)
(* thread knows of its buffer, whatever the order of writes and reports.   *)
THEOREM NeverOverfilled == Spec => NotOverfilled
<1>1. IInv /\ [Next]_vars =>
        [Vara /\ modem'.buffer > modem.buffer => (modem'.buffer <= MaxBuffer \/ forgot)]_vars
  BY WriteFits DEF IInv
<1>. QED BY InvariantHolds, <1>1, PTL DEF Spec, NotOverfilled

-----------------------------------------------------------------------------
(* The counts and the modem.                                               *)

(* The buffer reports in s fall from at most high to low.                  *)
Falling(s, low, high) ==
  /\ low <= high
  /\ (\A i \in DOMAIN s : ~ IsBuffer(s[i])) => high = low
  /\ \A i \in DOMAIN s : IsBuffer(s[i]) =>
       /\ low <= s[i][2] /\ s[i][2] <= high
       /\ \A j \in DOMAIN s : j > i /\ IsBuffer(s[j]) => s[j][2] <= s[i][2]
       /\ (\A j \in DOMAIN s : j > i => ~ IsBuffer(s[j])) => s[i][2] = low

(* There is a buffer report after the last DISCONNECTED in s.              *)
Recent(s) ==
  \E i \in DOMAIN s : IsBuffer(s[i]) /\ \A j \in DOMAIN s : j > i => s[j] # Disconnected

(* No end of a link is still to be acted on.                               *)
NoneDown ==
  /\ \A i \in DOMAIN reports : reports[i] # Disconnected
  /\ crx.pc # "zero" /\ ~ (crx.pc = "act" /\ crx.report = Disconnected)

(* What was handed over on this link is in the modem or was transmitted.   *)
Ledger ==
  IF modem.link THEN handed = modem.sent + modem.buffer
  ELSE handed = 0 /\ modem.buffer = 0

(* What bytes_buffered_tx will be when every thread has done what it is    *)
(* at, and what it will be when the report in hand has been acted on.      *)
Base == IF crx.pc = "settle" THEN buffer_size ELSE bytes_buffered_tx + Uncounted
Newer ==
  IF InHand THEN crx.report[2]
  ELSE IF crx.pc = "compare" THEN buffer_size ELSE Base

Chain ==
  /\ crx.pc = "settle" => dtx.pc # "count"
  /\ Newer <= Base
  /\ Falling(reports, modem.buffer, Newer)

Tracked ==
  Vara =>
    /\ ~ modem.asked
    /\ crx.pc \in {"compare", "settle"} => IsBuffer(crx.report)
    /\ Recent(reports) => modem.buffer # 0 \/ (modem.link /\ modem.sent # 0)
    /\ NoneDown /\ ~ crossed => Ledger
    /\ NoneDown /\ ~ crossed /\ ~ raced => Chain

-----------------------------------------------------------------------------
LEMMA WordsAre ==
  ASSUME NEW s \in Seq(Words)
  PROVE  /\ Len(s) \in Nat /\ DOMAIN s = 1 .. Len(s)
         /\ \A i \in DOMAIN s : s[i] \in Words /\ s[i][2] \in Nat
BY DEF Words

LEMMA FallingTail ==
  ASSUME NEW s \in Seq(Words), s # <<>>, NEW low \in Nat, NEW high \in Nat,
         Falling(s, low, high)
  PROVE  IF IsBuffer(Head(s))
         THEN Head(s)[2] <= high /\ Falling(Tail(s), low, Head(s)[2])
         ELSE Falling(Tail(s), low, high)
<1> DEFINE t == Tail(s)
           h == Head(s)
<1>1. /\ t \in Seq(Words) /\ h \in Words /\ h = s[1]
      /\ Len(t) = Len(s) - 1
      /\ \A i \in 1 .. Len(s) - 1 : t[i] = s[i + 1]
  BY TailTypes
<1>2. /\ Len(s) \in Nat /\ Len(s) > 0 /\ DOMAIN s = 1 .. Len(s)
      /\ DOMAIN t = 1 .. Len(s) - 1
      /\ \A i \in DOMAIN s : s[i][2] \in Nat
  BY <1>1, WordsAre, LengthTypes
<1> HIDE DEF t, h
<1>3. \A i \in DOMAIN t : t[i] = s[i + 1] /\ i + 1 \in DOMAIN s
  BY <1>1, <1>2
<1>4. \A i \in DOMAIN s : i = 1 \/ i - 1 \in DOMAIN t
  BY <1>2
<1>5. ASSUME NEW i \in DOMAIN t, IsBuffer(t[i])
      PROVE  /\ low <= t[i][2] /\ t[i][2] <= high
             /\ IsBuffer(h) => t[i][2] <= h[2]
             /\ \A j \in DOMAIN t : j > i /\ IsBuffer(t[j]) => t[j][2] <= t[i][2]
             /\ (\A j \in DOMAIN t : j > i => ~ IsBuffer(t[j])) => t[i][2] = low
  <2>1. IsBuffer(s[i + 1]) /\ i + 1 \in DOMAIN s /\ t[i] = s[i + 1] /\ 1 \in DOMAIN s /\ i + 1 > 1
    BY <1>2, <1>3, <1>5
  <2>2. /\ low <= s[i + 1][2] /\ s[i + 1][2] <= high
        /\ IsBuffer(s[1]) => s[i + 1][2] <= s[1][2]
    BY <2>1 DEF Falling
  <2>3. ASSUME NEW j \in DOMAIN t, j > i, IsBuffer(t[j]) PROVE t[j][2] <= t[i][2]
    <3>1. j + 1 \in DOMAIN s /\ j + 1 > i + 1 /\ t[j] = s[j + 1]
      BY <1>2, <1>3, <2>3
    <3>. QED BY <2>1, <2>3, <3>1 DEF Falling
  <2>4. ASSUME \A j \in DOMAIN t : j > i => ~ IsBuffer(t[j]) PROVE t[i][2] = low
    <3>1. ASSUME NEW j \in DOMAIN s, j > i + 1 PROVE ~ IsBuffer(s[j])
      <4>1. j - 1 \in DOMAIN t /\ j - 1 > i /\ (j - 1) + 1 = j
        BY <1>2, <3>1
      <4>. QED BY <1>3, <2>4, <4>1
    <3>. QED BY <2>1, <3>1 DEF Falling
  <2>. QED BY <1>1, <2>1, <2>2, <2>3, <2>4
<1>6. (\A i \in DOMAIN t : ~ IsBuffer(t[i])) =>
        (IF IsBuffer(h) THEN h[2] = low ELSE high = low)
  <2> SUFFICES ASSUME \A i \in DOMAIN t : ~ IsBuffer(t[i])
               PROVE  IF IsBuffer(h) THEN h[2] = low ELSE high = low
    OBVIOUS
  <2>1. \A j \in DOMAIN s : j # 1 => ~ IsBuffer(s[j])
    <3> SUFFICES ASSUME NEW j \in DOMAIN s, j # 1 PROVE ~ IsBuffer(s[j])
      OBVIOUS
    <3>1. j - 1 \in DOMAIN t /\ (j - 1) + 1 = j
      BY <1>2
    <3>. QED BY <1>3, <3>1
  <2>2. 1 \in DOMAIN s
    BY <1>2
  <2>. QED BY <1>1, <2>1, <2>2 DEF Falling
<1>7. IsBuffer(h) => low <= h[2] /\ h[2] <= high
  BY <1>1, <1>2 DEF Falling
<1>. QED BY <1>5, <1>6, <1>7 DEF Falling, t, h

LEMMA Appended ==
  ASSUME NEW s \in Seq(Words), NEW e \in Words
  PROVE  /\ DOMAIN Append(s, e) = 1 .. Len(s) + 1
         /\ Append(s, e)[Len(s) + 1] = e
         /\ \A i \in DOMAIN s : i \in DOMAIN Append(s, e) /\ Append(s, e)[i] = s[i] /\ i <= Len(s)
         /\ \A i \in DOMAIN Append(s, e) : i = Len(s) + 1 \/ i \in DOMAIN s
         /\ Len(s) \in Nat
<1>1. /\ Len(s) \in Nat /\ DOMAIN s = 1 .. Len(s)
      /\ Append(s, e) \in Seq(Words) /\ Len(Append(s, e)) = Len(s) + 1
      /\ Append(s, e)[Len(s) + 1] = e
      /\ \A i \in 1 .. Len(s) : Append(s, e)[i] = s[i]
  BY WordsAre, AppendTypes
<1>2. DOMAIN Append(s, e) = 1 .. Len(s) + 1
  BY <1>1, WordsAre
<1>. QED BY <1>1, <1>2

LEMMA FallingOther ==
  ASSUME NEW s \in Seq(Words), NEW low \in Nat, NEW high \in Nat,
         Falling(s, low, high), NEW e \in Words, ~ IsBuffer(e)
  PROVE  Falling(Append(s, e), low, high)
<1> DEFINE t == Append(s, e)
<1>1. /\ DOMAIN t = 1 .. Len(s) + 1 /\ t[Len(s) + 1] = e /\ Len(s) \in Nat
      /\ \A i \in DOMAIN s : i \in DOMAIN t /\ t[i] = s[i] /\ i <= Len(s)
      /\ \A i \in DOMAIN t : i = Len(s) + 1 \/ i \in DOMAIN s
  BY Appended
<1> HIDE DEF t
<1>2. \A i \in DOMAIN t : IsBuffer(t[i]) => i \in DOMAIN s /\ t[i] = s[i]
  BY <1>1
<1>. QED BY <1>1, <1>2 DEF Falling, t

LEMMA FallingReport ==
  ASSUME NEW s \in Seq(Words), NEW low \in Nat, NEW high \in Nat,
         Falling(s, low, high), NEW new \in 0 .. low
  PROVE  Falling(Append(s, Buffer(new)), new, high)
<1> DEFINE e == Buffer(new)
           t == Append(s, e)
           last == Len(s) + 1
<1>0. e \in Words /\ IsBuffer(e) /\ e[2] = new
  BY DEF Words, Buffer, IsBuffer
<1>1. /\ DOMAIN t = 1 .. last /\ t[last] = e /\ Len(s) \in Nat
      /\ \A i \in DOMAIN s : i \in DOMAIN t /\ t[i] = s[i] /\ i < last
      /\ \A i \in DOMAIN t : i = last \/ i \in DOMAIN s
      /\ last \in DOMAIN t
  BY <1>0, Appended
<1>2. \A i \in DOMAIN s : s[i][2] \in Nat
  BY WordsAre
<1> HIDE DEF t, e, last
<1>3. ASSUME NEW i \in DOMAIN t, IsBuffer(t[i])
      PROVE  /\ new <= t[i][2] /\ t[i][2] <= high
             /\ \A j \in DOMAIN t : j > i /\ IsBuffer(t[j]) => t[j][2] <= t[i][2]
             /\ (\A j \in DOMAIN t : j > i => ~ IsBuffer(t[j])) => t[i][2] = new
  <2>1. CASE i = last
    <3>1. t[i][2] = new /\ new <= high
      BY <1>0, <1>1, <2>1 DEF Falling
    <3>2. \A j \in DOMAIN t : ~ (j > i)
      BY <1>1, <2>1
    <3>. QED BY <3>1, <3>2
  <2>2. CASE i \in DOMAIN s
    <3>1. t[i] = s[i] /\ low <= s[i][2] /\ s[i][2] <= high /\ s[i][2] \in Nat
      BY <1>1, <1>2, <1>3, <2>2 DEF Falling
    <3>2. ASSUME NEW j \in DOMAIN t, j > i, IsBuffer(t[j]) PROVE t[j][2] <= t[i][2]
      <4>1. CASE j = last
        BY <1>0, <1>1, <3>1, <4>1
      <4>2. CASE j \in DOMAIN s
        BY <1>1, <1>3, <2>2, <3>1, <3>2, <4>2 DEF Falling
      <4>. QED BY <1>1, <4>1, <4>2
    <3>3. ~ \A j \in DOMAIN t : j > i => ~ IsBuffer(t[j])
      BY <1>0, <1>1, <2>2
    <3>. QED BY <3>1, <3>2, <3>3
  <2>. QED BY <1>1, <2>1, <2>2
<1>4. ~ \A i \in DOMAIN t : ~ IsBuffer(t[i])
  BY <1>0, <1>1
<1>5. new <= high
  BY DEF Falling
<1>. QED BY <1>3, <1>4, <1>5 DEF Falling, t, e

LEMMA FallingFree ==
  ASSUME NEW s \in Seq(Words), \A i \in DOMAIN s : ~ IsBuffer(s[i]), NEW v \in Nat
  PROVE  Falling(s, v, v)
BY DEF Falling

LEMMA RecentTail ==
  ASSUME NEW s \in Seq(Words), s # <<>>, Recent(Tail(s))
  PROVE  Recent(s)
<1> DEFINE t == Tail(s)
<1>1. /\ Len(s) \in Nat /\ DOMAIN s = 1 .. Len(s) /\ DOMAIN t = 1 .. Len(s) - 1
      /\ \A i \in DOMAIN t : t[i] = s[i + 1] /\ i + 1 \in DOMAIN s
  <2>1. /\ t \in Seq(Words) /\ Len(t) = Len(s) - 1
        /\ \A i \in 1 .. Len(s) - 1 : t[i] = s[i + 1]
    BY TailTypes
  <2>2. Len(s) \in Nat /\ DOMAIN s = 1 .. Len(s) /\ DOMAIN t = 1 .. Len(s) - 1
    BY <2>1, WordsAre
  <2>. QED BY <2>1, <2>2
<1> HIDE DEF t
<1>2. PICK i \in DOMAIN t : IsBuffer(t[i]) /\ \A j \in DOMAIN t : j > i => t[j] # Disconnected
  BY DEF Recent, t
<1>3. i + 1 \in DOMAIN s /\ IsBuffer(s[i + 1])
  BY <1>1, <1>2
<1>4. ASSUME NEW j \in DOMAIN s, j > i + 1 PROVE s[j] # Disconnected
  <2>1. j - 1 \in DOMAIN t /\ j - 1 > i /\ (j - 1) + 1 = j
    BY <1>1, <1>4
  <2>. QED BY <1>1, <1>2, <2>1
<1>. QED BY <1>3, <1>4 DEF Recent

LEMMA RecentAppend ==
  ASSUME NEW s \in Seq(Words), NEW e \in Words, ~ IsBuffer(e), Recent(Append(s, e))
  PROVE  Recent(s) /\ e # Disconnected
<1> DEFINE t == Append(s, e)
<1>1. /\ DOMAIN t = 1 .. Len(s) + 1 /\ t[Len(s) + 1] = e /\ Len(s) \in Nat
      /\ \A i \in DOMAIN s : i \in DOMAIN t /\ t[i] = s[i] /\ i <= Len(s)
      /\ \A i \in DOMAIN t : i = Len(s) + 1 \/ i \in DOMAIN s
      /\ Len(s) + 1 \in DOMAIN t
  BY Appended
<1> HIDE DEF t
<1>2. PICK i \in DOMAIN t : IsBuffer(t[i]) /\ \A j \in DOMAIN t : j > i => t[j] # Disconnected
  BY DEF Recent, t
<1>3. i \in DOMAIN s /\ i < Len(s) + 1
  BY <1>1, <1>2
<1>4. e # Disconnected
  BY <1>1, <1>2, <1>3
<1>. QED BY <1>1, <1>2, <1>3, <1>4 DEF Recent

(* The types the step below needs of the counts and of the modem.          *)
LEMMA CountTypes ==
  ASSUME TypeOK
  PROVE  /\ buffer_size \in Nat /\ bytes_transmitted \in Nat /\ bytes_buffered_tx \in Nat
         /\ handed \in Nat /\ dtx.packet_size \in Nat /\ Uncounted \in Nat
         /\ modem.link \in BOOLEAN /\ modem.buffer \in Nat /\ modem.sent \in Nat
         /\ raced \in BOOLEAN /\ crossed \in BOOLEAN
         /\ reports \in Seq(Words) /\ crx.report \in Words /\ crx.report[2] \in Nat
         /\ Base \in Nat /\ Newer \in Nat
<1>1. /\ buffer_size \in Nat /\ bytes_transmitted \in Nat /\ bytes_buffered_tx \in Nat
      /\ handed \in Nat /\ raced \in BOOLEAN /\ crossed \in BOOLEAN
  BY BooleanTypes
<1>2. dtx.packet_size \in Nat /\ Uncounted \in Nat
  BY DtxTypes, DataAssumption DEF Uncounted
<1>3. /\ modem.link \in BOOLEAN /\ modem.buffer \in Nat /\ modem.sent \in Nat
      /\ reports \in Seq(Words) /\ crx.report \in Words
  BY DEF TypeOK
<1>4. crx.report[2] \in Nat
  BY <1>3 DEF Words
<1>5. Base \in Nat
  BY <1>1, <1>2 DEF Base
<1>6. Newer \in Nat
  BY <1>1, <1>4, <1>5 DEF Newer
<1>. QED BY <1>1, <1>2, <1>3, <1>4, <1>5, <1>6

(* A step that leaves alone all that the invariant speaks of.              *)
LEMMA TrackedKept ==
  ASSUME Tracked,
         UNCHANGED <<modem_type, buffer_size, counts, crx, reports, handed, raced, crossed>>,
         Vara => UNCHANGED <<modem.link, modem.buffer, modem.sent, modem.asked>>,
         Uncounted' = Uncounted, (dtx'.pc = "count") <=> (dtx.pc = "count")
  PROVE  Tracked'
<1>1. /\ Base' = Base /\ Newer' = Newer
      /\ Recent(reports)' <=> Recent(reports)
      /\ NoneDown' <=> NoneDown
  BY DEF Base, Newer, InHand, Recent, NoneDown, counts
<1>2. Vara => (Ledger' <=> Ledger)
  BY DEF Ledger
<1>3. Vara => (Chain => Chain')
  BY <1>1 DEF Chain, Falling
<1>. QED BY <1>1, <1>2, <1>3 DEF Tracked, Vara

(* The end of a link, once reported, hides what comes before it.           *)
LEMMA OnlyNew ==
  ASSUME TypeOK, NEW e \in Words, reports' = Append(reports, e), crx' = crx
  PROVE  NoneDown' => NoneDown /\ e # Disconnected
<1>1. /\ DOMAIN reports' = 1 .. Len(reports) + 1 /\ reports'[Len(reports) + 1] = e
      /\ \A i \in DOMAIN reports : i \in DOMAIN reports' /\ reports'[i] = reports[i]
      /\ Len(reports) \in Nat
  BY CountTypes, Appended
<1>. QED BY <1>1 DEF NoneDown

LEMMA TrackedWrite == TypeOK /\ Accounts /\ Tracked /\ DtxWrite => Tracked'
<1> SUFFICES ASSUME TypeOK, Accounts, Tracked, DtxWrite, Vara PROVE Tracked'
  BY DEF Tracked, DtxWrite, shared, Vara
<1>0. /\ crx' = crx /\ bytes_buffered_tx' = bytes_buffered_tx /\ buffer_size' = buffer_size
      /\ bytes_transmitted' = bytes_transmitted /\ raced' = raced /\ (Vara' <=> Vara)
  BY DEF DtxWrite, shared, counts, Vara
<1>1. PICK n \in Nat : n = dtx.chunk /\ n > 0 /\ n = dtx.packet_size
  BY DtxTypes DEF DtxWrite, DtxOK, Accounts
<1>2. /\ dtx.pc = "write" /\ dtx'.pc = "count" /\ dtx'.packet_size = n
      /\ handed' = handed + n /\ crossed' = (crossed \/ ReportUnderWay \/ ~ modem.link)
  BY <1>1, DtxTypes DEF DtxWrite, Chunks
<1>3. PICK kept \in BOOLEAN : /\ modem.link => kept
                              /\ modem' = [modem EXCEPT !.buffer = IF kept THEN modem.buffer + n ELSE modem.buffer]
  BY <1>1 DEF DtxWrite
<1>4. reports' = IF modem' # modem THEN Append(reports, Buffer(modem'.buffer)) ELSE reports
  BY DEF DtxWrite
<1>5. /\ modem'.link = modem.link /\ modem'.sent = modem.sent /\ modem'.asked = modem.asked
      /\ kept => modem'.buffer = modem.buffer + n /\ modem'.buffer # 0 /\ modem' # modem
      /\ ~ kept => modem' = modem
  <2>1. modem \in [link : BOOLEAN, buffer : Nat, sent : Nat, hangup : BOOLEAN, asked : BOOLEAN]
    BY DEF TypeOK
  <2>2. modem.buffer \in Nat /\ modem.buffer + n # modem.buffer /\ modem.buffer + n # 0
    BY <1>1, <2>1
  <2>3. CASE kept
    <3>1. modem' = [modem EXCEPT !.buffer = modem.buffer + n]
      BY <1>3, <2>3
    <3>2. /\ modem'.link = modem.link /\ modem'.sent = modem.sent
          /\ modem'.asked = modem.asked /\ modem'.buffer = modem.buffer + n
      BY <2>1, <3>1
    <3>. QED BY <2>2, <2>3, <3>2
  <2>4. CASE ~ kept
    <3>1. modem' = modem
      BY <1>3, <2>1, <2>4
    <3>. QED BY <2>4, <3>1
  <2>. QED BY <2>3, <2>4
<1>6. ASSUME Recent(reports') PROVE modem'.buffer # 0 \/ (modem'.link /\ modem'.sent # 0)
  <2>1. CASE kept
    BY <1>5, <2>1
  <2>2. CASE ~ kept
    BY <1>4, <1>5, <1>6, <2>2 DEF Tracked
  <2>. QED BY <2>1, <2>2
<1>7. ASSUME NoneDown', ~ crossed' PROVE Ledger' /\ (~ raced => Chain')
  <2>1. /\ ~ crossed /\ modem.link /\ ~ ReportUnderWay
        /\ kept /\ modem'.buffer = modem.buffer + n
        /\ reports' = Append(reports, Buffer(modem.buffer + n))
    BY <1>2, <1>3, <1>4, <1>5, <1>7
  <2>2. /\ modem.buffer \in Nat /\ modem.sent \in Nat /\ bytes_buffered_tx \in Nat
        /\ handed \in Nat /\ modem.buffer + n \in Nat
    BY <1>1, CountTypes
  <2>3. NoneDown
    <3>1. Buffer(modem.buffer + n) \in Words
      BY <2>2 DEF Buffer, Words
    <3>. QED BY <1>0, <1>7, <2>1, <3>1, OnlyNew
  <2>4. Ledger'
    <3>1. handed = modem.sent + modem.buffer
      BY <2>1, <2>3 DEF Tracked, Ledger
    <3>. QED BY <1>2, <1>5, <2>1, <2>2, <3>1 DEF Ledger
  <2>5. ASSUME ~ raced PROVE Chain'
    <3>1. crx.pc \notin {"compare", "settle"} /\ ~ InHand
          /\ \A i \in DOMAIN reports : ~ IsBuffer(reports[i])
      BY <2>1 DEF ReportUnderWay, Tracked, InHand
    <3>2. Newer = bytes_buffered_tx
      BY <1>2, <2>2, <3>1 DEF Newer, Base, Uncounted
    <3>3. Newer = modem.buffer
      BY <2>1, <2>3, <2>5, <3>1 DEF Tracked, Chain, Falling
    <3>4. Newer' = modem.buffer + n /\ Base' = modem.buffer + n
      BY <1>0, <1>2, <3>1, <3>2, <3>3 DEF Newer, Base, InHand, Uncounted
    <3>5. Falling(Append(reports, Buffer(modem.buffer + n)), modem.buffer + n, modem.buffer + n)
      <4>1. Falling(reports, modem.buffer + n, modem.buffer + n)
        BY <2>2, <3>1, CountTypes, FallingFree
      <4>2. modem.buffer + n \in 0 .. modem.buffer + n
        BY <2>2
      <4>. QED BY <2>2, <4>1, <4>2, CountTypes, FallingReport
    <3>. QED BY <1>0, <2>1, <2>2, <3>1, <3>4, <3>5 DEF Chain
  <2>. QED BY <2>4, <2>5
<1>. QED BY <1>0, <1>5, <1>6, <1>7 DEF Tracked

LEMMA TrackedModem ==
  TypeOK /\ Tracked /\ (LinkUp \/ LinkDown \/ Transmit \/ Answer) => Tracked'
<1> SUFFICES ASSUME TypeOK, Tracked, LinkUp \/ LinkDown \/ Transmit \/ Answer, Vara
             PROVE  Tracked'
  BY DEF Tracked, LinkUp, LinkDown, Transmit, Answer, Quiet, shared, Vara
<1>0. /\ crx' = crx /\ dtx' = dtx /\ bytes_buffered_tx' = bytes_buffered_tx
      /\ buffer_size' = buffer_size /\ bytes_transmitted' = bytes_transmitted
      /\ raced' = raced /\ crossed' = crossed /\ handed' = handed /\ (Vara' <=> Vara)
      /\ Newer' = Newer /\ Base' = Base
  BY DEF LinkUp, LinkDown, Transmit, Answer, Quiet, shared, counts, threads, accounts, Vara,
         Newer, Base, InHand, Uncounted
<1>1. /\ modem.buffer \in Nat /\ modem.sent \in Nat /\ reports \in Seq(Words)
      /\ Newer \in Nat /\ Base \in Nat
      /\ modem \in [link : BOOLEAN, buffer : Nat, sent : Nat, hangup : BOOLEAN, asked : BOOLEAN]
  BY CountTypes DEF TypeOK
<1>2. ASSUME LinkUp PROVE Tracked'
  <2>1. /\ ~ modem.link /\ modem'.link /\ modem'.sent = 0 /\ modem'.buffer = modem.buffer
        /\ modem'.asked = modem.asked /\ reports' = Append(reports, Connected)
    BY <1>1, <1>2 DEF LinkUp
  <2>2. Connected \in Words /\ ~ IsBuffer(Connected)
    BY DEF Connected, Words, IsBuffer
  <2>3. Recent(reports') => modem'.buffer # 0
    BY <1>1, <2>1, <2>2, RecentAppend DEF Tracked
  <2>4. NoneDown' => NoneDown
    BY <1>0, <2>1, <2>2, OnlyNew
  <2>5. NoneDown' /\ ~ crossed => Ledger'
    BY <1>0, <2>1, <2>4 DEF Tracked, Ledger
  <2>6. Chain => Chain'
    BY <1>0, <1>1, <2>1, <2>2, FallingOther DEF Chain
  <2>. QED BY <1>0, <2>1, <2>3, <2>4, <2>5, <2>6 DEF Tracked
<1>3. ASSUME LinkDown PROVE Tracked'
  <2>1. /\ modem'.asked = modem.asked /\ reports' = Append(reports, Disconnected)
    BY <1>1, <1>3 DEF LinkDown
  <2>2. Disconnected \in Words /\ ~ IsBuffer(Disconnected)
    BY DEF Disconnected, Words, IsBuffer
  <2>3. ~ Recent(reports')
    BY <1>1, <2>1, <2>2, RecentAppend
  <2>4. ~ NoneDown'
    BY <1>0, <2>1, <2>2, OnlyNew
  <2>. QED BY <1>0, <2>1, <2>3, <2>4 DEF Tracked
<1>4. ASSUME Transmit PROVE Tracked'
  <2>1. PICK n \in 1 .. modem.buffer :
          modem' = [modem EXCEPT !.buffer = modem.buffer - n, !.sent = modem.sent + n]
    BY <1>4 DEF Transmit
  <2>2. /\ modem.link /\ modem'.link /\ modem'.asked = modem.asked
        /\ modem'.buffer = modem.buffer - n /\ modem'.sent = modem.sent + n
        /\ reports' = Append(reports, Buffer(modem'.buffer))
    BY <1>1, <1>4, <2>1 DEF Transmit
  <2>3. /\ modem.buffer - n \in 0 .. modem.buffer /\ modem.sent + n # 0
        /\ modem.sent + n + (modem.buffer - n) = modem.sent + modem.buffer
    BY <1>1
  <2>4. NoneDown' => NoneDown
    <3>1. Buffer(modem.buffer - n) \in Words
      BY <1>1, <2>3 DEF Buffer, Words
    <3>. QED BY <1>0, <2>2, <3>1, OnlyNew
  <2>5. NoneDown' /\ ~ crossed => Ledger'
    BY <1>0, <2>2, <2>3, <2>4 DEF Tracked, Ledger
  <2>6. Chain => Chain'
    <3> SUFFICES ASSUME Chain PROVE Chain'
      OBVIOUS
    <3>1. Falling(Append(reports, Buffer(modem.buffer - n)), modem.buffer - n, Newer)
      BY <1>1, <2>3, FallingReport DEF Chain
    <3>. QED BY <1>0, <2>2, <3>1 DEF Chain
  <2>. QED BY <1>0, <2>2, <2>3, <2>4, <2>5, <2>6 DEF Tracked
<1>5. ASSUME Answer PROVE FALSE
  BY <1>5 DEF Answer, Tracked
<1>. QED BY <1>2, <1>3, <1>4, <1>5

LEMMA TrackedControl == TypeOK /\ Tracked /\ ControlRx => Tracked'
<1> SUFFICES ASSUME TypeOK, Tracked, ControlRx, Vara PROVE Tracked'
  BY DEF Tracked, ControlRx, CrxRead, CrxConnected, CrxZero, CrxZeroBuffered, CrxFall,
         CrxDown, CrxBuffer, CrxCompare, CrxSettle, shared, Vara
<1>0. /\ UNCHANGED <<dtx, modem>> /\ Uncounted' = Uncounted /\ (Vara' <=> Vara)
  BY DEF ControlRx, CrxRead, CrxConnected, CrxZero, CrxZeroBuffered, CrxFall,
         CrxDown, CrxBuffer, CrxCompare, CrxSettle, shared, Vara, Uncounted
<1>1. /\ buffer_size \in Nat /\ bytes_buffered_tx \in Nat /\ Uncounted \in Nat
      /\ modem.buffer \in Nat /\ reports \in Seq(Words)
      /\ crx.report \in Words /\ crx.report[2] \in Nat /\ Base \in Nat /\ Newer \in Nat
      /\ raced \in BOOLEAN /\ crossed \in BOOLEAN
  BY CountTypes
<1>2. ASSUME CrxRead PROVE Tracked'
  <2>1. /\ crx.pc = "read" /\ reports # <<>> /\ reports' = Tail(reports)
        /\ crx'.pc = "act" /\ crx'.report = Head(reports)
        /\ buffer_size' = buffer_size /\ bytes_buffered_tx' = bytes_buffered_tx
        /\ handed' = handed /\ raced' = raced /\ crossed' = crossed
    BY <1>2 DEF CrxRead, shared, counts, accounts
  <2>2. Recent(reports') => Recent(reports)
    BY <1>1, <2>1, RecentTail
  <2>3. NoneDown' => NoneDown
    <3>1. /\ Head(reports) = reports[1] /\ Len(reports) \in Nat
          /\ DOMAIN reports = 1 .. Len(reports) /\ DOMAIN reports' = 1 .. Len(reports) - 1
          /\ \A i \in 1 .. Len(reports) - 1 : reports'[i] = reports[i + 1]
      <4>1. Tail(reports) \in Seq(Words) /\ Len(Tail(reports)) = Len(reports) - 1
        BY <1>1, <2>1, TailTypes
      <4>. QED BY <1>1, <2>1, <4>1, TailTypes, WordsAre
    <3>2. SUFFICES ASSUME NoneDown', NEW i \in DOMAIN reports PROVE reports[i] # Disconnected
      BY <2>1 DEF NoneDown
    <3>3. CASE i = 1
      BY <2>1, <3>1, <3>2, <3>3 DEF NoneDown
    <3>4. CASE i # 1
      <4>1. i - 1 \in DOMAIN reports' /\ (i - 1) + 1 = i
        BY <3>1, <3>4
      <4>. QED BY <3>1, <3>2, <4>1 DEF NoneDown
    <3>. QED BY <3>3, <3>4
  <2>4. Ledger' <=> Ledger
    BY <1>0, <2>1 DEF Ledger
  <2>5. Chain => Chain'
    <3>1. Newer = Base /\ Base' = Base
          /\ Newer' = IF IsBuffer(Head(reports)) THEN Head(reports)[2] ELSE Base
      BY <1>0, <2>1 DEF Newer, Base, InHand
    <3>. QED BY <1>0, <1>1, <2>1, <3>1, FallingTail DEF Chain
  <2>. QED BY <1>0, <2>1, <2>2, <2>3, <2>4, <2>5 DEF Tracked
<1>3. ASSUME CrxConnected \/ CrxFall \/ CrxDown PROVE Tracked'
  <2>1. /\ crx.pc \in {"act", "fall", "down"} /\ crx'.pc \in {"down", "read"}
        /\ crx.pc = "act" => crx.report = Connected
        /\ reports' = reports
        /\ buffer_size' = buffer_size /\ bytes_buffered_tx' = bytes_buffered_tx
        /\ handed' = handed /\ raced' = raced /\ crossed' = crossed
    BY <1>3, CrxGoes DEF CrxConnected, CrxFall, CrxDown, counts, accounts
  <2>2. ~ InHand /\ ~ InHand'
    BY <2>1 DEF InHand, IsBuffer, Connected
  <2>3. NoneDown' <=> NoneDown
    BY <2>1 DEF NoneDown, Connected, Disconnected
  <2>4. Newer' = Newer /\ Base' = Base
    BY <1>0, <2>1, <2>2 DEF Newer, Base
  <2>5. Chain => Chain'
    BY <1>0, <2>1, <2>4 DEF Chain
  <2>. QED BY <1>0, <2>1, <2>3, <2>5 DEF Tracked, Ledger
<1>4. ASSUME CrxZero PROVE Tracked'
  <2>1. crx'.pc = "zero" /\ reports' = reports
    BY <1>4, CrxGoes DEF CrxZero
  <2>2. ~ NoneDown'
    BY <2>1 DEF NoneDown
  <2>. QED BY <1>0, <2>1, <2>2 DEF Tracked
<1>5. ASSUME CrxZeroBuffered PROVE Tracked'
  <2>1. /\ crx.pc = "zero" /\ crx'.pc = "fall" /\ reports' = reports
        /\ bytes_buffered_tx' = 0 /\ handed' = Uncounted /\ buffer_size' = buffer_size
        /\ crossed' = (dtx.pc = "count" \/ modem.buffer # 0 \/ (modem.link /\ modem.sent # 0))
    BY <1>5, CrxGoes DEF CrxZeroBuffered, shared
  <2>2. ASSUME NoneDown', ~ crossed' PROVE Ledger' /\ Chain'
    <3>1. /\ dtx.pc # "count" /\ modem.buffer = 0 /\ (modem.link => modem.sent = 0)
          /\ Uncounted = 0
      BY <2>1, <2>2 DEF Uncounted
    <3>2. Ledger'
      BY <1>0, <2>1, <3>1 DEF Ledger
    <3>3. ~ Recent(reports)
      BY <3>1 DEF Tracked
    <3>4. \A i \in DOMAIN reports : reports[i] # Disconnected
      BY <2>1, <2>2 DEF NoneDown
    <3>5. \A i \in DOMAIN reports : ~ IsBuffer(reports[i])
      BY <3>3, <3>4 DEF Recent
    <3>6. Base' = 0 /\ Newer' = 0
      BY <1>0, <2>1, <3>1 DEF Newer, Base, InHand
    <3>7. Falling(reports, 0, 0)
      BY <1>1, <3>5, FallingFree
    <3>. QED BY <1>0, <2>1, <3>1, <3>2, <3>6, <3>7 DEF Chain
  <2>. QED BY <1>0, <2>1, <2>2 DEF Tracked
<1>6. ASSUME CrxBuffer PROVE Tracked'
  <2>1. /\ crx.pc = "act" /\ IsBuffer(crx.report) /\ crx'.pc = "compare"
        /\ crx'.report = crx.report /\ buffer_size' = crx.report[2]
        /\ bytes_buffered_tx' = bytes_buffered_tx /\ reports' = reports
        /\ handed' = handed /\ raced' = raced /\ crossed' = crossed
    BY <1>6, CrxGoes DEF CrxBuffer, counts
  <2>2. NoneDown' <=> NoneDown
    BY <2>1 DEF NoneDown, IsBuffer, Disconnected
  <2>3. Newer' = Newer /\ Base' = Base
    BY <1>0, <2>1 DEF Newer, Base, InHand
  <2>4. Chain => Chain'
    BY <1>0, <2>1, <2>3 DEF Chain
  <2>. QED BY <1>0, <2>1, <2>2, <2>4 DEF Tracked, Ledger
<1>7. ASSUME CrxCompare PROVE Tracked'
  <2>1. /\ crx.pc = "compare" /\ reports' = reports
        /\ crx'.pc = IF buffer_size = 0 \/ buffer_size < bytes_buffered_tx
                     THEN "settle" ELSE "read"
        /\ crx'.pc = "settle" => crx'.report = crx.report
        /\ buffer_size' = buffer_size /\ bytes_buffered_tx' = bytes_buffered_tx
        /\ handed' = handed /\ raced' = raced
        /\ crossed' = (crossed \/ dtx.pc = "count")
    BY <1>7, CrxGoes DEF CrxCompare, shared
  <2>2. NoneDown' <=> NoneDown
    BY <2>1 DEF NoneDown
  <2>3. ~ crossed' => ~ crossed /\ dtx.pc # "count" /\ Uncounted = 0
    BY <2>1 DEF Uncounted
  <2>4. Chain /\ ~ crossed' => Chain'
    <3> SUFFICES ASSUME Chain, ~ crossed' PROVE Chain'
      OBVIOUS
    <3>1. ~ InHand /\ ~ InHand'
      BY <2>1 DEF InHand
    <3>2. Newer = buffer_size /\ Base = bytes_buffered_tx /\ buffer_size <= bytes_buffered_tx
      BY <1>1, <2>1, <2>3, <3>1 DEF Newer, Base, Chain
    <3>3. Newer' = buffer_size /\ Base' = buffer_size
      BY <1>0, <1>1, <2>1, <2>3, <3>1, <3>2 DEF Newer, Base
    <3>. QED BY <1>0, <1>1, <2>1, <2>3, <3>2, <3>3 DEF Chain
  <2>. QED BY <1>0, <2>1, <2>2, <2>3, <2>4 DEF Tracked, Ledger
<1>8. ASSUME CrxSettle PROVE Tracked'
  <2>1. /\ crx.pc = "settle" /\ crx'.pc = "read" /\ reports' = reports
        /\ buffer_size' = buffer_size /\ bytes_buffered_tx' = buffer_size
        /\ handed' = handed /\ raced' = raced /\ crossed' = crossed
    BY <1>8, CrxGoes DEF CrxSettle, shared, accounts
  <2>2. NoneDown' <=> NoneDown
    BY <2>1 DEF NoneDown
  <2>3. Chain => Chain'
    <3> SUFFICES ASSUME Chain PROVE Chain'
      OBVIOUS
    <3>1. ~ InHand /\ ~ InHand' /\ dtx.pc # "count" /\ Uncounted = 0
      BY <2>1 DEF InHand, Chain, Uncounted
    <3>2. Newer' = Newer /\ Base' = Base
      BY <1>0, <1>1, <2>1, <3>1 DEF Newer, Base
    <3>. QED BY <1>0, <2>1, <3>2 DEF Chain
  <2>. QED BY <1>0, <2>1, <2>2, <2>3 DEF Tracked, Ledger
<1>. QED BY <1>2, <1>3, <1>4, <1>5, <1>6, <1>7, <1>8 DEF ControlRx

LEMMA TrackedStep == TypeOK /\ Accounts /\ Tracked /\ [Next]_vars => Tracked'
<1> SUFFICES ASSUME TypeOK, Accounts, Tracked, [Next]_vars PROVE Tracked'
  OBVIOUS
<1>1. CASE DtxWrite \/ ControlRx \/ LinkUp \/ LinkDown \/ Transmit \/ Answer
  BY <1>1, TrackedWrite, TrackedControl, TrackedModem
<1>2. ASSUME DtxCount PROVE Tracked'
  <2>1. /\ dtx.pc = "count" /\ dtx'.pc = "sleep"
        /\ bytes_buffered_tx' = bytes_buffered_tx + dtx.packet_size
        /\ raced' = (raced \/ crx.pc = "settle")
        /\ UNCHANGED <<buffer_size, bytes_transmitted, crx, modem, reports, handed, crossed>>
        /\ (Vara' <=> Vara)
    BY <1>2, DtxTypes DEF DtxCount, DtxGoto, Chunks, shared, Vara
  <2>2. /\ NoneDown' <=> NoneDown
        /\ Recent(reports)' <=> Recent(reports)
        /\ Ledger' <=> Ledger
    BY <2>1 DEF NoneDown, Recent, Ledger
  <2>3. Chain /\ ~ raced' => Chain'
    <3> SUFFICES ASSUME Chain, ~ raced' PROVE Chain'
      OBVIOUS
    <3>1. Uncounted = dtx.packet_size /\ Uncounted' = 0 /\ crx.pc # "settle"
      BY <2>1 DEF Uncounted
    <3>2. Base' = Base
      BY <2>1, <3>1, CountTypes DEF Base
    <3>3. Newer' = Newer
      BY <2>1, <3>2 DEF Newer, InHand
    <3>. QED BY <2>1, <3>1, <3>2, <3>3 DEF Chain
  <2>. QED BY <2>1, <2>2, <2>3, CountTypes DEF Tracked
<1>3. ASSUME CtxForget PROVE Tracked'
  <2>1. /\ raced' = (raced \/ crx.pc \in {"compare", "settle"})
        /\ UNCHANGED <<counts, dtx, crx, modem, reports, handed, crossed>>
        /\ (Vara' <=> Vara)
    BY <1>3 DEF CtxForget, Vara
  <2>2. /\ NoneDown' <=> NoneDown
        /\ Recent(reports)' <=> Recent(reports)
        /\ Ledger' <=> Ledger
    BY <2>1 DEF NoneDown, Recent, Ledger
  <2>3. Chain /\ ~ raced' => Chain'
    BY <2>1 DEF Chain, Newer, Base, InHand, Uncounted, counts
  <2>. QED BY <2>1, <2>2, <2>3, CountTypes DEF Tracked
<1>4. ASSUME \/ Put \/ SessionEnd \/ CtxLook \/ CtxAsk \/ CtxHangUp \/ Reset("reset", "wait")
             \/ CtxWait \/ Reset("resetAgain", "clean") \/ CtxClean \/ UNCHANGED vars
      PROVE Tracked'
  <2>1. /\ UNCHANGED <<modem_type, buffer_size, counts, crx, dtx, reports, handed, raced, crossed>>
    BY <1>4
       DEF Put, SessionEnd, CtxLook, CtxAsk, CtxHangUp, Reset, CtxWait, CtxClean, vars,
           shared, threads, accounts
  <2>2. Vara => UNCHANGED <<modem.link, modem.buffer, modem.sent, modem.asked>>
    BY <1>4
       DEF Put, SessionEnd, CtxLook, CtxAsk, CtxHangUp, Reset, CtxWait, CtxClean, vars, TypeOK
  <2>. QED BY <2>1, <2>2, TrackedKept DEF Uncounted
<1>5. ASSUME DtxLook \/ DtxTake \/ DtxTest \/ DtxCopy \/ DtxRoom \/ DtxSleep PROVE Tracked'
  <2>1. /\ UNCHANGED <<modem_type, buffer_size, counts, crx, modem, reports, handed, raced, crossed>>
    BY <1>5 DEF DtxLook, DtxTake, DtxTest, DtxCopy, DtxRoom, DtxSleep, shared, accounts
  <2>2. dtx.pc # "count" /\ dtx'.pc # "count"
    <3>1. DtxLook \/ DtxTake \/ DtxTest \/ DtxCopy \/ DtxRoom =>
            dtx.pc # "count" /\ dtx'.pc # "count"
      BY DtxTypes DEF DtxLook, DtxTake, DtxTest, DtxCopy, DtxRoom, DtxGoto, Chunks
    <3>2. DtxSleep => dtx.pc # "count" /\ dtx'.pc \in {"look", "room"}
      BY DtxTypes DEF DtxSleep, Chunks
    <3>. QED BY <1>5, <3>1, <3>2
  <2>. QED BY <2>1, <2>2, TrackedKept DEF Uncounted
<1>. QED BY <1>1, <1>2, <1>3, <1>4, <1>5 DEF Next, DataTx, ControlTx

LEMMA TrackedInit == Init => Tracked
BY DEF Init, Tracked, Recent, NoneDown, Ledger, Chain, Falling, Newer, Base, InHand, Uncounted,
       IsBuffer, NoReport

-----------------------------------------------------------------------------
(* Once every report has been read, what the driver of VARA calls          *)
(* transmitted was transmitted on this link, and what it calls buffered is *)
(* in the modem.                                                           *)
THEOREM CountsTrue == Spec => []CountsAreTrue
<1>1. TypeOK /\ Accounts /\ Tracked => CountsAreTrue
  <2> SUFFICES ASSUME TypeOK, Accounts, Tracked, Vara, modem.link, reports = <<>>,
                      crx.pc = "read", dtx.pc # "count", ~ raced, ~ crossed
               PROVE  bytes_transmitted = modem.sent /\ bytes_buffered_tx = modem.buffer
    BY DEF CountsAreTrue
  <2>1. NoneDown /\ \A i \in DOMAIN reports : ~ IsBuffer(reports[i])
    BY DEF NoneDown
  <2>2. handed = modem.sent + modem.buffer
    BY <2>1 DEF Tracked, Ledger
  <2>3. Uncounted = 0 /\ Newer = bytes_buffered_tx
    BY CountTypes DEF Uncounted, Newer, Base, InHand
  <2>4. bytes_buffered_tx = modem.buffer
    BY <2>1, <2>3 DEF Tracked, Chain, Falling
  <2>5. bytes_transmitted + bytes_buffered_tx + 0 = handed
    BY <2>3 DEF Accounts, Counted
  <2>. QED BY <2>2, <2>4, <2>5, CountTypes
<1>2. IInv => TypeOK /\ Accounts
  BY DEF IInv
<1>. QED BY <1>1, <1>2, InvariantHolds, TrackedInit, TrackedStep, PTL DEF Spec

=============================================================================
