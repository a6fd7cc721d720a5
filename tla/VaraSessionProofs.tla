-------------------------- MODULE VaraSessionProofs --------------------------
(***************************************************************************)
(* Proofs about the session of uucpd with the VARA modem, for any number   *)
(* of calls, runs of uuport and unread words: type correctness, and the    *)
(* three safety invariants of the flags.                                   *)
(***************************************************************************)
EXTENDS VaraSession, SequenceTheorems, TLAPS

(* The state of the link that the last event of the modem speaks of, read  *)
(* or not: with ConnectedFollowsLink for an empty socket alone nothing is  *)
(* known when the next event arrives.                                      *)
LinkIsUp == 
  IF events # <<>> THEN events[Len(events)] = "CONNECTED"
  ELSE rx # "down" /\ connected

Inv ==
  /\ TypeOK
  /\ link = "up" <=> LinkIsUp
  /\ NoSessionWhenInactive
  /\ CleanUpStands

-----------------------------------------------------------------------------
(* What is left of a queue whose head is taken ends as it ended.           *)
LEMMA TailEnds ==
  ASSUME NEW S, NEW q \in Seq(S), q # <<>>
  PROVE  /\ Tail(q) \in Seq(S)
         /\ Tail(q) # <<>> => Tail(q)[Len(Tail(q))] = q[Len(q)]
         /\ Tail(q) = <<>> => q[Len(q)] = Head(q)
<1>1. /\ Len(q) \in Nat /\ Len(q) >= 1
      /\ Tail(q) \in Seq(S) /\ Len(Tail(q)) = Len(q) - 1
      /\ \A i \in 1 .. Len(q) - 1 : Tail(q)[i] = q[i + 1]
  BY HeadTailProperties, EmptySeq, LenProperties
<1>2. Tail(q) # <<>> => Len(Tail(q)) >= 1
  BY <1>1, EmptySeq
<1>3. Tail(q) = <<>> => Len(q) = 1
  <2>1. Tail(q) = <<>> => Len(Tail(q)) = 0
    BY EmptySeq
  <2>. QED BY <1>1, <2>1
<1>4. Head(q) = q[1]
  BY HeadTailProperties
<1>. QED BY <1>1, <1>2, <1>3, <1>4

LEMMA AppendEnds ==
  ASSUME NEW S, NEW q \in Seq(S), NEW e \in S
  PROVE  /\ Append(q, e) \in Seq(S)
         /\ Append(q, e) # <<>>
         /\ Append(q, e)[Len(Append(q, e))] = e
BY AppendProperties

-----------------------------------------------------------------------------
LEMMA Initially == Init => Inv
<1> SUFFICES ASSUME Init PROVE Inv
  OBVIOUS
<1>1. <<>> \in Seq({"CONNECT", "DISCONNECT"}) /\ <<>> \in Seq({"CONNECTED", "DISCONNECTED"})
  BY EmptySeq
<1>2. FlagsType
  BY DEF Init, FlagsType
<1>3. ports \in 0 .. MaxPorts /\ incoming \in 0 .. MaxIncoming
  BY SessionAssumption DEF Init
<1>4. commands \in Seq({"CONNECT", "DISCONNECT"}) /\ events \in Seq({"CONNECTED", "DISCONNECTED"})
  BY <1>1 DEF Init
<1>5. TypeOK
  BY <1>2, <1>3, <1>4 DEF Init, TypeOK
<1>. QED BY <1>5 DEF Init, Inv, LinkIsUp, NoSessionWhenInactive, CleanUpStands

(* The flags are truth values: every step sets one of them or leaves them. *)
LEMMA FlagsKeep ==
  ASSUME FlagsType, Next
  PROVE  FlagsType'
<1> USE DEF FlagsType, flags
<1>1. CASE ControlTx
  BY <1>1 DEF ControlTx, TxTop, TxDisconnect, TxKill, TxReset, TxWaitClosed, TxClear,
              TxLookConnected, TxLookRest, TxConnect, TxMarkWaiting, Command
<1>2. CASE RxDisconnected \/ RxDown \/ RxConnected \/ RxForget
  BY <1>2 DEF RxDisconnected, RxDown, RxConnected, RxForget
<1>3. CASE RxCallUucico
  BY <1>3 DEF RxCallUucico
<1>4. CASE DataThread
  BY <1>4 DEF DataThread, DataCheck, DataTest, DataCopy, DataStep
<1>5. CASE UucicoThread
  BY <1>5 DEF UucicoThread, SessionStart, SessionWrite, SessionEnd, SessionClean,
              SessionOver
<1>6. CASE PortStart \/ PortTest \/ PortPut \/ PortEnd
  BY <1>6 DEF PortStart, PortTest, PortPut, PortEnd
<1>7. CASE Modem
  BY <1>7 DEF Modem, ModemCommand, CallAnswered, CallFails, IncomingCall, HangUp, LinkStep
<1>. QED
  BY <1>1, <1>2, <1>3, <1>4, <1>5, <1>6, <1>7 DEF Next, ControlRx

(* The control thread sends its commands and cleans up.                    *)
LEMMA ControlTxKeeps ==
  ASSUME Inv, FlagsType', ControlTx
  PROVE  Inv'
<1> USE DEF Inv, TypeOK, LinkIsUp, NoSessionWhenInactive, CleanUpStands, TxStep, flags,
            port, modem
<1>1. CASE TxTop
  BY <1>1 DEF TxTop
<1>2. ASSUME NEW word \in {"CONNECT", "DISCONNECT"}, Command(word)
      PROVE  commands' \in Seq({"CONNECT", "DISCONNECT"})
  BY <1>2, AppendEnds DEF Command
<1>3. CASE TxDisconnect
  BY <1>3, <1>2 DEF TxDisconnect, Command
<1>4. CASE TxKill
  BY <1>4 DEF TxKill
<1>5. CASE TxReset("reset", "closed")
  BY <1>5 DEF TxReset
<1>6. CASE TxWaitClosed
  BY <1>6 DEF TxWaitClosed
<1>7. CASE TxReset("reset2", "clear")
  BY <1>7 DEF TxReset
<1>8. CASE TxClear
  BY <1>8 DEF TxClear
<1>9. CASE TxLookConnected
  BY <1>9 DEF TxLookConnected
<1>10. CASE TxLookRest
  BY <1>10 DEF TxLookRest
<1>11. CASE TxConnect
  BY <1>11, <1>2 DEF TxConnect, Command
<1>12. CASE TxMarkWaiting
  BY <1>12 DEF TxMarkWaiting
<1>. QED
  BY <1>1, <1>3, <1>4, <1>5, <1>6, <1>7, <1>8, <1>9, <1>10, <1>11, <1>12 DEF ControlTx
(* The events are read in the order in which the link changed.             *)
LEMMA ControlRxKeeps ==
  ASSUME Inv, FlagsType', ControlRx
  PROVE  Inv'
<1> USE DEF Inv, TypeOK, NoSessionWhenInactive, CleanUpStands, RxStep, flags, port, modem
<1>1. ASSUME events # <<>>, events' = Tail(events)
      PROVE  /\ events' \in Seq({"CONNECTED", "DISCONNECTED"})
             /\ events' # <<>> => events'[Len(events')] = events[Len(events)]
             /\ events' = <<>> => events[Len(events)] = Head(events)
  BY <1>1, TailEnds
<1>2. CASE RxDisconnected
  BY <1>2, <1>1 DEF RxDisconnected, LinkIsUp
<1>3. CASE RxDown
  <2>1. TypeOK'
    BY <1>3 DEF RxDown
  <2>2. (link = "up" <=> LinkIsUp)'
    BY <1>3 DEF RxDown, LinkIsUp
  <2>3. NoSessionWhenInactive' /\ CleanUpStands'
    BY <1>3 DEF RxDown
  <2>. QED BY <2>1, <2>2, <2>3
<1>4. CASE RxConnected
  BY <1>4, <1>1 DEF RxConnected, LinkIsUp
<1>5. CASE RxCallUucico
  <2>1. ~ active' => ~ active
    BY <1>5 DEF RxCallUucico
  <2>2. rx' = "forget" /\ UNCHANGED <<connected, clean, tx, data, uucico, port, modem>>
    BY <1>5 DEF RxCallUucico
  <2>. QED BY <1>5, <2>1, <2>2 DEF RxCallUucico, LinkIsUp
<1>6. CASE RxForget
  <2>1. TypeOK'
    BY <1>6 DEF RxForget
  <2>2. (link = "up" <=> LinkIsUp)'
    BY <1>6 DEF RxForget, LinkIsUp
  <2>3. NoSessionWhenInactive' /\ CleanUpStands'
    BY <1>6 DEF RxForget
  <2>. QED BY <2>1, <2>2, <2>3
<1>. QED BY <1>2, <1>3, <1>4, <1>5, <1>6 DEF ControlRx

(* The threads that touch neither the link nor its events.                 *)
LEMMA UucicoKeeps ==
  ASSUME Inv, FlagsType', UucicoThread \/ DataThread
  PROVE  Inv'
<1> USE DEF Inv, TypeOK, LinkIsUp, NoSessionWhenInactive, CleanUpStands, UucicoStep, flags,
            port, modem
<1>1. CASE SessionStart
  BY <1>1 DEF SessionStart
<1>2. CASE SessionWrite
  BY <1>2 DEF SessionWrite
<1>3. CASE SessionEnd
  BY <1>3 DEF SessionEnd
<1>4. CASE SessionClean
  BY <1>4 DEF SessionClean
<1>5. CASE SessionOver
  <2>1. TypeOK'
    BY <1>5 DEF SessionOver
  <2>2. (link = "up" <=> LinkIsUp)' /\ CleanUpStands'
    BY <1>5 DEF SessionOver
  <2>3. NoSessionWhenInactive'
    BY <1>5 DEF SessionOver
  <2>. QED BY <2>1, <2>2, <2>3
<1>6. CASE DataThread
  BY <1>6 DEF DataThread, DataCheck, DataTest, DataCopy, DataStep
<1>. QED BY <1>1, <1>2, <1>3, <1>4, <1>5, <1>6 DEF UucicoThread

LEMMA PortKeeps ==
  ASSUME Inv, FlagsType', PortStart \/ PortTest \/ PortPut \/ PortEnd
  PROVE  Inv'
<1> USE DEF Inv, TypeOK, LinkIsUp, NoSessionWhenInactive, CleanUpStands, flags, port, modem
<1>1. CASE PortStart
  BY <1>1, SessionAssumption DEF PortStart
<1>2. CASE PortTest
  BY <1>2 DEF PortTest
<1>3. CASE PortPut
  BY <1>3 DEF PortPut
<1>4. CASE PortEnd
  BY <1>4 DEF PortEnd
<1>. QED BY <1>1, <1>2, <1>3, <1>4

(* The modem reports every change of the link, so that its last event      *)
(* speaks of the link as it is.                                            *)
LEMMA ModemKeeps ==
  ASSUME Inv, FlagsType', Modem
  PROVE  Inv'
<1> USE DEF Inv, TypeOK, NoSessionWhenInactive, CleanUpStands, flags, port
<1>1. ASSUME NEW e \in {"CONNECTED", "DISCONNECTED"}, Report(e)
      PROVE  /\ events' \in Seq({"CONNECTED", "DISCONNECTED"})
             /\ events' # <<>>
             /\ events'[Len(events')] = e
  BY <1>1, AppendEnds DEF Report
<1>2. CASE ModemCommand
  <2>1. commands' \in Seq({"CONNECT", "DISCONNECT"})
    BY <1>2, TailEnds DEF ModemCommand
  <2>2. CASE Head(commands) = "CONNECT" /\ link = "down"
    BY <1>2, <2>1, <2>2 DEF ModemCommand, LinkIsUp
  <2>3. CASE Head(commands) = "DISCONNECT" /\ link # "down"
    <3>1. link' = "down" /\ Report("DISCONNECTED")
      BY <1>2, <2>3 DEF ModemCommand
    <3>. QED BY <1>1, <1>2, <2>1, <3>1 DEF ModemCommand, LinkIsUp
  <2>4. CASE ~ (Head(commands) = "CONNECT" /\ link = "down")
             /\ ~ (Head(commands) = "DISCONNECT" /\ link # "down")
    BY <1>2, <2>1, <2>4 DEF ModemCommand, LinkIsUp
  <2>. QED BY <2>2, <2>3, <2>4
<1>3. CASE CallAnswered
  BY <1>3, <1>1 DEF CallAnswered, LinkStep, LinkIsUp
<1>4. CASE CallFails
  BY <1>4, <1>1 DEF CallFails, LinkStep, LinkIsUp
<1>5. CASE IncomingCall
  <2>1. incoming' \in 0 .. MaxIncoming
    BY <1>5, SessionAssumption DEF IncomingCall
  <2>. QED BY <1>5, <1>1, <2>1 DEF IncomingCall, LinkStep, LinkIsUp
<1>6. CASE HangUp
  BY <1>6, <1>1 DEF HangUp, LinkStep, LinkIsUp
<1>. QED BY <1>2, <1>3, <1>4, <1>5, <1>6 DEF Modem

LEMMA NextKeeps == Inv /\ [Next]_vars => Inv'
<1> SUFFICES ASSUME Inv, [Next]_vars PROVE Inv'
  OBVIOUS
<1>1. CASE Next
  BY <1>1, FlagsKeep, ControlTxKeeps, ControlRxKeeps, UucicoKeeps, PortKeeps, ModemKeeps DEF Next, Inv, TypeOK
<1>2. CASE UNCHANGED vars
  BY <1>2 DEF vars, flags, port, modem, Inv, TypeOK, FlagsType, LinkIsUp, NoSessionWhenInactive,
              CleanUpStands
<1>. QED BY <1>1, <1>2

LEMMA Invariance == Spec => []Inv
BY Initially, NextKeeps, PTL DEF Spec

-----------------------------------------------------------------------------
(* The flags, the places of the threads and the words on the control       *)
(* socket of vara.c and call_uucico.c keep their types.                    *)
THEOREM TypeCorrect == Spec => []TypeOK
<1>1. Inv => TypeOK
  BY DEF Inv
<1>. QED BY <1>1, Invariance, PTL

(* Once every event of the modem is read and handled, connected is TRUE    *)
(* exactly while the link is up, however many events may wait on the       *)
(* socket.                                                                 *)
THEOREM ConnectedCorrect == Spec => []ConnectedFollowsLink
<1>1. Inv => ConnectedFollowsLink
  BY DEF Inv, LinkIsUp, ConnectedFollowsLink
<1>. QED BY <1>1, Invariance, PTL

(* While uucico_active is FALSE no uucico runs and no thread of a session  *)
(* is left, for any number of calls.                                       *)
THEOREM NoSessionLeft == Spec => []NoSessionWhenInactive
<1>1. Inv => NoSessionWhenInactive
  BY DEF Inv
<1>. QED BY <1>1, Invariance, PTL

(* From the moment the control thread takes a clean-up up until it is      *)
(* done, clean_buffers stays set, whoever else asks for one meanwhile.     *)
THEOREM CleanUpNotDropped == Spec => []CleanUpStands
<1>1. Inv => CleanUpStands
  BY DEF Inv
<1>. QED BY <1>1, Invariance, PTL

=============================================================================
