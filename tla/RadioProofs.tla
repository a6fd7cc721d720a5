------------------------------ MODULE RadioProofs ------------------------------
(***************************************************************************)
(* Proofs about the two specifications of the radio's controller that are  *)
(* about its command thread.  First RadioCommand, for any set of clients   *)
(* and any number of calls, crashes and spurious wakeups: while neither    *)
(* mutex is broken, nobody gets the response to another call, and no       *)
(* command is executed twice but by a spurious wakeup.  Then RadioTxRx     *)
(* (TxRxSpec), for any limit of high readings and with or without the PTT  *)
(* key: type correctness, and what two overlapping calls of tr_switch do   *)
(* to the transceiver, whatever time the threads take.                     *)
(***************************************************************************)
EXTENDS RadioCommand, RadioTxRx, Integers, TLAPS

Steps == {"idle", "lockResponse", "lockCmd", "write", "signal", "poll", "take", "dead"}
Mutex == [owner : Owners, health : Health]

(* The thread will execute the command that is there.                      *)
Pending == thread \in {"woken", "process", "execute"}

(* A call that was not made, or has not written its command yet, was not   *)
(* executed; broken mutexes do not change that.                            *)
Numbered ==
  /\ \A c \in Clients : client[c] # "idle" => calls[c] >= 1
  /\ \A c \in Clients, n \in 1 .. MaxCalls :
       \/ n > calls[c]
       \/ n = calls[c] /\ client[c] \in {"lockResponse", "lockCmd", "write"}
       => executed[<<c, n>>] = 0 /\ service_command # <<c, n>>

(* The mutexes exclude.                                                    *)
Exclusive ==
  /\ \A c \in Clients : client[c] \in {"write", "signal"} => cmd_mutex.owner = c
  /\ thread \in {"loop", "process", "execute", "answer"} <=> cmd_mutex.owner = Thread
  /\ \A c \in Clients : client[c] \in {"lockCmd", "write", "signal", "poll", "take"} =>
       response_mutex.owner = c

(* A client that waits finds its own command where it wrote it.            *)
Placed ==
  /\ \A c \in Clients : client[c] \in {"signal", "poll", "take"} => service_command = Own(c)
  /\ \A c \in Clients : client[c] = "signal" => executed[Own(c)] = 0

(* A command that is about to be executed has been executed by spurious    *)
(* wakeups only.                                                           *)
Budget ==
  \A k \in Commands :
    executed[k] <= IF k = service_command /\ Pending THEN spurious ELSE 1 + spurious

(* While a response is there for a client, the thread executes nothing     *)
(* unless it woke up by itself.                                            *)
Answered ==
  /\ thread = "execute" => response_service = Blank
  /\ thread = "answer" => response_service = service_command
  /\ \A c \in Clients : client[c] = "take" => response_available
  /\ \A c \in Clients : client[c] \in {"poll", "take"} /\ response_available =>
       /\ Pending => spurious > 0
       /\ response_service = Own(c) \/ (spurious > 0 /\ response_service = Blank)

IInv ==
  /\ TypeOK
  /\ Numbered
  /\ Healthy => Exclusive /\ Placed /\ Budget /\ Answered

-----------------------------------------------------------------------------
(* The robust mutexes.                                                     *)
LEMMA LockedMutex ==
  ASSUME NEW m \in Mutex, NEW n, NEW p \in Clients \cup {Thread}, Locked(m, n, p)
  PROVE  /\ n \in Mutex
         /\ n.health # "broken" =>
              /\ m.health # "broken" /\ n.owner = p
              /\ m.owner = Nobody \/ Dead(m.owner)
BY DEF Mutex, Locked, Owners, Health

LEMMA UnlockedMutex ==
  ASSUME NEW m \in Mutex, NEW n, NEW p \in Clients \cup {Thread}, Unlocked(m, n, p)
  PROVE  /\ n \in Mutex
         /\ n.health # "broken" =>
              /\ m.health # "broken"
              /\ IF m.owner = p THEN n.owner = Nobody ELSE n = m
BY DEF Mutex, Unlocked, Owners, Health

LEMMA OwnTypes ==
  ASSUME BoundsAssumption, TypeOK, NEW c \in Clients
  PROVE  /\ Own(c) = <<c, calls[c]>> /\ calls[c] \in Nat
         /\ Numbered /\ client[c] # "idle" => Own(c) \in Commands
BY DEF BoundsAssumption, TypeOK, Own, Commands, Numbered

LEMMA MutexTypes ==
  ASSUME TypeOK
  PROVE  cmd_mutex \in Mutex /\ response_mutex \in Mutex /\ client \in [Clients -> Steps]
BY DEF TypeOK, Mutex, Steps

LEMMA TypeStep == TypeOK /\ Numbered /\ [Next]_vars => TypeOK'
<1> SUFFICES ASSUME TypeOK, Numbered, [Next]_vars PROVE TypeOK'
  OBVIOUS
<1> USE BoundsAssumption DEF BoundsAssumption
<1>1. ASSUME NEW c \in Clients, Call(c) PROVE TypeOK'
  BY <1>1 DEF Call, At, TypeOK, shared, bounds
<1>2. ASSUME NEW c \in Clients, LockResponse(c) PROVE TypeOK'
  <2>1. response_mutex' \in Mutex
    BY <1>2, MutexTypes, LockedMutex DEF LockResponse
  <2>. QED
    BY <1>2, <2>1 DEF LockResponse, At, TypeOK, shared, bounds, Mutex
<1>3. ASSUME NEW c \in Clients, LockCmd(c) PROVE TypeOK'
  <2>1. cmd_mutex' \in Mutex
    BY <1>3, MutexTypes, LockedMutex DEF LockCmd
  <2>. QED
    BY <1>3, <2>1 DEF LockCmd, At, TypeOK, shared, bounds, Mutex
<1>4. ASSUME NEW c \in Clients, WriteCommand(c) PROVE TypeOK'
  <2>1. Own(c) \in Commands
    BY <1>4, OwnTypes DEF WriteCommand, At
  <2>. QED
    BY <1>4, <2>1 DEF WriteCommand, At, TypeOK, shared, bounds
<1>5. ASSUME NEW c \in Clients, Signal(c) PROVE TypeOK'
  <2>1. cmd_mutex' \in Mutex
    BY <1>5, MutexTypes, UnlockedMutex DEF Signal
  <2>. QED
    BY <1>5, <2>1 DEF Signal, At, TypeOK, shared, bounds, Mutex
<1>6. ASSUME NEW c \in Clients, Poll(c) PROVE TypeOK'
  BY <1>6 DEF Poll, At, TypeOK, shared, bounds
<1>7. ASSUME NEW c \in Clients, TimeOut(c) \/ Take(c) PROVE TypeOK'
  <2>1. response_mutex' \in Mutex
    BY <1>7, MutexTypes, UnlockedMutex DEF TimeOut, Take
  <2>. QED
    BY <1>7, <2>1 DEF TimeOut, Take, At, TypeOK, shared, bounds, Mutex
<1>8. ASSUME NEW c \in Clients, Crash(c) PROVE TypeOK'
  BY <1>8 DEF Crash, At, TypeOK, shared, bounds
<1>9. ASSUME ThreadLock("start", "loop") \/ ThreadLock("woken", "process") PROVE TypeOK'
  <2>1. cmd_mutex' \in Mutex
    BY <1>9, MutexTypes, LockedMutex DEF ThreadLock
  <2>. QED
    BY <1>9, <2>1 DEF ThreadLock, ThreadAt, TypeOK, shared, bounds, Mutex
<1>10. ASSUME CondWait PROVE TypeOK'
  <2>1. cmd_mutex' \in Mutex
    BY <1>10, MutexTypes, UnlockedMutex DEF CondWait
  <2>. QED
    BY <1>10, <2>1 DEF CondWait, ThreadAt, TypeOK, shared, bounds, Mutex
<1>11. ASSUME SpuriousWakeup PROVE TypeOK'
  BY <1>11 DEF SpuriousWakeup, ThreadAt, TypeOK, shared
<1>12. ASSUME ClearResponse PROVE TypeOK'
  BY <1>12 DEF ClearResponse, ThreadAt, TypeOK, bounds
<1>13. ASSUME Execute PROVE TypeOK'
  <2>1. executed' \in [Commands -> 0 .. ManyTimes]
    BY <1>13 DEF Execute, TypeOK, ManyTimes
  <2>. QED
    BY <1>13, <2>1 DEF Execute, ThreadAt, TypeOK, bounds
<1>14. ASSUME Answer PROVE TypeOK'
  BY <1>14 DEF Answer, ThreadAt, TypeOK, bounds
<1>15. ASSUME UNCHANGED vars PROVE TypeOK'
  BY <1>15 DEF vars, TypeOK, shared, bounds
<1>. QED
  BY <1>1, <1>2, <1>3, <1>4, <1>5, <1>6, <1>7, <1>8, <1>9, <1>10, <1>11, <1>12, <1>13,
     <1>14, <1>15
     DEF Next, Client, CommandThread

LEMMA NumberedStep == TypeOK /\ Numbered /\ [Next]_vars => Numbered'
<1> SUFFICES ASSUME TypeOK, Numbered, [Next]_vars PROVE Numbered'
  OBVIOUS
<1> USE BoundsAssumption DEF BoundsAssumption
<1>0. client \in [Clients -> Steps] /\ calls \in [Clients -> Nat]
  BY DEF TypeOK, Steps
<1>1. ASSUME NEW c \in Clients, Call(c) PROVE Numbered'
  BY <1>0, <1>1 DEF Call, At, Numbered, shared, TypeOK
<1>2. ASSUME NEW c \in Clients, WriteCommand(c) PROVE Numbered'
  <2>1. /\ client[c] = "write" /\ client' = [client EXCEPT ![c] = "signal"]
        /\ service_command' = <<c, calls[c]>> /\ calls' = calls /\ executed' = executed
    BY <1>2 DEF WriteCommand, At, Own
  <2>. QED BY <1>0, <2>1 DEF Numbered
<1>3. ASSUME NEW c \in Clients,
             LockResponse(c) \/ LockCmd(c) \/ Signal(c) \/ Poll(c) \/ TimeOut(c) \/ Take(c)
             \/ Crash(c)
      PROVE  Numbered'
  <2>1. /\ UNCHANGED <<calls, executed, service_command>>
        /\ client' = [client EXCEPT ![c] = client'[c]] /\ client[c] # "idle"
        /\ client'[c] \in {"lockResponse", "lockCmd", "write"} =>
             client[c] \in {"lockResponse", "lockCmd", "write"}
    BY <1>0, <1>3 DEF LockResponse, LockCmd, Signal, Poll, TimeOut, Take, Crash, At, shared
  <2>. QED BY <1>0, <2>1 DEF Numbered
<1>4. ASSUME Execute PROVE Numbered'
  <2>1. /\ UNCHANGED <<client, calls, service_command>>
        /\ \A k \in Commands : k # service_command => executed'[k] = executed[k]
    BY <1>4 DEF Execute, TypeOK
  <2>2. \A c \in Clients, n \in 1 .. MaxCalls : <<c, n>> \in Commands
    BY DEF Commands
  <2>. QED BY <2>1, <2>2 DEF Numbered
<1>5. ASSUME \/ ThreadLock("start", "loop") \/ ThreadLock("woken", "process") \/ CondWait
             \/ SpuriousWakeup \/ ClearResponse \/ Answer \/ UNCHANGED vars
      PROVE  Numbered'
  BY <1>5 DEF ThreadLock, CondWait, SpuriousWakeup, ClearResponse, Answer, vars, shared, Numbered
<1>. QED
  BY <1>1, <1>2, <1>3, <1>4, <1>5 DEF Next, Client, CommandThread

-----------------------------------------------------------------------------
(* A mutex that is not broken was not broken before.                       *)
LEMMA HealthyBefore == TypeOK /\ [Next]_vars /\ Healthy' => Healthy
<1> SUFFICES ASSUME TypeOK, [Next]_vars, Healthy' PROVE Healthy
  OBVIOUS
<1>1. ASSUME NEW c \in Clients, Client(c) PROVE Healthy
  BY <1>1, MutexTypes, LockedMutex, UnlockedMutex
     DEF Client, LockResponse, LockCmd, WriteCommand, Signal, Poll, TimeOut, Take, Healthy
<1>2. ASSUME NEW c \in Clients, Call(c) \/ Crash(c) PROVE Healthy
  BY <1>2 DEF Call, Crash, Healthy
<1>3. ASSUME CommandThread PROVE Healthy
  BY <1>3, MutexTypes, LockedMutex, UnlockedMutex
     DEF CommandThread, ThreadLock, CondWait, ClearResponse, Execute, Answer, Healthy
<1>4. ASSUME SpuriousWakeup \/ UNCHANGED vars PROVE Healthy
  BY <1>4 DEF SpuriousWakeup, vars, Healthy
<1>. QED BY <1>1, <1>2, <1>3, <1>4 DEF Next

LEMMA ExclusiveStep == TypeOK /\ Exclusive /\ [Next]_vars /\ Healthy' => Exclusive'
<1> SUFFICES ASSUME TypeOK, Exclusive, [Next]_vars, Healthy' PROVE Exclusive'
  OBVIOUS
<1> USE NamesAssumption
<1>0. /\ client \in [Clients -> Steps] /\ cmd_mutex \in Mutex /\ response_mutex \in Mutex
      /\ cmd_mutex'.health # "broken" /\ response_mutex'.health # "broken"
  BY MutexTypes DEF Healthy
<1>1. ASSUME NEW c \in Clients, LockResponse(c) PROVE Exclusive'
  <2>1. /\ response_mutex'.owner = c
        /\ response_mutex.owner = Nobody \/ Dead(response_mutex.owner)
    BY <1>0, <1>1, LockedMutex DEF LockResponse
  <2>. QED
    BY <1>0, <1>1, <2>1 DEF LockResponse, At, Exclusive, Dead, Nobody, Thread
<1>2. ASSUME NEW c \in Clients, LockCmd(c) PROVE Exclusive'
  <2>1. cmd_mutex'.owner = c /\ (cmd_mutex.owner = Nobody \/ Dead(cmd_mutex.owner))
    BY <1>0, <1>2, LockedMutex DEF LockCmd
  <2>. QED
    BY <1>0, <1>2, <2>1 DEF LockCmd, At, Exclusive, Dead, Nobody, Thread
<1>3. ASSUME NEW c \in Clients, Signal(c) PROVE Exclusive'
  <2>1. cmd_mutex.owner = c /\ cmd_mutex'.owner = Nobody
    BY <1>0, <1>3, UnlockedMutex DEF Signal, At, Exclusive
  <2>. QED
    BY <1>0, <1>3, <2>1 DEF Signal, At, Exclusive, Nobody, Thread
<1>4. ASSUME NEW c \in Clients, TimeOut(c) \/ Take(c) PROVE Exclusive'
  <2>1. response_mutex.owner = c /\ client[c] \in {"poll", "take"}
        /\ client' = [client EXCEPT ![c] = "idle"]
    BY <1>0, <1>4 DEF TimeOut, Take, At, Exclusive
  <2>. QED
    BY <1>0, <1>4, <2>1 DEF TimeOut, Take, Exclusive, shared
<1>5. ASSUME NEW c \in Clients, Call(c) \/ WriteCommand(c) \/ Poll(c) \/ Crash(c)
      PROVE  Exclusive'
  BY <1>0, <1>5 DEF Call, WriteCommand, Poll, Crash, At, Exclusive
<1>6. ASSUME ThreadLock("start", "loop") \/ ThreadLock("woken", "process") PROVE Exclusive'
  <2>1. cmd_mutex'.owner = Thread /\ (cmd_mutex.owner = Nobody \/ Dead(cmd_mutex.owner))
    BY <1>0, <1>6, LockedMutex DEF ThreadLock
  <2>. QED
    BY <1>0, <1>6, <2>1 DEF ThreadLock, ThreadAt, Exclusive, Dead
<1>7. ASSUME CondWait PROVE Exclusive'
  <2>1. cmd_mutex.owner = Thread /\ cmd_mutex'.owner = Nobody /\ thread' = "waiting"
    BY <1>0, <1>7, UnlockedMutex DEF CondWait, ThreadAt, Exclusive
  <2>. QED
    BY <1>0, <1>7, <2>1 DEF CondWait, Exclusive, Nobody, Thread
<1>8. ASSUME \/ SpuriousWakeup \/ ClearResponse \/ Execute \/ Answer \/ UNCHANGED vars
      PROVE  Exclusive'
  BY <1>8 DEF SpuriousWakeup, ClearResponse, Execute, Answer, ThreadAt, vars, Exclusive
<1>. QED
  BY <1>1, <1>2, <1>3, <1>4, <1>5, <1>6, <1>7, <1>8 DEF Next, Client, CommandThread

(* Only the client that has response_mutex writes a command.               *)
LEMMA PlacedStep ==
  TypeOK /\ Numbered /\ Exclusive /\ Placed /\ [Next]_vars => Placed'
<1> SUFFICES ASSUME TypeOK, Numbered, Exclusive, Placed, [Next]_vars PROVE Placed'
  OBVIOUS
<1>0. client \in [Clients -> Steps] /\ calls \in [Clients -> 0 .. MaxCalls]
  BY DEF TypeOK, Steps
<1>1. ASSUME NEW c \in Clients, WriteCommand(c) PROVE Placed'
  <2>1. \A d \in Clients : client[d] \in {"signal", "poll", "take"} => d = c
    BY <1>1 DEF WriteCommand, At, Exclusive
  <2>2. executed[Own(c)] = 0
    BY <1>0, <1>1, BoundsAssumption
       DEF WriteCommand, At, Numbered, Own, BoundsAssumption
  <2>. QED
    BY <1>0, <1>1, <2>1, <2>2 DEF WriteCommand, At, Placed, Own
<1>2. ASSUME NEW c \in Clients,
             Call(c) \/ LockResponse(c) \/ LockCmd(c) \/ Signal(c) \/ Poll(c) \/ TimeOut(c)
             \/ Take(c) \/ Crash(c)
      PROVE  Placed'
  <2>1. /\ UNCHANGED <<executed, service_command>>
        /\ \A d \in Clients : client'[d] \in {"signal", "poll", "take"} =>
             /\ client[d] \in {"signal", "poll", "take"} /\ calls'[d] = calls[d]
             /\ client'[d] = "signal" => client[d] = "signal"
    BY <1>0, <1>2
       DEF Call, LockResponse, LockCmd, Signal, Poll, TimeOut, Take, Crash, At, shared
  <2>. QED BY <2>1 DEF Placed, Own
<1>3. ASSUME Execute PROVE Placed'
  <2>1. \A c \in Clients : client[c] # "signal"
    BY <1>3, NamesAssumption DEF Execute, ThreadAt, Exclusive
  <2>. QED BY <1>3, <2>1 DEF Execute, Placed, Own
<1>4. ASSUME \/ ThreadLock("start", "loop") \/ ThreadLock("woken", "process") \/ CondWait
             \/ SpuriousWakeup \/ ClearResponse \/ Answer \/ UNCHANGED vars
      PROVE  Placed'
  BY <1>4
     DEF ThreadLock, CondWait, SpuriousWakeup, ClearResponse, Answer, vars, shared, Placed, Own
<1>. QED
  BY <1>1, <1>2, <1>3, <1>4 DEF Next, Client, CommandThread

LEMMA BudgetStep ==
  TypeOK /\ Numbered /\ Exclusive /\ Placed /\ Budget /\ [Next]_vars => Budget'
<1> SUFFICES ASSUME TypeOK, Numbered, Exclusive, Placed, Budget, [Next]_vars PROVE Budget'
  OBVIOUS
<1>0. /\ \A k \in Commands : executed[k] \in Nat
      /\ spurious \in Nat /\ calls \in [Clients -> 0 .. MaxCalls]
  BY BoundsAssumption DEF TypeOK, BoundsAssumption, ManyTimes
<1>1. ASSUME NEW c \in Clients, WriteCommand(c) PROVE Budget'
  <2>1. executed[Own(c)] = 0
    BY <1>0, <1>1, BoundsAssumption DEF WriteCommand, At, Numbered, Own, BoundsAssumption
  <2>2. /\ service_command' = Own(c)
        /\ UNCHANGED <<thread, executed, spurious>>
    BY <1>1 DEF WriteCommand, bounds
  <2>. QED BY <1>0, <2>1, <2>2 DEF Budget, Pending
<1>2. ASSUME NEW c \in Clients, Signal(c) PROVE Budget'
  <2>1. service_command = Own(c) /\ executed[Own(c)] = 0
    BY <1>2 DEF Signal, At, Placed
  <2>2. UNCHANGED <<service_command, executed, spurious>>
    BY <1>2 DEF Signal, bounds
  <2>. QED BY <1>0, <2>1, <2>2 DEF Budget
<1>3. ASSUME SpuriousWakeup PROVE Budget'
  <2>1. spurious' = spurious + 1 /\ UNCHANGED <<service_command, executed>>
    BY <1>3 DEF SpuriousWakeup, shared
  <2>2. \A k \in Commands : executed[k] <= 1 + spurious
    BY <1>0 DEF Budget
  <2>. QED BY <1>0, <2>1, <2>2 DEF Budget
<1>4. ASSUME Execute PROVE Budget'
  <2>1. /\ thread = "execute" /\ thread' = "answer"
        /\ UNCHANGED <<service_command, spurious>>
        /\ \A k \in Commands : executed'[k] <= executed[k] + IF k = service_command THEN 1 ELSE 0
    BY <1>0, <1>4 DEF Execute, ThreadAt, bounds
  <2>2. \A k \in Commands : executed'[k] \in Nat
    BY <1>0, <1>4 DEF Execute
  <2>3. ASSUME NEW k \in Commands PROVE executed'[k] <= 1 + spurious
    <3>1. CASE k = service_command
      BY <1>0, <2>1, <2>2, <3>1 DEF Budget, Pending
    <3>2. CASE k # service_command
      BY <1>0, <2>1, <2>2, <3>2 DEF Budget, Pending
    <3>. QED BY <3>1, <3>2
  <2>. QED BY <2>1, <2>3 DEF Budget, Pending
<1>5. ASSUME CondWait PROVE Budget'
  <2>1. thread' = "waiting" /\ UNCHANGED <<service_command, executed, spurious>>
    BY <1>5 DEF CondWait, ThreadAt, Exclusive, shared, bounds
  <2>. QED BY <1>0, <2>1 DEF Budget, Pending
<1>6. ASSUME \/ \E c \in Clients : \/ Call(c) \/ LockResponse(c) \/ LockCmd(c) \/ Poll(c)
                                   \/ TimeOut(c) \/ Take(c) \/ Crash(c)
             \/ ThreadLock("start", "loop") \/ ThreadLock("woken", "process")
             \/ ClearResponse \/ Answer \/ UNCHANGED vars
      PROVE  Budget'
  <2>1. (Pending' <=> Pending) /\ UNCHANGED <<service_command, executed, spurious>>
    BY <1>6
       DEF Call, LockResponse, LockCmd, Poll, TimeOut, Take, Crash, ThreadLock, ThreadAt,
           ClearResponse, Answer, vars, shared, bounds, Pending
  <2>. QED BY <2>1 DEF Budget
<1>. QED
  BY <1>1, <1>2, <1>3, <1>4, <1>5, <1>6 DEF Next, Client, CommandThread

LEMMA AnsweredStep ==
  TypeOK /\ Numbered /\ Exclusive /\ Placed /\ Answered /\ [Next]_vars => Answered'
<1> SUFFICES ASSUME TypeOK, Numbered, Exclusive, Placed, Answered, [Next]_vars
             PROVE  Answered'
  OBVIOUS
<1> USE NamesAssumption
<1>0. /\ client \in [Clients -> Steps] /\ calls \in [Clients -> 0 .. MaxCalls]
      /\ spurious \in Nat /\ response_available \in BOOLEAN
  BY BoundsAssumption DEF TypeOK, Steps, BoundsAssumption
<1>1. ASSUME NEW c \in Clients, WriteCommand(c) PROVE Answered'
  <2>1. thread # "answer" /\ \A d \in Clients : client[d] \in {"poll", "take"} => d = c
    BY <1>1 DEF WriteCommand, At, Exclusive
  <2>. QED
    BY <1>0, <1>1, <2>1 DEF WriteCommand, At, Answered, Own, bounds, Pending
<1>2. ASSUME NEW c \in Clients, Signal(c) PROVE Answered'
  <2>1. \A d \in Clients : client[d] \in {"poll", "take"} => d = c
    BY <1>2 DEF Signal, At, Exclusive
  <2>. QED
    BY <1>0, <1>2, <2>1 DEF Signal, At, Answered
<1>3. ASSUME NEW c \in Clients, Take(c) PROVE Answered'
  <2>1. \A d \in Clients : client[d] \in {"poll", "take"} => d = c
    BY <1>3 DEF Take, At, Exclusive
  <2>. QED
    BY <1>0, <1>3, <2>1 DEF Take, At, Answered
<1>4. ASSUME NEW c \in Clients,
             Call(c) \/ LockResponse(c) \/ LockCmd(c) \/ Poll(c) \/ TimeOut(c) \/ Crash(c)
      PROVE  Answered'
  <2>1. /\ UNCHANGED <<thread, shared, spurious>>
        /\ \A d \in Clients : client'[d] \in {"poll", "take"} =>
             /\ client[d] \in {"poll", "take"} /\ calls'[d] = calls[d]
             /\ client'[d] = "take" => client[d] = "take" \/ response_available
    BY <1>0, <1>4
       DEF Call, LockResponse, LockCmd, Poll, TimeOut, Crash, At, shared, bounds
  <2>. QED BY <2>1 DEF Answered, Own, shared, Pending
<1>5. ASSUME SpuriousWakeup PROVE Answered'
  <2>1. spurious' > 0 /\ thread' = "woken" /\ UNCHANGED <<client, calls, shared>>
    BY <1>0, <1>5 DEF SpuriousWakeup, ThreadAt
  <2>. QED BY <1>0, <2>1 DEF Answered, Own, shared
<1>6. ASSUME ClearResponse PROVE Answered'
  BY <1>6 DEF ClearResponse, ThreadAt, Answered, Own, Pending, bounds
<1>7. ASSUME Execute PROVE Answered'
  BY <1>7 DEF Execute, ThreadAt, Answered, Placed, Own, Pending, bounds
<1>8. ASSUME Answer PROVE Answered'
  BY <1>8 DEF Answer, ThreadAt, Answered, Placed, Own, Pending, bounds
<1>9. ASSUME CondWait PROVE Answered'
  <2>1. thread' = "waiting" /\ UNCHANGED <<client, calls, shared, spurious>>
    BY <1>9 DEF CondWait, ThreadAt, Exclusive, bounds
  <2>. QED BY <2>1 DEF Answered, Own, shared, Pending
<1>10. ASSUME ThreadLock("start", "loop") \/ ThreadLock("woken", "process") \/ UNCHANGED vars
       PROVE  Answered'
  BY <1>10 DEF ThreadLock, ThreadAt, vars, shared, bounds, Answered, Own, Pending
<1>. QED
  BY <1>1, <1>2, <1>3, <1>4, <1>5, <1>6, <1>7, <1>8, <1>9, <1>10
     DEF Next, Client, CommandThread

-----------------------------------------------------------------------------
LEMMA NoCommandApart ==
  ASSUME NEW c, NEW n \in 1 .. MaxCalls, BoundsAssumption
  PROVE  <<c, n>> # NoCommand
<1>1. n # 0
  BY DEF BoundsAssumption
<1>2. <<c, n>>[2] = n /\ <<"no client", 0>>[2] = 0
  OBVIOUS
<1>. QED BY <1>1, <1>2 DEF NoCommand

LEMMA InitHolds == Init => IInv
<1> SUFFICES ASSUME Init PROVE IInv
  OBVIOUS
<1> USE BoundsAssumption DEF Init, BoundsAssumption
<1>1. TypeOK
  <2>1. /\ cmd_mutex \in [owner : Owners, health : Health]
        /\ response_mutex \in [owner : Owners, health : Health]
    BY DEF Owners, Health
  <2>2. executed \in [Commands -> 0 .. ManyTimes]
    <3>1. 0 \in 0 .. ManyTimes
      BY DEF ManyTimes
    <3>. QED BY <3>1
  <2>3. /\ service_command \in Commands \cup {NoCommand}
        /\ response_service \in Commands \cup {NoCommand, Blank}
    OBVIOUS
  <2>4. calls \in [Clients -> 0 .. MaxCalls]
    OBVIOUS
  <2>5. /\ client \in [Clients -> Steps] /\ thread = "start"
        /\ response_available \in BOOLEAN
    BY DEF Steps
  <2>6. crashes \in 0 .. MaxCrashes /\ spurious \in 0 .. MaxSpurious
    OBVIOUS
  <2>. QED BY <2>1, <2>2, <2>3, <2>4, <2>5, <2>6 DEF TypeOK, Steps
<1>2. Numbered
  <2>1. ASSUME NEW c \in Clients, NEW n \in 1 .. MaxCalls
        PROVE  <<c, n>> \in Commands /\ <<c, n>> # NoCommand
    BY NoCommandApart DEF Commands
  <2>. QED BY <2>1 DEF Numbered
<1>3. Exclusive
  BY DEF Exclusive, Nobody, Thread
<1>4. Placed /\ Answered
  BY DEF Placed, Answered
<1>5. Budget
  BY DEF Budget, Pending
<1>. QED BY <1>1, <1>2, <1>3, <1>4, <1>5 DEF IInv

LEMMA InvariantHolds == Spec => []IInv
<1>1. IInv /\ [Next]_vars => IInv'
  BY TypeStep, NumberedStep, HealthyBefore, ExclusiveStep, PlacedStep, BudgetStep, AnsweredStep
     DEF IInv
<1>. QED BY InitHolds, <1>1, PTL DEF Spec

(* Client, thread and mutexes stay where the code can be, for any number   *)
(* of clients, calls and crashes.                                          *)
THEOREM TypeCorrect == Spec => []TypeOK
<1>1. IInv => TypeOK
  BY DEF IInv
<1>. QED BY InvariantHolds, <1>1, PTL

(* radio_cmd never returns the response to another call, though calls time *)
(* out and clients die with the mutexes, while no mutex is broken.         *)
THEOREM OwnResponseOnly == Spec => []OwnResponse
<1>1. IInv => OwnResponse
  BY DEF IInv, Answered, OwnResponse
<1>. QED BY InvariantHolds, <1>1, PTL

(* A command is executed once and then at most once for each spurious      *)
(* wakeup of the command thread, while no mutex is broken.                 *)
THEOREM NeverExecutedTwice == Spec => []ExecutedOnce
<1>1. IInv => ExecutedOnce
  <2> SUFFICES ASSUME IInv, Healthy, NEW k \in Commands PROVE executed[k] <= 1 + spurious
    BY DEF ExecutedOnce
  <2>1. executed[k] \in Nat /\ spurious \in Nat
    BY BoundsAssumption DEF IInv, TypeOK, ManyTimes, BoundsAssumption
  <2>. QED BY <2>1 DEF IInv, Budget
<1>. QED BY InvariantHolds, <1>1, PTL

-----------------------------------------------------------------------------
(* The switching of the radio.  What the transceiver is like follows from  *)
(* the places of the two threads, while no switch to transmission has      *)
(* written something in the middle of one to reception.                    *)
Spots == {"idle", "keyDone", "power", "swr", "trip"} \cup ToTx \cup ToRx

(* Thread t has made its first write, to transmit or to receive.           *)
Tx(t) == pc[t] \in {"lift", "line", "filter"}
Rx(t) == pc[t] \in {"open", "drop", "settle"}

Writing == {"lift", "line", "filter", "open", "drop", "settle"}

Flags ==
  /\ swr_protection \in BOOLEAN /\ line \in BOOLEAN /\ filter \in BOOLEAN
  /\ level \in BOOLEAN /\ key \in BOOLEAN /\ lastKey \in BOOLEAN /\ mixed \in BOOLEAN

(* The types, strengthened by what the counter of peaks needs: it is above *)
(* its limit only until the protection has tripped.                        *)
Types ==
  /\ txrx_state \in {"IN_RX", "IN_TX"}
  /\ Flags
  /\ peaks \in 0 .. PeakRemoval + 1
  /\ pc \in [Threads -> Spots] /\ ret \in [Threads -> {"idle", "keyDone", "trip"}]
  /\ ticks \in 0 .. 2
  /\ peaks > PeakRemoval => pc["hw"] = "trip" \/ (InSwitch("hw") /\ ret["hw"] = "trip")

(* No thread has written to transmit while the other has to receive.       *)
Apart == \A t, u \in Threads : ~ (Tx(t) /\ Rx(u))

(* While a thread transmits, the level is up before the line, and no       *)
(* filter is closed before the line is up.                                 *)
Raising ==
  \A t \in Threads :
    /\ Tx(t) => txrx_state = "IN_TX"
    /\ pc[t] = "line" => level /\ (~ filter \/ line)
    /\ pc[t] = "filter" => level /\ line

(* While a thread receives, the level is down, and no filter is closed     *)
(* before the line is down.                                                *)
Lowering ==
  \A t \in Threads :
    /\ Rx(t) => ~ level
    /\ pc[t] = "drop" => ~ filter \/ ~ line
    /\ pc[t] = "settle" => ~ line

(* And while none of them does.                                            *)
Resting ==
  (\A t \in Threads : ~ Tx(t) /\ ~ Rx(t)) =>
    /\ line <=> txrx_state = "IN_TX"
    /\ level <=> txrx_state = "IN_TX"
    /\ txrx_state = "IN_TX" => filter

Pins == ~ mixed => Apart /\ Raising /\ Lowering /\ Resting

-----------------------------------------------------------------------------
(* A step of one thread leaves the other where it is.                      *)
LEMMA OneSteps ==
  ASSUME Types, NEW t \in Threads, NEW from, NEW to \in Spots, Step(t, from, to)
  PROVE  /\ pc[t] = from /\ pc'[t] = to /\ pc' \in [Threads -> Spots]
         /\ \A u \in Threads \ {t} : pc'[u] = pc[u]
BY DEF Step, Types

(* A call of tr_switch by a thread that is in none.                        *)
LEMMA Calls ==
  ASSUME Types, NEW t \in Threads, NEW from \in {"idle", "keyDone", "power", "swr", "trip"},
         NEW state, NEW next \in {"idle", "keyDone", "trip"}, TrSwitch(t, from, state, next)
  PROVE  /\ \E to \in {next, "raise", "hush"} : Step(t, from, to)
         /\ ret' = [ret EXCEPT ![t] = next] /\ ret' \in [Threads -> {"idle", "keyDone", "trip"}]
         /\ Switches(state) => pc'[t] \in {"raise", "hush"}
         /\ ~ Switches(state) => pc'[t] = next
<1>1. /\ \E to \in {next, "raise", "hush"} : Step(t, from, to)
      /\ ret' = [ret EXCEPT ![t] = next]
  BY DEF TrSwitch
<1>2. ret' \in [Threads -> {"idle", "keyDone", "trip"}]
  BY <1>1 DEF Types
<1>3. /\ Switches(state) => pc'[t] \in {"raise", "hush"}
      /\ ~ Switches(state) => pc'[t] = next
  BY DEF TrSwitch, Step, Types
<1>. QED BY <1>1, <1>2, <1>3

LEMMA FirstWriteTypes ==
  ASSUME NEW t \in Threads, NEW places, FirstWrite(t, places)
  PROVE  mixed' \in BOOLEAN
BY DEF FirstWrite

LEMMA TypesKept == RadioAssumption /\ Types /\ [TxRxNext]_txrx_vars => Types'
<1> SUFFICES ASSUME RadioAssumption, Types, [TxRxNext]_txrx_vars PROVE Types'
  OBVIOUS
<1> USE DEF radio, tick
<1>1. ASSUME NEW t \in Threads, Switching(t) PROVE Types'
  <2>1. PICK from \in ToTx \cup ToRx, to \in (ToTx \cup ToRx) \cup {ret[t]} :
          /\ Step(t, from, to)
          /\ from \in {"filter", "settle"} <=> to = ret[t]
    <3>1. ret[t] \in {"idle", "keyDone", "trip"}
      BY DEF Types
    <3>. QED BY <1>1, <3>1, SMTT(60)
          DEF Switching, TxRaise, TxLift, TxLine, TxFilter, RxHush, RxOpen, RxDrop, RxSettle,
              ToTx, ToRx
  <2>2. ret[t] \in {"idle", "keyDone", "trip"} /\ to \in Spots
    BY DEF Types, Spots
  <2>3. /\ pc[t] = from /\ pc'[t] = to /\ pc' \in [Threads -> Spots]
        /\ \A u \in Threads \ {t} : pc'[u] = pc[u]
    BY <2>1, <2>2, OneSteps
  <2>4. UNCHANGED <<tick, ret, swr_protection>>
    BY <1>1 DEF Switching, TxRaise, TxLift, TxLine, TxFilter, RxHush, RxOpen, RxDrop, RxSettle
  <2>5. /\ txrx_state' \in {"IN_RX", "IN_TX"}
        /\ line' \in BOOLEAN /\ filter' \in BOOLEAN /\ level' \in BOOLEAN /\ mixed' \in BOOLEAN
    BY <1>1, FirstWriteTypes DEF Types, Flags, Switching, TxRaise, TxLift, TxLine, TxFilter,
       RxHush, RxOpen, RxDrop, RxSettle
  <2>6. peaks > PeakRemoval => pc'["hw"] = "trip" \/ (InSwitch("hw")' /\ ret["hw"] = "trip")
    <3>1. CASE t = "hw"
      BY <3>1, <2>1, <2>2, <2>3, <2>4 DEF Types, InSwitch, ToTx, ToRx
    <3>2. CASE t # "hw"
      BY <3>2, <2>3, <2>4 DEF Types, InSwitch, Threads
    <3>. QED BY <3>1, <3>2
  <2>. QED BY <2>3, <2>4, <2>5, <2>6 DEF Types, Flags
<1>2. CASE HwTick
  <2>1. \E to \in {"keyDone", "raise", "hush", "power"} : Step("hw", "idle", to)
    BY <1>2, Calls DEF HwTick, Threads
  <2>2. ret' \in [Threads -> {"idle", "keyDone", "trip"}]
    BY <1>2, Calls DEF HwTick, Threads, Types
  <2>3. pc["hw"] = "idle" /\ pc' \in [Threads -> Spots]
    BY <2>1, OneSteps DEF Spots, ToTx, ToRx, Threads
  <2>4. ~ (peaks > PeakRemoval)
    BY <2>3 DEF Types, InSwitch, ToTx, ToRx
  <2>. QED BY <1>2, <2>2, <2>3, <2>4 DEF HwTick, Types, Flags
<1>3. CASE HwKeyDone
  <2>1. pc["hw"] = "keyDone" /\ pc' \in [Threads -> Spots]
    BY <1>3, OneSteps DEF HwKeyDone, Spots, Threads
  <2>2. ~ (peaks > PeakRemoval)
    BY <2>1 DEF Types, InSwitch, ToTx, ToRx
  <2>. QED BY <1>3, <2>1, <2>2 DEF HwKeyDone, Types, Flags
<1>4. CASE HwPower
  <2>1. pc["hw"] = "power" /\ pc' \in [Threads -> Spots]
    BY <1>4, OneSteps DEF HwPower, Spots, Threads
  <2>2. ~ (peaks > PeakRemoval)
    BY <2>1 DEF Types, InSwitch, ToTx, ToRx
  <2>. QED BY <1>4, <2>1, <2>2 DEF HwPower, Types, Flags
<1>5. CASE HwTrip
  <2>1. pc' \in [Threads -> Spots]
    BY <1>5, OneSteps DEF HwTrip, Spots, Threads
  <2>2. 0 \in 0 .. PeakRemoval + 1 /\ ~ (0 > PeakRemoval)
    BY DEF RadioAssumption
  <2>. QED BY <1>5, <2>1, <2>2 DEF HwTrip, Types, Flags
<1>6. ASSUME NEW high \in BOOLEAN, HwSwr(high) PROVE Types'
  <2> DEFINE count == IF high THEN peaks + 1 ELSE 0
  <2>1. \E to \in {"trip", "raise", "hush", "idle"} : Step("hw", "swr", to)
    BY <1>6, Calls DEF HwSwr, Threads
  <2>2. pc["hw"] = "swr" /\ pc' \in [Threads -> Spots]
    BY <2>1, OneSteps DEF Spots, ToTx, ToRx, Threads
  <2>3. peaks \in 0 .. PeakRemoval
    BY <2>2 DEF Types, InSwitch, ToTx, ToRx, RadioAssumption
  <2>4. peaks' = count /\ count \in 0 .. PeakRemoval + 1
    BY <1>6, <2>3 DEF HwSwr, RadioAssumption
  <2>5. ret' \in [Threads -> {"idle", "keyDone", "trip"}]
    BY <1>6, Calls DEF HwSwr, Threads, Types
  <2>6. peaks' > PeakRemoval => pc'["hw"] = "trip" \/ (InSwitch("hw")' /\ ret'["hw"] = "trip")
    <3> SUFFICES ASSUME count > PeakRemoval
                 PROVE  pc'["hw"] = "trip" \/ (InSwitch("hw")' /\ ret'["hw"] = "trip")
      BY <2>4
    <3>1. TrSwitch("hw", "swr", "IN_RX", "trip")
      BY <1>6 DEF HwSwr
    <3>2. ret' = [ret EXCEPT !["hw"] = "trip"] /\ pc'["hw"] \in {"trip", "raise", "hush"}
      BY <3>1, Calls DEF Threads
    <3>3. ret'["hw"] = "trip"
      BY <3>2 DEF Types, Threads
    <3>. QED BY <3>2, <3>3 DEF InSwitch, ToTx, ToRx
  <2>7. UNCHANGED <<radio, key, lastKey, ticks, mixed>>
    BY <1>6 DEF HwSwr
  <2>. QED BY <2>2, <2>4, <2>5, <2>6, <2>7 DEF Types, Flags
<1>7. ASSUME NEW state \in {"IN_RX", "IN_TX"}, Ptt(state) PROVE Types'
  <2>1. \E to \in {"idle", "raise", "hush"} : Step("cmd", "idle", to)
    BY <1>7, Calls DEF Ptt, Threads
  <2>2. pc' \in [Threads -> Spots] /\ pc'["hw"] = pc["hw"]
    BY <2>1, OneSteps DEF Spots, ToTx, ToRx, Threads
  <2>3. ret' \in [Threads -> {"idle", "keyDone", "trip"}] /\ ret'["hw"] = ret["hw"]
    BY <1>7, Calls DEF Ptt, Threads, Types
  <2>. QED BY <1>7, <2>2, <2>3 DEF Ptt, Types, Flags, InSwitch
<1>8. CASE ResetProtection
  BY <1>8 DEF ResetProtection, Types, Flags, InSwitch
<1>9. CASE Key
  BY <1>9 DEF Key, Types, Flags, InSwitch
<1>10. CASE UNCHANGED txrx_vars
  BY <1>10 DEF txrx_vars, Types, Flags, InSwitch
<1>. QED BY <1>1, <1>2, <1>3, <1>4, <1>5, <1>6, <1>7, <1>8, <1>9, <1>10 DEF TxRxNext

-----------------------------------------------------------------------------
(* A step that writes nothing to the transceiver, and takes no thread in   *)
(* or out of its writes, changes nothing of what the pins are like.        *)
LEMMA PinsUnwritten ==
  ASSUME Pins, UNCHANGED <<txrx_state, line, filter, level, mixed>>,
         \A t \in Threads : pc'[t] = pc[t] \/ (pc[t] \notin Writing /\ pc'[t] \notin Writing)
  PROVE  Pins'
<1>1. \A t \in Threads : (Tx(t)' <=> Tx(t)) /\ (Rx(t)' <=> Rx(t))
  BY DEF Tx, Rx, Writing
<1>2. \A t \in Threads : /\ pc'[t] = "line" <=> pc[t] = "line"
                         /\ pc'[t] = "filter" <=> pc[t] = "filter"
                         /\ pc'[t] = "drop" <=> pc[t] = "drop"
                         /\ pc'[t] = "settle" <=> pc[t] = "settle"
  BY DEF Writing
<1>. QED BY <1>1, <1>2 DEF Pins, Apart, Raising, Lowering, Resting

(* The steps of tr_switch by thread t, u being the other thread.           *)
LEMMA PinsWritten ==
  ASSUME Types, Pins, NEW t \in Threads, Switching(t)
  PROVE  Pins'
<1> USE DEF radio, tick
<1>1. PICK u \in Threads : u # t /\ Threads = {t, u}
  BY DEF Threads
<1>2. ret[t] \in {"idle", "keyDone", "trip"}
  BY DEF Types
<1>3. ASSUME NEW from, NEW to \in Spots, Step(t, from, to)
      PROVE  pc[t] = from /\ pc'[t] = to /\ pc'[u] = pc[u]
  BY <1>1, <1>3, OneSteps
<1>4. CASE TxRaise(t)
  <2>1. pc[t] = "raise" /\ pc'[t] = "lift" /\ pc'[u] = pc[u]
    BY <1>3, <1>4 DEF TxRaise, Spots, ToTx
  <2> SUFFICES ASSUME ~ mixed' PROVE (Apart /\ Raising /\ Lowering /\ Resting)'
    BY DEF Pins
  <2>2. ~ Rx(u) /\ (~ mixed \/ ~ Tx(u))
    BY <1>1, <1>4 DEF TxRaise, FirstWrite, Tx, Rx, ToRx, ToTx, InSwitch
  <2>3. txrx_state' = "IN_TX" /\ UNCHANGED <<line, filter, level>>
    BY <1>4 DEF TxRaise
  <2>. QED BY <1>1, <2>1, <2>2, <2>3 DEF Pins, Apart, Raising, Lowering, Resting, Tx, Rx
<1>5. CASE TxLift(t)
  <2>1. pc[t] = "lift" /\ pc'[t] = "line" /\ pc'[u] = pc[u]
    BY <1>3, <1>5 DEF TxLift, Spots, ToTx
  <2>. QED BY <1>1, <1>5, <2>1
         DEF TxLift, Pins, Apart, Raising, Lowering, Resting, Tx, Rx
<1>6. CASE TxLine(t)
  <2>1. pc[t] = "line" /\ pc'[t] = "filter" /\ pc'[u] = pc[u]
    BY <1>3, <1>6 DEF TxLine, Spots, ToTx
  <2>. QED BY <1>1, <1>6, <2>1
         DEF TxLine, Pins, Apart, Raising, Lowering, Resting, Tx, Rx
<1>7. CASE TxFilter(t)
  <2>1. pc[t] = "filter" /\ pc'[t] \notin Writing /\ pc'[u] = pc[u]
    BY <1>2, <1>3, <1>7 DEF TxFilter, Spots, Writing
  <2>. QED BY <1>1, <1>7, <2>1
         DEF TxFilter, Pins, Apart, Raising, Lowering, Resting, Tx, Rx, Writing
<1>8. CASE RxHush(t)
  <2>1. pc[t] = "hush" /\ pc'[t] = "open" /\ pc'[u] = pc[u]
    BY <1>3, <1>8 DEF RxHush, Spots, ToRx
  <2> SUFFICES ASSUME ~ mixed' PROVE (Apart /\ Raising /\ Lowering /\ Resting)'
    BY DEF Pins
  <2>2. ~ Tx(u) /\ (~ mixed \/ ~ Rx(u))
    BY <1>1, <1>8 DEF RxHush, FirstWrite, Tx, Rx, ToRx, ToTx, InSwitch
  <2>3. level' = FALSE /\ UNCHANGED <<txrx_state, line, filter>>
    BY <1>8 DEF RxHush
  <2>. QED BY <1>1, <2>1, <2>2, <2>3 DEF Pins, Apart, Raising, Lowering, Resting, Tx, Rx
<1>9. CASE RxOpen(t)
  <2>1. pc[t] = "open" /\ pc'[t] = "drop" /\ pc'[u] = pc[u]
    BY <1>3, <1>9 DEF RxOpen, Spots, ToRx
  <2>. QED BY <1>1, <1>9, <2>1
         DEF RxOpen, Pins, Apart, Raising, Lowering, Resting, Tx, Rx
<1>10. CASE RxDrop(t)
  <2>1. pc[t] = "drop" /\ pc'[t] = "settle" /\ pc'[u] = pc[u]
    BY <1>3, <1>10 DEF RxDrop, Spots, ToRx
  <2>. QED BY <1>1, <1>10, <2>1
         DEF RxDrop, Pins, Apart, Raising, Lowering, Resting, Tx, Rx
<1>11. CASE RxSettle(t)
  <2>1. pc[t] = "settle" /\ pc'[t] \notin Writing /\ pc'[u] = pc[u]
    BY <1>2, <1>3, <1>11 DEF RxSettle, Spots, Writing
  <2>. QED BY <1>1, <1>11, <2>1
         DEF RxSettle, Pins, Apart, Raising, Lowering, Resting, Tx, Rx, Writing
<1>. QED BY <1>4, <1>5, <1>6, <1>7, <1>8, <1>9, <1>10, <1>11 DEF Switching

LEMMA PinsKept == RadioAssumption /\ Types /\ Pins /\ [TxRxNext]_txrx_vars => Pins'
<1> SUFFICES ASSUME RadioAssumption, Types, Pins, [TxRxNext]_txrx_vars PROVE Pins'
  OBVIOUS
<1> DEFINE Outside == {"idle", "keyDone", "power", "swr", "trip", "raise", "hush"}
<1> USE DEF radio, tick
(* A step from one place outside the writes to another.                    *)
<1>1. ASSUME NEW t \in Threads, \E from, to \in Outside : Step(t, from, to),
             UNCHANGED <<txrx_state, line, filter, level, mixed>>
      PROVE  Pins'
  <2>1. pc[t] \notin Writing /\ pc'[t] \notin Writing /\ \A u \in Threads \ {t} : pc'[u] = pc[u]
    <3>1. PICK from \in Outside, to \in Outside : Step(t, from, to)
      BY <1>1
    <3>2. to \in Spots
      BY DEF Spots, ToTx, ToRx
    <3>. QED BY <3>1, <3>2, OneSteps DEF Writing
  <2>2. \A u \in Threads : pc'[u] = pc[u] \/ (pc[u] \notin Writing /\ pc'[u] \notin Writing)
    BY <2>1
  <2>. QED BY <1>1, <2>2, PinsUnwritten
<1>2. ASSUME UNCHANGED <<txrx_state, line, filter, level, mixed, pc>> PROVE Pins'
  BY <1>2, PinsUnwritten
<1>3. ASSUME NEW t \in Threads, Switching(t) PROVE Pins'
  BY <1>3, PinsWritten
<1>4. CASE HwTick
  <2>1. \E to \in {"keyDone", "raise", "hush", "power"} : Step("hw", "idle", to)
    BY <1>4, Calls DEF HwTick, Threads
  <2>. QED BY <1>1, <1>4, <2>1 DEF HwTick, Threads
<1>5. CASE HwKeyDone
  BY <1>1, <1>5 DEF HwKeyDone, Threads
<1>6. CASE HwPower
  BY <1>1, <1>6 DEF HwPower, Threads
<1>7. CASE HwTrip
  BY <1>1, <1>7 DEF HwTrip, Threads
<1>8. ASSUME NEW high \in BOOLEAN, HwSwr(high) PROVE Pins'
  <2>1. \E to \in {"trip", "raise", "hush", "idle"} : Step("hw", "swr", to)
    BY <1>8, Calls DEF HwSwr, Threads
  <2>. QED BY <1>1, <1>8, <2>1 DEF HwSwr, Threads
<1>9. ASSUME NEW state \in {"IN_RX", "IN_TX"}, Ptt(state) PROVE Pins'
  <2>1. \E to \in {"idle", "raise", "hush"} : Step("cmd", "idle", to)
    BY <1>9, Calls DEF Ptt, Threads
  <2>. QED BY <1>1, <1>9, <2>1 DEF Ptt, Threads
<1>10. CASE ResetProtection
  BY <1>2, <1>10 DEF ResetProtection
<1>11. CASE Key
  BY <1>2, <1>11 DEF Key
<1>12. CASE UNCHANGED txrx_vars
  BY <1>2, <1>12 DEF txrx_vars
<1>. QED BY <1>3, <1>4, <1>5, <1>6, <1>7, <1>8, <1>9, <1>10, <1>11, <1>12 DEF TxRxNext

LEMMA Begins == RadioAssumption /\ TxRxInit => Types /\ Pins
<1> SUFFICES ASSUME RadioAssumption, TxRxInit PROVE Types /\ Pins
  OBVIOUS
<1>1. Types
  <2>1. Flags
    BY DEF TxRxInit, Flags
  <2>2. pc \in [Threads -> Spots] /\ ret \in [Threads -> {"idle", "keyDone", "trip"}]
    BY DEF TxRxInit, Spots
  <2>3. ticks \in 0 .. 2 /\ peaks \in 0 .. PeakRemoval + 1 /\ ~ (peaks > PeakRemoval)
    BY DEF RadioAssumption, TxRxInit
  <2>. QED BY <2>1, <2>2, <2>3 DEF TxRxInit, Types
<1>2. \A t \in Threads : pc[t] = "idle"
  BY DEF TxRxInit
<1>3. Apart /\ Raising /\ Lowering /\ Resting
  BY <1>2 DEF TxRxInit, Apart, Raising, Lowering, Resting, Tx, Rx
<1>. QED BY <1>1, <1>3 DEF Pins

LEMMA Invariance == TxRxSpec => [](Types /\ Pins)
BY RadioAssumption, Begins, TypesKept, PinsKept, PTL DEF TxRxSpec

-----------------------------------------------------------------------------
(* The variables of the two threads and of the transceiver keep their      *)
(* types, and the counter of peaks its bound, whatever the limit is and    *)
(* however the calls of tr_switch overlap.                                 *)
THEOREM TxRxTypeCorrect == TxRxSpec => []TxRxTypeOK
<1>1. Types => TxRxTypeOK
  BY DEF Types, Flags, TxRxTypeOK, Spots
<1>. QED BY Invariance, <1>1, PTL

(* However the calls of tr_switch overlap and however long they take: if   *)
(* none to transmission wrote in the middle of one to reception since the  *)
(* last switch that ran alone, and all are done, then txrx_state says what *)
(* the transceiver does.                                                   *)
THEOREM LineFollows == TxRxSpec => []LineFollowsState
<1>1. Types /\ Pins => LineFollowsState
  BY DEF Types, Pins, Resting, LineFollowsState, InSwitch, Tx, Rx, ToTx, ToRx
<1>. QED BY Invariance, <1>1, PTL

(* In the same cases TX_LINE is switched with no filter in the way, and    *)
(* falls with the transmit level down, though the other thread's call      *)
(* closes filters too.                                                     *)
THEOREM SwitchedCold == TxRxSpec => LineSwitchedCold
<1> DEFINE Cold == ~ mixed => /\ line' # line => ~ filter
                              /\ line /\ ~ line' => ~ level
<1>1. Types /\ Pins /\ [TxRxNext]_txrx_vars => [Cold]_txrx_vars
  <2> SUFFICES ASSUME Types, Pins, TxRxNext, ~ mixed, line' # line
               PROVE  ~ filter /\ (line /\ ~ line' => ~ level)
    BY DEF txrx_vars, radio
  <2>1. PICK t \in Threads : TxLine(t) \/ RxDrop(t)
    BY DEF TxRxNext, Switching, TxRaise, TxLift, TxFilter, RxHush, RxOpen, RxSettle, HwTick,
           HwKeyDone, HwPower, HwSwr, HwTrip, Ptt, ResetProtection, Key, radio
  <2>2. line \in BOOLEAN /\ (TxLine(t) => line' = TRUE) /\ (RxDrop(t) => line' = FALSE)
    BY DEF Types, Flags, TxLine, RxDrop
  <2>3. (TxLine(t) => pc[t] = "line") /\ (RxDrop(t) => pc[t] = "drop")
    BY DEF TxLine, RxDrop, Step
  <2>. QED BY <2>1, <2>2, <2>3 DEF Pins, Raising, Lowering, Rx
<1>. QED BY Invariance, <1>1, PTL DEF TxRxSpec, LineSwitchedCold

=============================================================================
