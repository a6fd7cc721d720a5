---------------------------- MODULE RadioCommand ----------------------------
(***************************************************************************)
(* The command channel of the sBitx controller in shared memory: radio_cmd *)
(* (trx_v2-userland/sbitx_io.c), which uucpd and the clients call, and the *)
(* controller's process_radio_command_thread (sbitx_shm.c).  There is one  *)
(* place for a command and one for a response.  response_mutex is held for *)
(* a whole call; cmd_mutex and cmd_condition hand the command over.        *)
(*                                                                         *)
(* Both mutexes are robust, and nobody looks at what pthread_mutex_lock    *)
(* returns: after a caller has died with a mutex, the next to lock it has  *)
(* it in an inconsistent state, and once that one unlocks it the mutex     *)
(* is not recoverable: everybody then runs on without it.                  *)
(*                                                                         *)
(* A command is named by its caller and the number of the call, and the    *)
(* response to it has its name.                                            *)
(***************************************************************************)
EXTENDS Naturals

CONSTANTS
  Clients,      \* threads that call radio_cmd
  MaxCalls,     \* bound: calls of one client
  MaxCrashes,   \* bound: clients that die in a call
  MaxSpurious   \* bound: spurious wakeups of the command thread

ASSUME BoundsAssumption ==
  MaxCalls \in Nat /\ MaxCrashes \in Nat /\ MaxSpurious \in Nat

\* Who may own a mutex, besides the clients.
Thread == "command thread"
Nobody == "nobody"

ASSUME NamesAssumption == Thread \notin Clients /\ Nobody \notin Clients

VARIABLES
  client,       \* where each client is in radio_cmd
  calls,        \* the number of its last call
  thread,       \* where the command thread is
  cmd_mutex, response_mutex,
  service_command, response_service, response_available,
  executed,     \* history: how often each command was executed
  crashes, spurious   \* history: how many there were so far

shared == <<service_command, response_service, response_available>>
bounds == <<crashes, spurious>>
vars == <<client, calls, thread, cmd_mutex, response_mutex, shared, executed,
          bounds>>

NoCommand == <<"no client", 0>>
Blank == <<"blank", 0>>        \* the memset of process_radio_command
Commands == Clients \X (1 .. MaxCalls)
ManyTimes == MaxSpurious + 2   \* bound: executions are counted up to here
Health == {"good", "inconsistent", "broken"}

Init ==
  /\ client = [c \in Clients |-> "idle"]
  /\ calls = [c \in Clients |-> 0]
  /\ thread = "start"
  /\ cmd_mutex = [owner |-> Nobody, health |-> "good"]
  /\ response_mutex = [owner |-> Nobody, health |-> "good"]
  /\ service_command = NoCommand
  /\ response_service = Blank
  /\ response_available = FALSE
  /\ executed = [k \in Commands |-> 0]
  /\ crashes = 0 /\ spurious = 0

-----------------------------------------------------------------------------
(* A robust mutex: m is what it was and n what it is after p locked or     *)
(* unlocked it.                                                            *)
Dead(p) == p \in Clients /\ client[p] = "dead"

(* Mutant: the mutexes are not robust.                                     *)
MutantLocked(m, n, p) == m.owner = Nobody /\ n = [m EXCEPT !.owner = p]

Locked(m, n, p) ==
  \/ m.health = "broken" /\ n = m
  \/ m.health # "broken" /\ m.owner = Nobody /\ n = [m EXCEPT !.owner = p]
  \/ m.health # "broken" /\ Dead(m.owner)
     /\ n = [owner |-> p, health |-> "inconsistent"]

Unlocked(m, n, p) ==
  n = IF m.owner # p THEN m
      ELSE [owner |-> Nobody,
            health |-> IF m.health = "inconsistent" THEN "broken" ELSE m.health]

Own(c) == <<c, calls[c]>>

-----------------------------------------------------------------------------
(* radio_cmd.                                                              *)
At(c, from, to) == client[c] = from /\ client' = [client EXCEPT ![c] = to]

Call(c) ==
  /\ At(c, "idle", "lockResponse")
  /\ calls[c] < MaxCalls
  /\ calls' = [calls EXCEPT ![c] = @ + 1]
  /\ UNCHANGED <<thread, cmd_mutex, response_mutex, shared, executed, bounds>>

LockResponse(c) ==
  /\ At(c, "lockResponse", "lockCmd")
  /\ Locked(response_mutex, response_mutex', c)
  /\ UNCHANGED <<calls, thread, cmd_mutex, shared, executed, bounds>>

LockCmd(c) ==
  /\ At(c, "lockCmd", "write")
  /\ Locked(cmd_mutex, cmd_mutex', c)
  /\ UNCHANGED <<calls, thread, response_mutex, shared, executed, bounds>>

WriteCommand(c) ==
  /\ At(c, "write", "signal")
  /\ service_command' = Own(c)
  /\ UNCHANGED <<calls, thread, cmd_mutex, response_mutex, response_service,
                 response_available, executed, bounds>>

(* Mutant: response_available is not cleared.                              *)
MutantSignal(c) ==
  /\ At(c, "signal", "poll")
  /\ thread' = IF thread = "waiting" THEN "woken" ELSE thread
  /\ Unlocked(cmd_mutex, cmd_mutex', c)
  /\ UNCHANGED <<calls, response_mutex, shared, executed, bounds>>

(* response_available is cleared, the condition signalled and cmd_mutex    *)
(* unlocked.                                                               *)
Signal(c) ==
  /\ At(c, "signal", "poll")
  /\ response_available' = FALSE
  /\ thread' = IF thread = "waiting" THEN "woken" ELSE thread
  /\ Unlocked(cmd_mutex, cmd_mutex', c)
  /\ UNCHANGED <<calls, response_mutex, service_command, response_service,
                 executed, bounds>>

Poll(c) ==
  /\ At(c, "poll", "take")
  /\ response_available
  /\ UNCHANGED <<calls, thread, cmd_mutex, response_mutex, shared, executed,
                 bounds>>

(* Mutant: after a time-out the command is sent again.                     *)
MutantTimeOut(c) ==
  /\ At(c, "poll", "lockCmd")
  /\ ~ response_available
  /\ UNCHANGED <<calls, thread, cmd_mutex, response_mutex, shared, executed,
                 bounds>>

(* After 30 tries radio_cmd returns false.                                 *)
TimeOut(c) ==
  /\ At(c, "poll", "idle")
  /\ ~ response_available
  /\ Unlocked(response_mutex, response_mutex', c)
  /\ UNCHANGED <<calls, thread, cmd_mutex, shared, executed, bounds>>

(* The response is copied and radio_cmd returns true.                      *)
Take(c) ==
  /\ At(c, "take", "idle")
  /\ response_available' = FALSE
  /\ Unlocked(response_mutex, response_mutex', c)
  /\ UNCHANGED <<calls, thread, cmd_mutex, service_command, response_service,
                 executed, bounds>>

(* The client's process is killed, or exits while this thread is in a call.*)
Crash(c) ==
  /\ crashes < MaxCrashes
  /\ client[c] # "idle" /\ At(c, client[c], "dead")
  /\ crashes' = crashes + 1
  /\ UNCHANGED <<calls, thread, cmd_mutex, response_mutex, shared, executed,
                 spurious>>

Client(c) ==
  \/ LockResponse(c) \/ LockCmd(c) \/ WriteCommand(c) \/ Signal(c)
  \/ Poll(c) \/ TimeOut(c) \/ Take(c)

-----------------------------------------------------------------------------
(* process_radio_command_thread.                                           *)
ThreadAt(from, to) == thread = from /\ thread' = to

ThreadLock(from, to) ==
  /\ ThreadAt(from, to)
  /\ Locked(cmd_mutex, cmd_mutex', Thread)
  /\ UNCHANGED <<client, calls, response_mutex, shared, executed, bounds>>

(* pthread_cond_wait returns at once when the caller has not the mutex.    *)
CondWait ==
  /\ ThreadAt("loop", IF cmd_mutex.owner = Thread THEN "waiting" ELSE "process")
  /\ Unlocked(cmd_mutex, cmd_mutex', Thread)
  /\ UNCHANGED <<client, calls, response_mutex, shared, executed, bounds>>

SpuriousWakeup ==
  /\ spurious < MaxSpurious
  /\ spurious' = spurious + 1
  /\ ThreadAt("waiting", "woken")
  /\ UNCHANGED <<client, calls, cmd_mutex, response_mutex, shared, executed,
                 crashes>>

(* process_radio_command clears the response before it executes the        *)
(* command, which may take longer than the client waits.                   *)
ClearResponse ==
  /\ ThreadAt("process", "execute")
  /\ response_service' = Blank
  /\ UNCHANGED <<client, calls, cmd_mutex, response_mutex, service_command,
                 response_available, executed, bounds>>

Execute ==
  /\ ThreadAt("execute", "answer")
  /\ response_service' = service_command
  /\ executed' = [k \in Commands |->
       IF k = service_command /\ executed[k] < ManyTimes THEN executed[k] + 1
       ELSE executed[k]]
  /\ UNCHANGED <<client, calls, cmd_mutex, response_mutex, service_command,
                 response_available, bounds>>

(* Mutant: the thread leaves its loop after a command.                     *)
MutantAnswer ==
  /\ ThreadAt("answer", "exit")
  /\ response_available' = TRUE
  /\ UNCHANGED <<client, calls, cmd_mutex, response_mutex, service_command,
                 response_service, executed, bounds>>

Answer ==
  /\ ThreadAt("answer", "loop")
  /\ response_available' = TRUE
  /\ UNCHANGED <<client, calls, cmd_mutex, response_mutex, service_command,
                 response_service, executed, bounds>>

CommandThread ==
  \/ ThreadLock("start", "loop") \/ CondWait \/ ThreadLock("woken", "process")
  \/ ClearResponse \/ Execute \/ Answer

-----------------------------------------------------------------------------
Next ==
  \/ \E c \in Clients : Call(c) \/ Client(c) \/ Crash(c)
  \/ CommandThread \/ SpuriousWakeup

Spec == Init /\ [][Next]_vars

(* A client in a call and the command thread keep running; a client that   *)
(* is refused a mutex in turns with others gets it in the end.             *)
Fairness ==
  /\ \A c \in Clients : WF_vars(Client(c)) /\ SF_vars(LockResponse(c))
                        /\ SF_vars(LockCmd(c))
  /\ WF_vars(CommandThread) /\ SF_vars(ThreadLock("woken", "process"))

FairSpec == Spec /\ Fairness

-----------------------------------------------------------------------------
Owners == Clients \cup {Thread, Nobody}
TypeOK ==
  /\ client \in [Clients -> {"idle", "lockResponse", "lockCmd", "write",
                             "signal", "poll", "take", "dead"}]
  /\ calls \in [Clients -> 0 .. MaxCalls]
  /\ thread \in {"start", "loop", "waiting", "woken", "process", "execute",
                 "answer"}
  /\ cmd_mutex \in [owner : Owners, health : Health]
  /\ response_mutex \in [owner : Owners, health : Health]
  /\ service_command \in Commands \cup {NoCommand}
  /\ response_service \in Commands \cup {NoCommand, Blank}
  /\ response_available \in BOOLEAN
  /\ executed \in [Commands -> 0 .. ManyTimes]
  /\ crashes \in 0 .. MaxCrashes /\ spurious \in 0 .. MaxSpurious

Healthy == cmd_mutex.health # "broken" /\ response_mutex.health # "broken"

(* A response that radio_cmd returns is the response to this very call,    *)
(* though earlier calls may have timed out or died and their commands been *)
(* executed late.  Only the re-execution after a spurious wakeup may still *)
(* be writing it.                                                          *)
OwnResponse ==
  \A c \in Clients : client[c] = "take" /\ Healthy =>
    \/ response_service = Own(c)
    \/ spurious > 0 /\ response_service = Blank

(* No command is executed again, other than by a spurious wakeup: neither  *)
(* for a later call that found the channel busy nor after a time-out.      *)
ExecutedOnce ==
  Healthy => \A k \in Commands : executed[k] <= 1 + spurious

(* Every call returns, also when another client died with both mutexes.    *)
CallsReturn ==
  \A c \in Clients :
    client[c] = "lockResponse" ~> client[c] \in {"idle", "dead"}

=============================================================================
