------------------------------- MODULE Executor -------------------------------
(***************************************************************************)
(* Command execution, hyrule_mcp/executor.py.  A tool call is a task of    *)
(* the event loop.  A call for the MCP host itself runs a subprocess; a    *)
(* call for any other host takes a slot of _SSH_SEMAPHORE and hands a job  *)
(* to the thread pool of asyncio.to_thread, where _run_paramiko connects,  *)
(* starts the command and waits for its exit status.                       *)
(*                                                                         *)
(* The call has a deadline, the job has none: when wait_for gives up, a    *)
(* job the pool has not begun is withdrawn, and one that is running goes   *)
(* on.  Steps of the event loop, of the pool's threads, of the remote      *)
(* hosts and of the clients that may cancel a call interleave freely.      *)
(***************************************************************************)
EXTENDS Integers, Sequences, FiniteSets, SequencesExt

CONSTANTS
  Calls,          \* tool calls
  Local,          \* the calls _is_local_target sends to a subprocess
  MaxConcurrency, \* settings.ssh_max_concurrency
  PoolSize        \* threads of the event loop's default executor

ASSUME ConstantsAssumption ==
  /\ IsFiniteSet(Calls)
  /\ Local \subseteq Calls
  /\ MaxConcurrency \in Nat \ {0}
  /\ PoolSize \in Nat \ {0}

Remote == Calls \ Local

VARIABLES
  free,     \* the semaphore's value
  waiting,  \* calls waiting for the semaphore, in the order it serves them
  pc,       \* where each call is
  answer,   \* what each call has answered, if anything
  pool,     \* jobs the thread pool has not begun, in order
  work      \* the remote session or local process of each call

vars == <<free, waiting, pc, answer, pool, work>>

(* expiring: the deadline has passed; aborting: the client has cancelled;  *)
(* in either case the await has been interrupted and its exception is on   *)
(* its way to the call.                                                    *)
PCs == {"idle", "waiting", "spawning", "awaiting", "expiring", "aborting",
        "killing", "answered", "cancelled"}

Answers ==
  {"none", "ok", "command_failed", "timeout", "transport_error", "raised"}

(* succeeded, exited: the command ran to its end, with exit status zero or *)
(* another; lost: the connection closed before an exit status came, which  *)
(* paramiko reports as status -1; failed: _run_paramiko or the spawning of *)
(* the process raised.                                                     *)
Works == {"none", "queued", "withdrawn", "connecting", "executing",
          "succeeded", "exited", "lost", "failed", "killed"}

RanToItsEnd(c) == work[c] \in {"succeeded", "exited"}

Ended(c) == pc[c] \in {"answered", "cancelled"}

(* The calls inside the with-block.                                        *)
Holders == {c \in Remote : pc[c] \in {"awaiting", "expiring", "aborting"}}

(* The jobs that occupy a thread of the pool.                              *)
Sessions == {c \in Remote : work[c] \in {"connecting", "executing"}}

-------------------------------------------------------------------------------
(* The semaphore *)

(* asyncio.to_thread appends the job to the pool's queue.                  *)
EnterWith(c) ==
  /\ free' = free - 1
  /\ pc' = [pc EXCEPT ![c] = "awaiting"]
  /\ work' = [work EXCEPT ![c] = "queued"]
  /\ pool' = Append(pool, c)

(* A call may not overtake those that wait.                                *)
Submit(c) ==
  /\ pc[c] = "idle"
  /\ \/ /\ free > 0 /\ waiting = <<>>
        /\ EnterWith(c)
        /\ UNCHANGED waiting
     \/ /\ free = 0 \/ waiting # <<>>
        /\ pc' = [pc EXCEPT ![c] = "waiting"]
        /\ waiting' = Append(waiting, c)
        /\ UNCHANGED <<free, work, pool>>
  /\ UNCHANGED answer

Admit ==
  /\ free > 0 /\ waiting # <<>>
  /\ EnterWith(Head(waiting))
  /\ waiting' = Tail(waiting)
  /\ UNCHANGED answer

LeaveWithLeak(c, end, a) ==
  /\ pc' = [pc EXCEPT ![c] = end]
  /\ answer' = [answer EXCEPT ![c] = a]
  /\ free' = free + (IF end = "cancelled" THEN 0 ELSE 1)
  /\ UNCHANGED waiting

LeaveWithTwice(c, end, a) ==
  /\ pc' = [pc EXCEPT ![c] = end]
  /\ answer' = [answer EXCEPT ![c] = a]
  /\ free' = free + (IF end = "cancelled" THEN 2 ELSE 1)
  /\ UNCHANGED waiting

(* The call ends, for whatever reason, and its slot is released.           *)
LeaveWith(c, end, a) ==
  /\ pc' = [pc EXCEPT ![c] = end]
  /\ answer' = [answer EXCEPT ![c] = a]
  /\ free' = free + 1
  /\ UNCHANGED waiting

-------------------------------------------------------------------------------
(* _run_paramiko, in a thread of the pool *)

Begin ==
  /\ pool # <<>>
  /\ Cardinality(Sessions) < PoolSize
  /\ work' = [work EXCEPT ![Head(pool)] = "connecting"]
  /\ pool' = Tail(pool)
  /\ UNCHANGED <<free, waiting, pc, answer>>

WorkTurns(c, from, to) ==
  /\ work[c] = from
  /\ work' = [work EXCEPT ![c] = to]
  /\ UNCHANGED <<free, waiting, pc, answer, pool>>

(* exec_command: the remote host starts the command.                       *)
Launch(c) == WorkTurns(c, "connecting", "executing")

(* connect raises, or the channel fails or stays silent for too long.      *)
SessionFails(c) ==
  /\ c \in Remote
  /\ WorkTurns(c, "connecting", "failed") \/ WorkTurns(c, "executing", "failed")

ConnectionLost(c) == c \in Remote /\ WorkTurns(c, "executing", "lost")

(* The exit status arrives, or the subprocess ends.                        *)
Complete(c) ==
  \E end \in {"succeeded", "exited"} : WorkTurns(c, "executing", end)

-------------------------------------------------------------------------------
(* _run_ssh and execute_raw_args *)

(* What _command_payload and the except clauses make of the job's end.     *)
ReportedAnyway(c) ==
  CASE work[c] \in {"succeeded", "exited", "lost"} -> {"ok"}
    [] work[c] = "failed" -> {"transport_error", "timeout"}
    [] OTHER -> {}

(* A timeout of the socket is a TimeoutError too.                          *)
Reported(c) ==
  CASE work[c] = "succeeded" -> {"ok"}
    [] work[c] \in {"exited", "lost"} -> {"command_failed"}
    [] work[c] = "failed" -> {"transport_error", "timeout"}
    [] OTHER -> {}

Deliver(c) ==
  /\ pc[c] = "awaiting"
  /\ \E a \in Reported(c) : LeaveWith(c, "answered", a)
  /\ UNCHANGED <<pool, work>>

(* The deadline of wait_for, even if the result has just come in.          *)
Expire(c) ==
  /\ pc[c] = "awaiting"
  /\ pc' = [pc EXCEPT ![c] = "expiring"]
  /\ UNCHANGED <<free, waiting, answer, pool, work>>

JobStays(c) == UNCHANGED <<pool, work>>

(* The interrupted await has cancelled the job's future: the pool skips a  *)
(* job it has not begun and takes no notice otherwise.                     *)
WithdrawJob(c) ==
  IF work[c] = "queued"
  THEN /\ work' = [work EXCEPT ![c] = "withdrawn"]
       /\ pool' = RemoveFirst(pool, c)
  ELSE UNCHANGED <<pool, work>>

Settle(c) ==
  /\ \/ pc[c] = "expiring" /\ LeaveWith(c, "answered", "timeout")
     \/ pc[c] = "aborting" /\ LeaveWith(c, "cancelled", "none")
  /\ WithdrawJob(c)

(* The client cancels the call.                                            *)
Cancel(c) ==
  /\ \/ /\ pc[c] = "waiting"
        /\ pc' = [pc EXCEPT ![c] = "cancelled"]
        /\ waiting' = RemoveFirst(waiting, c)
     \/ /\ pc[c] \in {"awaiting", "expiring"}
        /\ pc' = [pc EXCEPT ![c] = "aborting"]
        /\ UNCHANGED waiting
  /\ UNCHANGED <<free, answer, pool, work>>

-------------------------------------------------------------------------------
(* _run_local and _run_local_raw *)

EndLocal(c, end, a) ==
  /\ pc' = [pc EXCEPT ![c] = end]
  /\ answer' = [answer EXCEPT ![c] = a]

(* create_subprocess_exec starts the process, then waits for its pipes.    *)
(* The timeout does not cover this await.                                  *)
Spawn(c) ==
  /\ pc[c] = "idle"
  /\ pc' = [pc EXCEPT ![c] = "spawning"]
  /\ work' = [work EXCEPT ![c] = "executing"]
  /\ UNCHANGED <<free, waiting, answer, pool>>

Spawned(c) ==
  /\ pc[c] = "spawning"
  /\ pc' = [pc EXCEPT ![c] = "awaiting"]
  /\ UNCHANGED <<free, waiting, answer, pool, work>>

SpawnFails(c) ==
  /\ pc[c] = "idle"
  /\ EndLocal(c, "answered", "transport_error")
  /\ work' = [work EXCEPT ![c] = "failed"]
  /\ UNCHANGED <<free, waiting, pool>>

DeliverLocal(c) ==
  /\ pc[c] = "awaiting"
  /\ RanToItsEnd(c)
  /\ \E a \in Reported(c) : EndLocal(c, "answered", a)
  /\ UNCHANGED <<free, waiting, pool, work>>

KillForgotten(c) ==
  /\ pc[c] = "expiring"
  /\ EndLocal(c, "answered", "timeout")
  /\ UNCHANGED <<free, waiting, pool, work>>

(* proc.kill(), then await proc.wait().  If the process has just ended by  *)
(* itself, kill does nothing, or raises ProcessLookupError from within the *)
(* handler of the timeout, where nothing catches it.                       *)
Kill(c) ==
  /\ pc[c] = "expiring"
  /\ \/ /\ work[c] = "executing"
        /\ work' = [work EXCEPT ![c] = "killed"]
        /\ pc' = [pc EXCEPT ![c] = "killing"]
        /\ UNCHANGED answer
     \/ /\ RanToItsEnd(c)
        /\ \E a \in {"timeout", "raised"} : EndLocal(c, "answered", a)
        /\ UNCHANGED work
  /\ UNCHANGED <<free, waiting, pool>>

Reap(c) ==
  /\ pc[c] = "killing"
  /\ EndLocal(c, "answered", "timeout")
  /\ UNCHANGED <<free, waiting, pool, work>>

(* asyncio kills a process whose creation is cancelled.                    *)
CancelSpawn(c) ==
  /\ pc[c] = "spawning"
  /\ EndLocal(c, "cancelled", "none")
  /\ work' = [work EXCEPT ![c] = IF RanToItsEnd(c) THEN @ ELSE "killed"]
  /\ UNCHANGED <<free, waiting, pool>>

(* CancelledError passes every except clause: the process is left alone.   *)
CancelLocal(c) ==
  /\ pc[c] \in {"awaiting", "expiring", "killing"}
  /\ EndLocal(c, "cancelled", "none")
  /\ UNCHANGED <<free, waiting, pool, work>>

-------------------------------------------------------------------------------

Init ==
  /\ free = MaxConcurrency
  /\ waiting = <<>>
  /\ pc = [c \in Calls |-> "idle"]
  /\ answer = [c \in Calls |-> "none"]
  /\ pool = <<>>
  /\ work = [c \in Calls |-> "none"]

(* What the event loop does of its own accord with a call that has begun.  *)
Handle(c) ==
  \/ c \in Remote /\ (Deliver(c) \/ Settle(c))
  \/ c \in Local /\ (Spawned(c) \/ DeliverLocal(c) \/ Kill(c) \/ Reap(c))

Client(c) ==
  \/ c \in Remote /\ (Submit(c) \/ Cancel(c))
  \/ /\ c \in Local
     /\ Spawn(c) \/ SpawnFails(c) \/ CancelSpawn(c) \/ CancelLocal(c)

Outside(c) ==
  Launch(c) \/ SessionFails(c) \/ ConnectionLost(c) \/ Complete(c)

Next ==
  \/ Admit \/ Begin
  \/ \E c \in Calls : Client(c) \/ Handle(c) \/ Expire(c) \/ Outside(c)

Spec == Init /\ [][Next]_vars

(* The event loop runs what is ready and its timers go off; if a result    *)
(* and the deadline come together, either may be first.  Of threads,       *)
(* remote hosts and clients nothing is assumed.                            *)
Fairness ==
  /\ WF_vars(Admit)
  /\ \A c \in Calls : WF_vars(Handle(c) \/ Expire(c))

FairSpec == Spec /\ Fairness

-------------------------------------------------------------------------------
(* Properties *)

TypeOK ==
  /\ free \in 0 .. MaxConcurrency
  /\ waiting \in Seq(Remote)
  /\ pc \in [Calls -> PCs]
  /\ answer \in [Calls -> Answers]
  /\ pool \in Seq(Remote)
  /\ work \in [Calls -> Works]

(* However calls end - answered, timed out, cancelled while they wait, run *)
(* or are being timed out - no slot of the semaphore is lost or handed out *)
(* twice, and every session belongs to a slot until its call has ended     *)
(* (executor.py, lines 83 and 262).                                        *)
SlotsConserved ==
  /\ free + Cardinality(Holders) = MaxConcurrency
  /\ \A c \in Sessions : c \in Holders \/ Ended(c)

(* An answer tells what became of the command: success only if it ran to   *)
(* its end with exit status zero, a transport error only if it could not   *)
(* be run or followed; after the timeout of a local call its process is    *)
(* gone.  An exception leaves a call only if its process ended just as it  *)
(* was to be killed (lines 226 to 248 and 284 to 303).                     *)
AnswersAreTrue ==
  \A c \in Calls :
    /\ answer[c] = "ok" => work[c] = "succeeded"
    /\ answer[c] = "command_failed" => work[c] \in {"exited", "lost"}
    /\ answer[c] = "transport_error" => work[c] = "failed"
    /\ answer[c] = "raised" => c \in Local /\ RanToItsEnd(c)
    /\ answer[c] = "timeout" /\ c \in Local => work[c] # "executing"

(* No thread takes up a job whose call has ended: a restart that was       *)
(* answered with a timeout while it queued for a thread is not begun       *)
(* minutes later, and what has become of a command that is over does not   *)
(* change.  A thread that has the job in hand when the call ends is not    *)
(* stopped: if it was connecting, it goes on to start the command (lines   *)
(* 319 and 320).                                                           *)
NoJobBegunLate ==
  [][\A c \in Calls :
       Ended(c) /\ work[c] \notin {"connecting", "executing"}
         => work'[c] = work[c]]_vars

(* Every call ends, whatever threads and hosts do or fail to do.  A call   *)
(* is made once at most, so this is: there comes a time from which on no   *)
(* call that has been made is unanswered.                                  *)
EveryCallEnds == <>[](\A c \in Calls : pc[c] = "idle" \/ Ended(c))

-------------------------------------------------------------------------------
(* A claim of the documentation that the code does not keep *)

(* README.md: "SSH fan-out" is "capped server-side".  So it is at least    *)
(* while no client cancels a call: the server's own timeouts, too, leave   *)
(* no more sessions open than there are slots.                             *)
NobodyCancels == \A c \in Calls : pc[c] \notin {"aborting", "cancelled"}

FanOutCapped == NobodyCancels => Cardinality(Sessions) <= MaxConcurrency

===============================================================================
