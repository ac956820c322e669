------------------------------ MODULE GuardStore ------------------------------
(***************************************************************************)
(* The no-op rollback guards of hyrule_mcp/rollback_guards.py: one JSON    *)
(* file per guard, read, changed in memory and rewritten in place by the   *)
(* server processes that share the guard directory.                        *)
(*                                                                         *)
(* The functions contain no await, so one process runs one of them at a    *)
(* time; a step of the model is one operation on the file system.  The     *)
(* rewrite, Path.write_text, truncates the file first and fills it         *)
(* afterwards.  A process may crash between any two steps, and the disk    *)
(* may refuse to open or to fill a file.                                   *)
(***************************************************************************)
EXTENDS Integers, Sequences

CONSTANTS
  Procs,            \* server processes sharing one guard directory
  Guards,           \* guard ids; their order is the order of sorted(glob)
  Operators,        \* who may call
  Intents,          \* what a guard is about: proposal, action, host, service
  Ttls,             \* requested times to live, in clock units
  LastDate,         \* the last moment a datetime can express
  MaxTime,          \* bound on the wall clock
  ClockMayStepBack, \* whether the wall clock may be set back
  MaxFaults,        \* bound on crashes and refused file operations
  NoFile,           \* the guard file does not exist
  Unreadable,       \* the guard file exists and is empty or garbled
  None              \* Python's None

Time == 0 .. MaxTime

Decisions == {"confirmed", "rolled_back"}

Terminal == Decisions \cup {"expired"}

AuditEvent ==
  [event : {"prepared"} \cup Terminal, ts : Time,
   by : Operators \cup {"system"}]

RollbackGuard ==
  [status : {"pending"} \cup Terminal, intent : Intents, expires : Int,
   audit : Seq(AuditEvent)]

ASSUME ConstantsAssumption ==
  /\ Guards \subseteq Int
  /\ Ttls \subseteq Int
  /\ LastDate \in Int
  /\ MaxTime \in Nat
  /\ MaxFaults \in Nat
  /\ ClockMayStepBack \in BOOLEAN
  /\ None \notin Guards
  /\ None \notin Decisions
  /\ NoFile # Unreadable
  /\ {NoFile, Unreadable, None} \cap RollbackGuard = {}

VARIABLES
  clock,    \* datetime.now(UTC)
  disk,     \* the guard directory: guard id -> what its file holds
  task,     \* the call each process is executing
  acked,    \* history: the decisions callers were told have been made
  faults    \* number of faults so far

vars == <<clock, disk, task, acked, faults>>

-------------------------------------------------------------------------------
(* Guards in memory *)

NewGuard(intent, by, now, ttl) ==
  [status |-> "pending", intent |-> intent, expires |-> now + ttl,
   audit |-> <<[event |-> "prepared", ts |-> now, by |-> by]>>]

CloseUnaudited(guard, s, by, now) == [guard EXCEPT !.status = s]

CloseNamingEvent(guard, s, by, now) ==
  [guard EXCEPT !.status = s,
                !.audit = Append(@, [event |-> "transition", ts |-> now,
                                     by |-> by])]

Close(guard, s, by, now) ==
  [guard EXCEPT !.status = s,
                !.audit = Append(@, [event |-> s, ts |-> now, by |-> by])]

IsGuard(file) == file \notin {NoFile, Unreadable}

IsPending(file) == IsGuard(file) /\ file.status = "pending"

DueLate(file, now) == IsPending(file) /\ now > file.expires

DueWhateverStatus(file, now) == IsGuard(file) /\ now >= file.expires

Due(file, now) == IsPending(file) /\ now >= file.expires

-------------------------------------------------------------------------------
(* The call a process executes: where it is, what it was asked, and its    *)
(* local variables.                                                        *)

Ops == Decisions \cup {"prepare", "list"}

Outcomes == {"ok", "rejected", "raised"}

Task ==
  [pc : {"idle", "load", "scan", "open", "write", "reply"},
   op : Ops \cup {None}, gid : Guards \cup {None},
   by : Operators \cup {None}, now : Time,
   copy : RollbackGuard \cup {None},
   todo : SUBSET Guards, found : SUBSET Guards, out : Outcomes \cup {None}]

Idle ==
  [pc |-> "idle", op |-> None, gid |-> None, by |-> None, now |-> 0,
   copy |-> None, todo |-> {}, found |-> {}, out |-> None]

At(p, pc) == task[p].pc = pc

(* Put the outcome of p's call where Reply sends it from.                  *)
Finish(p, out) ==
  task' = [task EXCEPT ![p] = [task[p] EXCEPT !.pc = "reply", !.out = out]]

(* Start rewriting the file of guard g with its changed in-memory copy;    *)
(* out is what the call answers once the file is saved.                    *)
StartSave(p, g, copy, out) ==
  task' = [task EXCEPT ![p] =
             [task[p] EXCEPT !.pc = "open", !.gid = g, !.copy = copy,
                             !.out = out]]

-------------------------------------------------------------------------------
(* prepare_guard *)

(* secrets.token_hex: an id no file has and no running call uses.          *)
Fresh(g) == disk[g] = NoFile /\ \A q \in Procs : task[q].gid # g

PrepareGuard(p, intent, by, ttl) ==
  /\ At(p, "idle")
  /\ ttl > 0
  /\ clock + ttl <= LastDate
  /\ \E g \in Guards :
       /\ Fresh(g)
       /\ task' = [task EXCEPT ![p] =
                     [Idle EXCEPT !.pc = "open", !.op = "prepare", !.gid = g,
                                  !.by = by, !.now = clock, !.out = "ok",
                                  !.copy = NewGuard(intent, by, clock, ttl)]]
  /\ UNCHANGED <<clock, disk, acked, faults>>

RefusePrepare(p, ttl) ==
  /\ At(p, "idle")
  /\ ttl <= 0
  /\ task' = [task EXCEPT ![p] = [Idle EXCEPT !.pc = "reply", !.op = "prepare",
                                              !.out = "rejected"]]
  /\ UNCHANGED <<clock, disk, acked, faults>>

(* timedelta, or its sum with the present, raises OverflowError: no date   *)
(* expresses the expiry.  It is no GuardError, so it leaves the tool; no   *)
(* file has been touched.                                                  *)
OverflowPrepare(p, ttl) ==
  /\ At(p, "idle")
  /\ ttl > 0
  /\ clock + ttl > LastDate
  /\ task' = [task EXCEPT ![p] = [Idle EXCEPT !.pc = "reply", !.op = "prepare",
                                              !.out = "raised"]]
  /\ UNCHANGED <<clock, disk, acked, faults>>

-------------------------------------------------------------------------------
(* confirm_guard and rollback_guard, through _transition *)

Transition(p, g, by, decision) ==
  /\ At(p, "idle")
  /\ task' = [task EXCEPT ![p] =
                [Idle EXCEPT !.pc = "load", !.op = decision, !.gid = g,
                             !.by = by, !.now = clock]]
  /\ UNCHANGED <<clock, disk, acked, faults>>

LoadMissingRaises(p) ==
  /\ At(p, "load")
  /\ disk[task[p].gid] = NoFile
  /\ Finish(p, "raised")
  /\ UNCHANGED <<clock, disk, acked, faults>>

LoadMissing(p) ==
  /\ At(p, "load")
  /\ disk[task[p].gid] = NoFile
  /\ Finish(p, "rejected")
  /\ UNCHANGED <<clock, disk, acked, faults>>

(* json.loads raises JSONDecodeError, which no caller turns into a result. *)
LoadUnreadable(p) ==
  /\ At(p, "load")
  /\ disk[task[p].gid] = Unreadable
  /\ Finish(p, "raised")
  /\ UNCHANGED <<clock, disk, acked, faults>>

LoadExpiresUnsaved(p) ==
  /\ At(p, "load")
  /\ Due(disk[task[p].gid], task[p].now)
  /\ Finish(p, "rejected")
  /\ UNCHANGED <<clock, disk, acked, faults>>

(* _expire_if_due saves the expiry, then the status check raises.          *)
LoadExpires(p) ==
  LET file == disk[task[p].gid] IN
  /\ At(p, "load")
  /\ Due(file, task[p].now)
  /\ StartSave(p, task[p].gid, Close(file, "expired", "system", task[p].now),
               "rejected")
  /\ UNCHANGED <<clock, disk, acked, faults>>

LoadClosed(p) ==
  LET file == disk[task[p].gid] IN
  /\ At(p, "load")
  /\ IsGuard(file)
  /\ file.status # "pending"
  /\ Finish(p, "rejected")
  /\ UNCHANGED <<clock, disk, acked, faults>>

LoadDecidesAnyStatus(p) ==
  LET file == disk[task[p].gid] IN
  /\ At(p, "load")
  /\ IsGuard(file)
  /\ ~Due(file, task[p].now)
  /\ StartSave(p, task[p].gid, Close(file, task[p].op, task[p].by, task[p].now),
               "ok")
  /\ UNCHANGED <<clock, disk, acked, faults>>

LoadDecides(p) ==
  LET file == disk[task[p].gid] IN
  /\ At(p, "load")
  /\ IsPending(file)
  /\ ~Due(file, task[p].now)
  /\ StartSave(p, task[p].gid, Close(file, task[p].op, task[p].by, task[p].now),
               "ok")
  /\ UNCHANGED <<clock, disk, acked, faults>>

-------------------------------------------------------------------------------
(* list_pending_guards *)

(* The directory is listed once, at the start.  Guard files are never      *)
(* removed, so a file the loop reaches is still there.                     *)
ListPending(p) ==
  /\ At(p, "idle")
  /\ task' = [task EXCEPT ![p] =
                [Idle EXCEPT !.pc = "scan", !.op = "list", !.now = clock,
                             !.todo = {g \in Guards : disk[g] # NoFile}]]
  /\ UNCHANGED <<clock, disk, acked, faults>>

(* g is the guard the loop looks at next.                                  *)
Scanning(p, g) ==
  /\ At(p, "scan")
  /\ g \in task[p].todo
  /\ \A h \in task[p].todo : g <= h

ScanUnreadable(p, g) ==
  /\ Scanning(p, g)
  /\ disk[g] = Unreadable
  /\ Finish(p, "raised")
  /\ UNCHANGED <<clock, disk, acked, faults>>

ScanExpiresUnsaved(p, g) ==
  /\ Scanning(p, g)
  /\ Due(disk[g], task[p].now)
  /\ task' = [task EXCEPT ![p] = [task[p] EXCEPT !.todo = @ \ {g}]]
  /\ UNCHANGED <<clock, disk, acked, faults>>

ScanExpires(p, g) ==
  /\ Scanning(p, g)
  /\ Due(disk[g], task[p].now)
  /\ task' = [task EXCEPT ![p] =
                [task[p] EXCEPT
                   !.pc = "open", !.gid = g, !.todo = @ \ {g},
                   !.copy = Close(disk[g], "expired", "system", task[p].now)]]
  /\ UNCHANGED <<clock, disk, acked, faults>>

ScanKeepsOverdue(p, g) ==
  /\ Scanning(p, g)
  /\ IsPending(disk[g])
  /\ task' = [task EXCEPT ![p] = [task[p] EXCEPT !.todo = @ \ {g},
                                                 !.found = @ \cup {g}]]
  /\ UNCHANGED <<clock, disk, acked, faults>>

ScanKeeps(p, g) ==
  /\ Scanning(p, g)
  /\ IsPending(disk[g])
  /\ ~Due(disk[g], task[p].now)
  /\ task' = [task EXCEPT ![p] = [task[p] EXCEPT !.todo = @ \ {g},
                                                 !.found = @ \cup {g}]]
  /\ UNCHANGED <<clock, disk, acked, faults>>

ScanSkips(p, g) ==
  /\ Scanning(p, g)
  /\ IsGuard(disk[g])
  /\ disk[g].status # "pending"
  /\ task' = [task EXCEPT ![p] = [task[p] EXCEPT !.todo = @ \ {g}]]
  /\ UNCHANGED <<clock, disk, acked, faults>>

ScanDone(p) ==
  /\ At(p, "scan")
  /\ task[p].todo = {}
  /\ Finish(p, "ok")
  /\ UNCHANGED <<clock, disk, acked, faults>>

-------------------------------------------------------------------------------
(* _save: Path.write_text *)

Open(p) ==
  /\ At(p, "open")
  /\ disk' = [disk EXCEPT ![task[p].gid] = Unreadable]
  /\ task' = [task EXCEPT ![p] = [task[p] EXCEPT !.pc = "write"]]
  /\ UNCHANGED <<clock, acked, faults>>

(* The bytes go to the start of the file.  If another process has filled   *)
(* it since Open, a shorter text leaves the tail of the longer one behind. *)
AfterWrite(p) ==
  {task[p].copy} \cup
  (IF IsGuard(disk[task[p].gid]) THEN {Unreadable} ELSE {})

Write(p) ==
  /\ At(p, "write")
  /\ \E file \in AfterWrite(p) : disk' = [disk EXCEPT ![task[p].gid] = file]
  /\ task' = [task EXCEPT ![p] =
                [task[p] EXCEPT
                   !.pc = IF task[p].op = "list" THEN "scan" ELSE "reply",
                   !.copy = None]]
  /\ UNCHANGED <<clock, acked, faults>>

(* OSError from open or from write: the exception leaves the tool.         *)
SaveFails(p) ==
  /\ At(p, "open") \/ At(p, "write")
  /\ faults < MaxFaults
  /\ faults' = faults + 1
  /\ Finish(p, "raised")
  /\ UNCHANGED <<clock, disk, acked>>

-------------------------------------------------------------------------------

Reply(p) ==
  /\ At(p, "reply")
  /\ acked' = IF task[p].op \in Decisions /\ task[p].out = "ok"
              THEN acked \cup {[gid |-> task[p].gid, decision |-> task[p].op]}
              ELSE acked
  /\ task' = [task EXCEPT ![p] = Idle]
  /\ UNCHANGED <<clock, disk, faults>>

(* The process dies and is restarted; only the files survive.              *)
Crash(p) ==
  /\ ~At(p, "idle")
  /\ faults < MaxFaults
  /\ faults' = faults + 1
  /\ task' = [task EXCEPT ![p] = Idle]
  /\ UNCHANGED <<clock, disk, acked>>

(* Wall-clock time.                                                        *)
AdvanceClock ==
  /\ \E t \in Time :
       /\ t > clock \/ (ClockMayStepBack /\ t # clock)
       /\ clock' = t
  /\ UNCHANGED <<disk, task, acked, faults>>

Init ==
  /\ clock = 0
  /\ disk = [g \in Guards |-> NoFile]
  /\ task = [p \in Procs |-> Idle]
  /\ acked = {}
  /\ faults = 0

Call(p) ==
  \/ \E intent \in Intents, by \in Operators, ttl \in Ttls :
       PrepareGuard(p, intent, by, ttl)
  \/ \E ttl \in Ttls : RefusePrepare(p, ttl) \/ OverflowPrepare(p, ttl)
  \/ \E g \in Guards, by \in Operators, decision \in Decisions :
       Transition(p, g, by, decision)
  \/ ListPending(p)

Continue(p) ==
  \/ LoadMissing(p) \/ LoadUnreadable(p) \/ LoadExpires(p) \/ LoadClosed(p)
  \/ LoadDecides(p)
  \/ \E g \in Guards : ScanUnreadable(p, g) \/ ScanExpires(p, g)
                         \/ ScanKeeps(p, g) \/ ScanSkips(p, g)
  \/ ScanDone(p)
  \/ Open(p) \/ Write(p) \/ Reply(p)

Fault(p) == SaveFails(p) \/ Crash(p)

Next ==
  \/ \E p \in Procs : Call(p) \/ Continue(p) \/ Fault(p)
  \/ AdvanceClock

Spec == Init /\ [][Next]_vars

(* A call that has begun is carried on by its process, and somebody keeps  *)
(* asking for the pending list.                                            *)
Fairness ==
  \A p \in Procs : WF_vars(Continue(p)) /\ SF_vars(ListPending(p))

(* The clock may stop at its bound only.                                   *)
FairSpec == Spec /\ Fairness /\ WF_vars(AdvanceClock)

-------------------------------------------------------------------------------
(* Properties of every instance *)

(* Every variable holds the kind of value the code keeps in it.            *)
TypeOK ==
  /\ clock \in Time
  /\ disk \in [Guards -> RollbackGuard \cup {NoFile, Unreadable}]
  /\ task \in [Procs -> Task]
  /\ acked \subseteq [gid : Guards, decision : Decisions]
  /\ faults \in 0 .. MaxFaults

(* The audit list of a guard that can be read is the story of its status:  *)
(* it was prepared, and if it is closed, closed once, the way the status   *)
(* says, and by the system if it expired.  No order of expiries, decisions *)
(* and interrupted rewrites leaves a file whose two halves disagree        *)
(* (rollback_guards.py, lines 82 to 87 and 122 to 140).                    *)
Explains(guard) ==
  /\ guard.audit # <<>>
  /\ guard.audit[1].event = "prepared"
  /\ \/ guard.status = "pending" /\ Len(guard.audit) = 1
     \/ /\ guard.status \in Terminal
        /\ Len(guard.audit) = 2
        /\ guard.audit[2].event = guard.status
        /\ guard.status = "expired" => guard.audit[2].by = "system"

AuditExplainsStatus ==
  \A g \in Guards : IsGuard(disk[g]) => Explains(disk[g])

(* A decision on file was asked for before the guard's TTL ran out, and an *)
(* expiry was recorded only once it had, however the steps of calls that   *)
(* read the clock at different moments interleave.                         *)
Timely(guard) ==
  /\ guard.status \in Decisions => guard.audit[2].ts < guard.expires
  /\ guard.status = "expired" => guard.audit[2].ts >= guard.expires

DecisionWithinTtl ==
  \A g \in Guards : IsGuard(disk[g]) => Timely(disk[g])

-------------------------------------------------------------------------------
(* Properties of a directory that one process uses *)

SingleWriter == \A p, q \in Procs : p = q

(* A closed guard's file is never changed again: not by a second decision, *)
(* not by a late expiry, not by a crash in the middle of another rewrite.  *)
TerminalIsFinal ==
  [][\A g \in Guards :
       IsGuard(disk[g]) /\ disk[g].status \in Terminal => disk'[g] = disk[g]
    ]_vars

(* A caller who was told that a guard is confirmed, or rolled back, finds  *)
(* it so on disk ever after.                                               *)
AckedDecisionStands ==
  \A a \in acked :
    IsGuard(disk[a.gid]) /\ disk[a.gid].status = a.decision

(* A caller whose decision is refused is never left with a pending guard:  *)
(* there is no such guard, or it is closed, if only by the refusal itself. *)
RefusalMeansClosed ==
  \A p \in Procs :
    At(p, "reply") /\ task[p].op \in Decisions /\ task[p].out = "rejected" =>
      ~IsPending(disk[task[p].gid])

(* A listing that is answered names exactly the guards that are pending    *)
(* and, at the moment the call read the clock, not past their TTL.         *)
ListingExact ==
  \A p \in Procs :
    At(p, "reply") /\ task[p].op = "list" /\ task[p].out = "ok" =>
      task[p].found =
        {g \in Guards : IsPending(disk[g]) /\ task[p].now < disk[g].expires}

(* A decision or a listing ends in an exception, rather than in a result,  *)
(* only if something has failed: a process died or the disk refused a      *)
(* write.  So does a prepare, unless it raised before it touched a file,   *)
(* because no date expresses its expiry (rollback_guards.py, line 115).    *)
RaisesOnlyAfterFault ==
  \A p \in Procs :
    At(p, "reply") /\ task[p].out = "raised" =>
      faults > 0 \/ (task[p].op = "prepare" /\ task[p].gid = None)

(* The directory implements the promise of GuardLifecycle.  While a file   *)
(* is being rewritten its guard still counts as what it was before: absent *)
(* if it is being prepared, pending otherwise.  A file left unreadable     *)
(* with nobody writing it is a lost guard.                                 *)
Rewriting(g) == {p \in Procs : At(p, "write") /\ task[p].gid = g}

LifecycleStatus ==
  [g \in Guards |->
     IF disk[g] = NoFile THEN "absent"
     ELSE IF disk[g] # Unreadable THEN disk[g].status
     ELSE IF Rewriting(g) = {} THEN "lost"
     ELSE IF \E p \in Rewriting(g) : task[p].op = "prepare" THEN "absent"
     ELSE "pending"]

Lifecycle == INSTANCE GuardLifecycle WITH status <- LifecycleStatus

ImplementsLifecycle == Lifecycle!Spec

(* The file of a guard past its TTL comes to say that the guard is closed: *)
(* expired, or decided by a call that read the clock in time - provided    *)
(* somebody keeps listing the pending guards, and unless a fault leaves    *)
(* unreadable the guard's own file, or one that sorts before it and so     *)
(* ends every listing before the guard is reached (line 158).              *)
Overdue(g) == IsPending(disk[g]) /\ clock >= disk[g].expires

OverdueIsMarked ==
  \A g \in Guards :
    \/ Overdue(g) ~> (IsGuard(disk[g]) /\ disk[g].status \in Terminal)
    \/ <>[](\E h \in Guards : h <= g /\ disk[h] = Unreadable)

-------------------------------------------------------------------------------
(* Claims of the documentation that the code does not keep *)

(* README.md, "Guard lifecycle": pending becomes confirmed, rolled_back or *)
(* expired; tests/test_noop_rollback_guards.py: a terminal guard cannot be *)
(* transitioned.  So no guard has two different decisions acknowledged.    *)
OneDecisionPerGuard == \A a, b \in acked : a.gid = b.gid => a = b

(* README.md: "a guard past its TTL is marked expired and excluded from    *)
(* the pending list", whatever has become of other guards.  At the least,  *)
(* then, its file does not go on saying that it is pending.                *)
EveryOverdueIsMarked ==
  \A g \in Guards : Overdue(g) ~> ~IsPending(disk[g])

===============================================================================
