--------------------------- MODULE GuardStoreProofs ---------------------------
(***************************************************************************)
(* What holds of GuardStore for every set of processes, guards, operators, *)
(* intents and TTLs and every bound.                                       *)
(***************************************************************************)
EXTENDS GuardStore, TLAPS

(* A guard that could have come out of prepare_guard, _transition or       *)
(* _expire_if_due.                                                         *)
Good(guard) == guard \in RollbackGuard /\ Explains(guard) /\ Timely(guard)

(* The local variables of a call that a later step of the call relies on.  *)
SoundTask(t) ==
  /\ t \in Task
  /\ t.pc = "load" => t.op \in Decisions
  /\ t.op \in Decisions => t.gid \in Guards /\ t.by \in Operators
  /\ t.pc \in {"open", "write"} => t.gid \in Guards /\ Good(t.copy)

(* The inductive invariant.  What a file says is only as good as the       *)
(* in-memory copy it was written from, possibly many steps of other        *)
(* processes earlier, so the copies must be good too.                      *)
IInv ==
  /\ TypeOK
  /\ \A g \in Guards : IsGuard(disk[g]) => Good(disk[g])
  /\ \A p \in Procs : SoundTask(task[p])

-------------------------------------------------------------------------------
(* Guards in memory *)

LEMMA NewGuardIsGood ==
  ASSUME NEW intent \in Intents, NEW by \in Operators, NEW now \in Time,
         NEW ttl \in Ttls
  PROVE  Good(NewGuard(intent, by, now, ttl))
<1>1. now + ttl \in Int
  BY ConstantsAssumption DEF ConstantsAssumption, Time
<1>2. <<[event |-> "prepared", ts |-> now, by |-> by]>> \in Seq(AuditEvent)
  BY DEF AuditEvent
<1> QED
  BY <1>1, <1>2
  DEF Good, NewGuard, RollbackGuard, Explains, Timely, Decisions, Terminal

(* Closing a pending guard adds the second and last event to its audit.    *)
LEMMA CloseIsGood ==
  ASSUME NEW guard, Good(guard), guard.status = "pending",
         NEW s \in Terminal, NEW by \in Operators \cup {"system"},
         NEW now \in Time,
         s \in Decisions => now < guard.expires,
         s = "expired" => now >= guard.expires /\ by = "system"
  PROVE  Good(Close(guard, s, by, now))
<1> DEFINE e == [event |-> s, ts |-> now, by |-> by]
           c == Close(guard, s, by, now)
<1>1. guard \in RollbackGuard /\ guard.audit \in Seq(AuditEvent)
  BY DEF Good, RollbackGuard
<1>2. e \in AuditEvent
  BY DEF AuditEvent
<1>3. Len(guard.audit) = 1 /\ guard.audit[1].event = "prepared"
  BY DEF Good, Explains, Terminal, Decisions
<1>4. /\ c.status = s /\ c.expires = guard.expires
      /\ c.audit = Append(guard.audit, e)
  BY <1>1 DEF Close, RollbackGuard
<1>5. c \in RollbackGuard
  <2>1. Append(guard.audit, e) \in Seq(AuditEvent)
    BY <1>1, <1>2
  <2>2. \A x \in Seq(AuditEvent) :
          [guard EXCEPT !.status = s, !.audit = x] \in RollbackGuard
    BY <1>1 DEF RollbackGuard
  <2> QED
    BY <2>1, <2>2 DEF Close
<1>6. Len(c.audit) = 2 /\ c.audit[1] = guard.audit[1] /\ c.audit[2] = e
  BY <1>1, <1>2, <1>3, <1>4
<1>7. Explains(c)
  BY <1>3, <1>4, <1>5, <1>6 DEF Explains, RollbackGuard
<1>8. Timely(c)
  BY <1>4, <1>6 DEF Timely
<1> QED
  BY <1>5, <1>7, <1>8 DEF Good

-------------------------------------------------------------------------------
(* Steps *)

LEMMA IdleIsSound == SoundTask(Idle)
BY ConstantsAssumption DEF ConstantsAssumption, SoundTask, Idle, Task, Time

LEMMA GuardFile ==
  ASSUME TypeOK, NEW g \in Guards, IsGuard(disk[g])
  PROVE  disk[g] \in RollbackGuard
BY DEF TypeOK, IsGuard

(* Most steps change nothing but the local variables of one call.          *)
LEMMA LocalStep ==
  ASSUME IInv, NEW p \in Procs, NEW t, SoundTask(t),
         task' = [task EXCEPT ![p] = t],
         UNCHANGED <<clock, disk, acked, faults>>
  PROVE  IInv'
BY DEF IInv, TypeOK, SoundTask

(* The steps of _save change one file as well.                             *)
LEMMA DiskStep ==
  ASSUME IInv, NEW p \in Procs, NEW t, SoundTask(t),
         NEW g \in Guards, NEW file, file = Unreadable \/ Good(file),
         task' = [task EXCEPT ![p] = t],
         disk' = [disk EXCEPT ![g] = file],
         UNCHANGED <<clock, acked, faults>>
  PROVE  IInv'
<1>1. TypeOK'
  BY DEF IInv, TypeOK, SoundTask, Good
<1>2. \A h \in Guards : IsGuard(disk'[h]) => Good(disk'[h])
  BY DEF IInv, TypeOK, IsGuard
<1>3. \A q \in Procs : SoundTask(task'[q])
  BY DEF IInv, TypeOK
<1> QED
  BY <1>1, <1>2, <1>3 DEF IInv

LEMMA FinishStep ==
  ASSUME IInv, NEW p \in Procs, NEW out \in Outcomes, Finish(p, out)
  PROVE  /\ task' \in [Procs -> Task]
         /\ \A q \in Procs : SoundTask(task'[q])
<1> DEFINE t == [task[p] EXCEPT !.pc = "reply", !.out = out]
<1>1. t \in Task /\ t.pc = "reply"
      /\ t.op = task[p].op /\ t.gid = task[p].gid /\ t.by = task[p].by
  BY DEF IInv, TypeOK, Task, Outcomes
<1> QED
  BY <1>1 DEF IInv, TypeOK, SoundTask, Finish

LEMMA FinishLocally ==
  ASSUME IInv, NEW p \in Procs, NEW out \in Outcomes, Finish(p, out),
         UNCHANGED <<clock, disk, acked, faults>>
  PROVE  IInv'
BY FinishStep DEF IInv, TypeOK

LEMMA StartSaveStep ==
  ASSUME IInv, NEW p \in Procs, NEW g \in Guards, NEW copy, Good(copy),
         NEW out \in Outcomes, StartSave(p, g, copy, out),
         UNCHANGED <<clock, disk, acked, faults>>
  PROVE  IInv'
<1> DEFINE t == [task[p] EXCEPT !.pc = "open", !.gid = g, !.copy = copy,
                                !.out = out]
<1>1. t \in Task /\ t.pc = "open" /\ t.gid = g /\ t.copy = copy
      /\ t.op = task[p].op /\ t.by = task[p].by
  BY DEF IInv, TypeOK, Task, Outcomes, Good
<1>2. SoundTask(t)
  BY <1>1 DEF SoundTask, IInv
<1> QED
  BY <1>2, LocalStep DEF StartSave

LEMMA InitIInv == Init => IInv
<1> SUFFICES ASSUME Init PROVE IInv
  OBVIOUS
<1>1. TypeOK
  BY IdleIsSound, ConstantsAssumption
  DEF Init, TypeOK, SoundTask, ConstantsAssumption, Time
<1> QED
  BY <1>1, IdleIsSound DEF Init, IInv, IsGuard

LEMMA CallStep ==
  ASSUME IInv, NEW p \in Procs, Call(p)
  PROVE  IInv'
<1>1. ASSUME NEW intent \in Intents, NEW by \in Operators, NEW ttl \in Ttls,
             PrepareGuard(p, intent, by, ttl)
      PROVE  IInv'
  <2>1. PICK g \in Guards :
          task' = [task EXCEPT ![p] =
                     [Idle EXCEPT !.pc = "open", !.op = "prepare", !.gid = g,
                                  !.by = by, !.now = clock, !.out = "ok",
                                  !.copy = NewGuard(intent, by, clock, ttl)]]
    BY <1>1 DEF PrepareGuard
  <2> DEFINE copy == NewGuard(intent, by, clock, ttl)
             t == [Idle EXCEPT !.pc = "open", !.op = "prepare", !.gid = g,
                               !.by = by, !.now = clock, !.out = "ok",
                               !.copy = copy]
  <2>2. Good(copy)
    BY NewGuardIsGood DEF IInv, TypeOK
  <2> HIDE DEF copy
  <2>3. /\ t \in Task /\ t.pc = "open" /\ t.gid = g /\ t.copy = copy
        /\ t.op = "prepare"
    BY <2>2 DEF Idle, Task, Ops, Outcomes, Good, IInv, TypeOK
  <2>4. SoundTask(t)
    BY <2>2, <2>3 DEF SoundTask, Decisions
  <2>5. task' = [task EXCEPT ![p] = t]
    BY <2>1 DEF copy
  <2> HIDE DEF t
  <2> QED
    BY <1>1, <2>4, <2>5, LocalStep DEF PrepareGuard
<1>2. ASSUME NEW ttl \in Ttls, RefusePrepare(p, ttl)
      PROVE  IInv'
  <2> DEFINE t == [Idle EXCEPT !.pc = "reply", !.op = "prepare",
                               !.out = "rejected"]
  <2>1. SoundTask(t)
    BY IdleIsSound DEF SoundTask, Idle, Task, Ops, Outcomes, Decisions
  <2> QED
    BY <1>2, <2>1, LocalStep DEF RefusePrepare
<1>5. ASSUME NEW ttl \in Ttls, OverflowPrepare(p, ttl)
      PROVE  IInv'
  <2> DEFINE t == [Idle EXCEPT !.pc = "reply", !.op = "prepare",
                               !.out = "raised"]
  <2>1. SoundTask(t)
    BY IdleIsSound DEF SoundTask, Idle, Task, Ops, Outcomes, Decisions
  <2> QED
    BY <1>5, <2>1, LocalStep DEF OverflowPrepare
<1>3. ASSUME NEW g \in Guards, NEW by \in Operators, NEW decision \in Decisions,
             Transition(p, g, by, decision)
      PROVE  IInv'
  <2> DEFINE t == [Idle EXCEPT !.pc = "load", !.op = decision, !.gid = g,
                               !.by = by, !.now = clock]
  <2>1. t \in Task /\ t.pc = "load" /\ t.gid = g /\ t.op = decision /\ t.by = by
    BY DEF Idle, Task, Ops, Outcomes, IInv, TypeOK
  <2>2. SoundTask(t)
    BY <2>1 DEF SoundTask
  <2> QED
    BY <1>3, <2>2, LocalStep DEF Transition
<1>4. ASSUME ListPending(p)
      PROVE  IInv'
  <2> DEFINE t == [Idle EXCEPT !.pc = "scan", !.op = "list", !.now = clock,
                               !.todo = {g \in Guards : disk[g] # NoFile}]
  <2>1. t \in Task /\ t.pc = "scan" /\ t.op = "list"
    BY DEF Idle, Task, Ops, IInv, TypeOK
  <2>2. SoundTask(t)
    BY <2>1 DEF SoundTask, Decisions
  <2> QED
    BY <1>4, <2>2, LocalStep DEF ListPending
<1> QED
  BY <1>1, <1>2, <1>3, <1>4, <1>5 DEF Call

LEMMA LoadStep ==
  ASSUME IInv, NEW p \in Procs,
         \/ LoadMissing(p) \/ LoadUnreadable(p) \/ LoadExpires(p)
         \/ LoadClosed(p) \/ LoadDecides(p)
  PROVE  IInv'
<1> DEFINE g == task[p].gid
           file == disk[g]
<1>1. SoundTask(task[p]) /\ task[p].now \in Time
  BY DEF IInv, TypeOK, Task
<1>2. CASE LoadMissing(p) \/ LoadUnreadable(p) \/ LoadClosed(p)
  BY <1>2, FinishLocally DEF LoadMissing, LoadUnreadable, LoadClosed, Outcomes
<1>3. CASE LoadExpires(p)
  <2>1. g \in Guards /\ Good(file) /\ file.status = "pending"
        /\ task[p].now >= file.expires
    BY <1>1, <1>3 DEF LoadExpires, At, SoundTask, Due, IsPending, IInv
  <2>2. Good(Close(file, "expired", "system", task[p].now))
    BY <1>1, <2>1, CloseIsGood DEF Terminal, Decisions
  <2> QED
    BY <1>3, <2>1, <2>2, StartSaveStep DEF LoadExpires, Outcomes
<1>4. CASE LoadDecides(p)
  <2>1. /\ g \in Guards /\ Good(file) /\ file.status = "pending"
        /\ ~(task[p].now >= file.expires)
        /\ task[p].op \in Decisions /\ task[p].by \in Operators
    BY <1>1, <1>4 DEF LoadDecides, At, SoundTask, Due, IsPending, IInv
  <2>2. task[p].now < file.expires
    BY <1>1, <2>1, ConstantsAssumption
    DEF Good, RollbackGuard, Time, ConstantsAssumption
  <2>3. Good(Close(file, task[p].op, task[p].by, task[p].now))
    BY <1>1, <2>1, <2>2, CloseIsGood DEF Terminal, Decisions
  <2> QED
    BY <1>4, <2>1, <2>3, StartSaveStep DEF LoadDecides, Outcomes
<1> QED
  BY <1>2, <1>3, <1>4

LEMMA ScanStep ==
  ASSUME IInv, NEW p \in Procs,
         \/ \E g \in Guards : ScanUnreadable(p, g) \/ ScanExpires(p, g)
                                \/ ScanKeeps(p, g) \/ ScanSkips(p, g)
         \/ ScanDone(p)
  PROVE  IInv'
<1>0. task[p] \in Task /\ task[p].pc = "scan" /\ SoundTask(task[p])
  BY DEF IInv, TypeOK, ScanUnreadable, ScanExpires, ScanKeeps, ScanSkips,
         ScanDone, Scanning, At
<1>1. CASE ScanDone(p)
  BY <1>1, FinishLocally DEF ScanDone, Outcomes
<1>2. ASSUME NEW g \in Guards, ScanUnreadable(p, g)
      PROVE  IInv'
  BY <1>2, FinishLocally DEF ScanUnreadable, Outcomes
<1>3. ASSUME NEW g \in Guards, ScanExpires(p, g)
      PROVE  IInv'
  <2> DEFINE copy == Close(disk[g], "expired", "system", task[p].now)
             t == [task[p] EXCEPT !.pc = "open", !.gid = g, !.todo = @ \ {g},
                                  !.copy = copy]
  <2>1. Good(disk[g]) /\ disk[g].status = "pending"
        /\ task[p].now >= disk[g].expires /\ task[p].now \in Time
    BY <1>0, <1>3 DEF ScanExpires, Due, IsPending, IInv, Task
  <2>2. Good(copy)
    BY <2>1, CloseIsGood DEF Terminal, Decisions
  <2> HIDE DEF copy
  <2>3. /\ t \in Task /\ t.pc = "open" /\ t.gid = g /\ t.copy = copy
        /\ t.op = task[p].op /\ t.by = task[p].by
    BY <1>0, <2>2 DEF Task, Good
  <2>4. SoundTask(t)
    BY <1>0, <2>2, <2>3 DEF SoundTask
  <2>5. task' = [task EXCEPT ![p] = t]
    BY <1>3 DEF ScanExpires, copy
  <2> HIDE DEF t
  <2> QED
    BY <1>3, <2>4, <2>5, LocalStep DEF ScanExpires
<1>4. ASSUME NEW g \in Guards, ScanKeeps(p, g)
      PROVE  IInv'
  <2> DEFINE t == [task[p] EXCEPT !.todo = @ \ {g}, !.found = @ \cup {g}]
  <2>1. /\ t \in Task /\ t.pc = "scan" /\ t.op = task[p].op
        /\ t.gid = task[p].gid /\ t.by = task[p].by
    BY <1>0, <1>4 DEF Task
  <2>2. SoundTask(t)
    BY <1>0, <2>1 DEF SoundTask
  <2> QED
    BY <1>4, <2>2, LocalStep DEF ScanKeeps
<1>5. ASSUME NEW g \in Guards, ScanSkips(p, g)
      PROVE  IInv'
  <2> DEFINE t == [task[p] EXCEPT !.todo = @ \ {g}]
  <2>1. /\ t \in Task /\ t.pc = "scan" /\ t.op = task[p].op
        /\ t.gid = task[p].gid /\ t.by = task[p].by
    BY <1>0, <1>5 DEF Task
  <2>2. SoundTask(t)
    BY <1>0, <2>1 DEF SoundTask
  <2> QED
    BY <1>5, <2>2, LocalStep DEF ScanSkips
<1> QED
  BY <1>1, <1>2, <1>3, <1>4, <1>5

LEMMA SaveStep ==
  ASSUME IInv, NEW p \in Procs, Open(p) \/ Write(p) \/ SaveFails(p)
  PROVE  IInv'
<1>0. /\ task[p] \in Task
      /\ At(p, "open") \/ At(p, "write")
      /\ task[p].gid \in Guards /\ Good(task[p].copy)
  BY DEF IInv, TypeOK, Open, Write, SaveFails, SoundTask, At
<1>1. CASE Open(p)
  <2> DEFINE t == [task[p] EXCEPT !.pc = "write"]
  <2>1. SoundTask(t)
    <3>1. /\ t \in Task /\ t.pc = "write" /\ t.op = task[p].op
          /\ t.gid = task[p].gid /\ t.by = task[p].by /\ t.copy = task[p].copy
      BY <1>0 DEF Task
    <3> QED
      BY <1>0, <3>1 DEF SoundTask, IInv
  <2>2. task' = [task EXCEPT ![p] = t]
    BY <1>1 DEF Open
  <2> HIDE DEF t
  <2>3. /\ disk' = [disk EXCEPT ![task[p].gid] = Unreadable]
        /\ UNCHANGED <<clock, acked, faults>>
    BY <1>1 DEF Open
  <2> QED
    BY <1>0, <2>1, <2>2, <2>3, DiskStep DEF IsGuard
<1>2. CASE Write(p)
  <2> DEFINE t == [task[p] EXCEPT
                     !.pc = IF task[p].op = "list" THEN "scan" ELSE "reply",
                     !.copy = None]
  <2>1. SoundTask(t)
    <3>1. /\ t \in Task /\ t.pc \in {"scan", "reply"}
          /\ t.op = task[p].op /\ t.gid = task[p].gid /\ t.by = task[p].by
      BY <1>0 DEF Task
    <3> QED
      BY <1>0, <3>1 DEF SoundTask, IInv
  <2>2. task' = [task EXCEPT ![p] = t]
    BY <1>2 DEF Write
  <2> HIDE DEF t
  <2>3. PICK file \in {task[p].copy, Unreadable} :
          disk' = [disk EXCEPT ![task[p].gid] = file]
    BY <1>2 DEF Write, AfterWrite
  <2>4. file = Unreadable \/ Good(file)
    BY <1>0, <2>3
  <2> QED
    BY <1>0, <1>2, <2>1, <2>2, <2>3, <2>4, DiskStep DEF Write
<1>3. CASE SaveFails(p)
  <2>1. task' \in [Procs -> Task] /\ \A q \in Procs : SoundTask(task'[q])
    BY <1>3, FinishStep DEF SaveFails, Outcomes
  <2>2. faults' \in 0 .. MaxFaults
    BY <1>3, ConstantsAssumption DEF SaveFails, IInv, TypeOK, ConstantsAssumption
  <2> QED
    BY <1>3, <2>1, <2>2 DEF SaveFails, IInv, TypeOK
<1> QED
  BY <1>1, <1>2, <1>3

LEMMA ReplyStep ==
  ASSUME IInv, NEW p \in Procs, Reply(p)
  PROVE  IInv'
<1>1. task' \in [Procs -> Task] /\ \A q \in Procs : SoundTask(task'[q])
  BY IdleIsSound DEF Reply, IInv, TypeOK, SoundTask
<1>2. acked' \subseteq [gid : Guards, decision : Decisions]
  BY DEF Reply, IInv, TypeOK, SoundTask
<1> QED
  BY <1>1, <1>2 DEF Reply, IInv, TypeOK

LEMMA CrashStep ==
  ASSUME IInv, NEW p \in Procs, Crash(p)
  PROVE  IInv'
<1>1. task' \in [Procs -> Task] /\ \A q \in Procs : SoundTask(task'[q])
  BY IdleIsSound DEF Crash, IInv, TypeOK, SoundTask
<1>2. faults' \in 0 .. MaxFaults
  BY ConstantsAssumption DEF Crash, IInv, TypeOK, ConstantsAssumption
<1> QED
  BY <1>1, <1>2 DEF Crash, IInv, TypeOK

LEMMA NextIInv == IInv /\ [Next]_vars => IInv'
<1> SUFFICES ASSUME IInv, [Next]_vars PROVE IInv'
  OBVIOUS
<1>1. ASSUME NEW p \in Procs, Continue(p)
      PROVE  IInv'
  BY <1>1, LoadStep, ScanStep, SaveStep, ReplyStep DEF Continue
<1>2. CASE AdvanceClock
  BY <1>2 DEF AdvanceClock, IInv, TypeOK
<1>3. CASE UNCHANGED vars
  BY <1>3 DEF vars, IInv, TypeOK
<1> QED
  BY <1>1, <1>2, <1>3, CallStep, SaveStep, CrashStep DEF Next, Fault

LEMMA InvariantIInv == Spec => []IInv
BY InitIInv, NextIInv, PTL DEF Spec

-------------------------------------------------------------------------------
(* Theorems *)

(* Every variable keeps the kind of value the code puts in it.             *)
THEOREM TypeCorrect == Spec => []TypeOK
<1>1. IInv => TypeOK
  BY DEF IInv
<1> QED
  BY <1>1, InvariantIInv, PTL

(* However many processes share the directory, whatever is interrupted,    *)
(* and however the clock moves, a guard file that can be read tells one    *)
(* coherent story (rollback_guards.py, lines 82 to 87 and 107 to 140).     *)
THEOREM AuditIsCoherent == Spec => []AuditExplainsStatus
<1>1. IInv => AuditExplainsStatus
  BY DEF IInv, AuditExplainsStatus, Good
<1> QED
  BY <1>1, InvariantIInv, PTL

(* However many processes share the directory, no decision on file was     *)
(* made after the TTL ran out, and no expiry before.                       *)
THEOREM DecisionsAreTimely == Spec => []DecisionWithinTtl
<1>1. IInv => DecisionWithinTtl
  BY DEF IInv, DecisionWithinTtl, Good
<1> QED
  BY <1>1, InvariantIInv, PTL

===============================================================================
