------------------------- MODULE GuardStoreSoleProofs -------------------------
(***************************************************************************)
(* What holds of GuardStore when one process uses the guard directory, for *)
(* every set of guards, operators, intents and TTLs and every bound: a     *)
(* closed guard stays closed, and the directory implements GuardLifecycle. *)
(***************************************************************************)
EXTENDS GuardStoreProofs

Current(file, now) == IsPending(file) /\ now < file.expires

(* Between the read and the end of the rewrite nobody touches the file, so *)
(* what the call with local variables t has read is what it replaces.      *)
SoleRewrite(t) ==
  /\ t.pc = "open" => IF t.op = "prepare" THEN disk[t.gid] = NoFile
                                          ELSE IsPending(disk[t.gid])
  /\ t.pc = "write" => disk[t.gid] = Unreadable
  /\ t.pc \in {"open", "write"} =>
       /\ t.op = "prepare" <=> t.copy.status = "pending"
       /\ t.op \in Decisions /\ t.out = "ok" => t.copy.status = t.op
       /\ t.op = "list" => t.gid \notin t.todo \cup t.found
       /\ t.op # "list" => t.out # "raised"

(* The guards a listing has looked at are in found if they are current.    *)
SoleScan(t) ==
  /\ t.pc = "scan" => t.op = "list"
  /\ t.op = "list" /\ t.pc \in {"scan", "open", "write"} =>
       /\ t.todo \cap t.found = {}
       /\ \A g \in Guards \ t.todo :
            \/ t.pc \in {"open", "write"} /\ g = t.gid
            \/ g \in t.found <=> Current(disk[g], t.now)

SoleAnswer(t) ==
  t.pc = "reply" =>
    /\ t.op \in Decisions /\ t.out = "ok" =>
         IsGuard(disk[t.gid]) /\ disk[t.gid].status = t.op
    /\ t.op \in Decisions /\ t.out = "rejected" => ~IsPending(disk[t.gid])
    /\ t.op = "list" /\ t.out = "ok" =>
         \A g \in Guards : g \in t.found <=> Current(disk[g], t.now)
    /\ t.out = "raised" => faults > 0 \/ (t.op = "prepare" /\ t.gid = None)

SoleTask(t) == SoleRewrite(t) /\ SoleScan(t) /\ SoleAnswer(t)

(* Half-written files are somebody's work in progress or a fault's.        *)
TornExplained ==
  \A g \in Guards : disk[g] = Unreadable =>
    faults > 0 \/ \E p \in Procs : At(p, "write") /\ task[p].gid = g

SoleInv ==
  /\ \A p \in Procs : SoleTask(task[p])
  /\ AckedDecisionStands
  /\ TornExplained

-------------------------------------------------------------------------------
(* Steps *)

LEMMA SoleIdle == SoleTask(Idle)
BY DEF SoleTask, SoleRewrite, SoleScan, SoleAnswer, Idle

LEMMA SoleInit == Init => SoleInv
<1> SUFFICES ASSUME Init PROVE SoleInv
  OBVIOUS
<1>1. \A p \in Procs : SoleTask(task[p])
  BY SoleIdle DEF Init
<1> QED
  BY <1>1, ConstantsAssumption
  DEF Init, SoleInv, AckedDecisionStands, TornExplained, ConstantsAssumption

(* A step that changes local variables only, and not those of a rewrite.   *)
LEMMA SoleLocalStep ==
  ASSUME SingleWriter, IInv, SoleInv, NEW p \in Procs, NEW t,
         task[p].pc # "write", SoleTask(t),
         task' = [task EXCEPT ![p] = t],
         UNCHANGED <<disk, acked, faults>>
  PROVE  SoleInv'
<1>1. task' \in [Procs -> {t}]
  BY DEF IInv, TypeOK, SingleWriter
<1>2. SoleTask(t)'
  BY DEF SoleTask, SoleRewrite, SoleScan, SoleAnswer
<1>3. AckedDecisionStands'
  BY DEF SoleInv, AckedDecisionStands
<1>4. \A q \in Procs : task[q].pc # "write"
  BY DEF SingleWriter
<1>5. TornExplained'
  BY <1>4 DEF SoleInv, TornExplained, At
<1> QED
  BY <1>1, <1>2, <1>3, <1>5 DEF SoleInv

LEMMA SoleLoad ==
  ASSUME SingleWriter, IInv, SoleInv, NEW p \in Procs,
         LoadMissing(p) \/ LoadUnreadable(p) \/ LoadClosed(p)
  PROVE  SoleInv'
<1>1. /\ task[p] \in Task /\ task[p].gid \in Guards /\ task[p].pc = "load"
      /\ task[p].op \in Decisions
  BY DEF IInv, TypeOK, SoundTask, LoadMissing, LoadUnreadable, LoadClosed, At
<1>2. PICK out \in {"rejected", "raised"} :
        /\ Finish(p, out)
        /\ out = "rejected" => ~IsPending(disk[task[p].gid])
        /\ out = "raised" => faults > 0
  BY <1>1 DEF LoadMissing, LoadUnreadable, LoadClosed, IsPending, IsGuard,
              SoleInv, TornExplained, At, SingleWriter
<1> DEFINE t == [task[p] EXCEPT !.pc = "reply", !.out = out]
<1>3. /\ t.pc = "reply" /\ t.out = out /\ t.op = task[p].op /\ t.gid = task[p].gid
  BY <1>1 DEF Task
<1>4. SoleTask(t)
  BY <1>1, <1>2, <1>3
  DEF SoleTask, SoleRewrite, SoleScan, SoleAnswer, Decisions
<1> HIDE DEF t
<1>5. UNCHANGED <<disk, acked, faults>>
  BY DEF LoadMissing, LoadUnreadable, LoadClosed
<1> QED
  BY <1>1, <1>2, <1>4, <1>5, SoleLocalStep DEF Finish, t

(* The checks of _transition leave the pending guard in hand: the call now *)
(* rewrites it, to answer out.                                             *)
LEMMA SoleStartSave ==
  ASSUME SingleWriter, IInv, SoleInv, NEW p \in Procs,
         LoadExpires(p) \/ LoadDecides(p)
  PROVE  SoleInv'
<1>1. /\ task[p] \in Task /\ task[p].gid \in Guards /\ task[p].pc = "load"
      /\ task[p].op \in Decisions /\ IsPending(disk[task[p].gid])
  BY DEF IInv, TypeOK, SoundTask, LoadExpires, LoadDecides, At, Due
<1> DEFINE file == disk[task[p].gid]
<1>2. PICK s \in Terminal, by \in Operators \cup {"system"}, out \in Outcomes :
        /\ StartSave(p, task[p].gid, Close(file, s, by, task[p].now), out)
        /\ out # "raised" /\ (out = "ok" => s = task[p].op)
  <2>1. CASE LoadExpires(p)
    BY <2>1 DEF LoadExpires, Terminal, Outcomes
  <2>2. CASE LoadDecides(p)
    BY <1>1, <2>2 DEF LoadDecides, Terminal, Outcomes, IInv, SoundTask
  <2> QED
    BY <2>1, <2>2
<1> DEFINE copy == Close(file, s, by, task[p].now)
           t == [task[p] EXCEPT !.pc = "open", !.gid = task[p].gid,
                                !.copy = copy, !.out = out]
<1>3. copy.status = s /\ s # "pending"
  <2>1. file \in RollbackGuard
    BY <1>1, GuardFile DEF IsPending, IInv
  <2> QED
    BY <2>1 DEF Close, RollbackGuard, Terminal, Decisions
<1> HIDE DEF copy
<1>4. /\ t.pc = "open" /\ t.out = out /\ t.op = task[p].op
      /\ t.gid = task[p].gid /\ t.copy = copy
  BY <1>1 DEF Task
<1>5. SoleTask(t)
  BY <1>1, <1>2, <1>3, <1>4
  DEF SoleTask, SoleRewrite, SoleScan, SoleAnswer, Decisions
<1>6. task' = [task EXCEPT ![p] = t]
  BY <1>2 DEF StartSave, copy
<1> HIDE DEF t
<1>7. UNCHANGED <<disk, acked, faults>>
  BY DEF LoadExpires, LoadDecides
<1> QED
  BY <1>1, <1>5, <1>6, <1>7, SoleLocalStep

LEMMA SoleCall ==
  ASSUME SingleWriter, IInv, SoleInv, NEW p \in Procs, Call(p)
  PROVE  SoleInv'
<1>1. ASSUME NEW intent \in Intents, NEW by \in Operators, NEW ttl \in Ttls,
             PrepareGuard(p, intent, by, ttl)
      PROVE  SoleInv'
  <2> DEFINE copy == NewGuard(intent, by, clock, ttl)
  <2>1. PICK g \in Guards :
          /\ disk[g] = NoFile
          /\ task' = [task EXCEPT ![p] =
                        [Idle EXCEPT !.pc = "open", !.op = "prepare", !.gid = g,
                                     !.by = by, !.now = clock, !.out = "ok",
                                     !.copy = copy]]
    BY <1>1 DEF PrepareGuard, Fresh
  <2> DEFINE t == [Idle EXCEPT !.pc = "open", !.op = "prepare", !.gid = g,
                               !.by = by, !.now = clock, !.out = "ok",
                               !.copy = copy]
  <2>2. copy.status = "pending"
    BY DEF NewGuard
  <2> HIDE DEF copy
  <2>3. t.pc = "open" /\ t.op = "prepare" /\ t.gid = g /\ t.copy = copy
        /\ t.out = "ok"
    BY DEF Idle
  <2>4. SoleTask(t)
    BY <2>1, <2>2, <2>3
    DEF SoleTask, SoleRewrite, SoleScan, SoleAnswer, Decisions
  <2> HIDE DEF t
  <2> QED
    BY <1>1, <2>1, <2>4, SoleLocalStep DEF PrepareGuard, At, t
<1>2. ASSUME NEW ttl \in Ttls, RefusePrepare(p, ttl)
      PROVE  SoleInv'
  <2> DEFINE t == [Idle EXCEPT !.pc = "reply", !.op = "prepare",
                               !.out = "rejected"]
  <2>1. SoleTask(t)
    BY DEF SoleTask, SoleRewrite, SoleScan, SoleAnswer, Idle, Decisions
  <2> QED
    BY <1>2, <2>1, SoleLocalStep DEF RefusePrepare, At
<1>5. ASSUME NEW ttl \in Ttls, OverflowPrepare(p, ttl)
      PROVE  SoleInv'
  <2> DEFINE t == [Idle EXCEPT !.pc = "reply", !.op = "prepare",
                               !.out = "raised"]
  <2>1. SoleTask(t)
    BY DEF SoleTask, SoleRewrite, SoleScan, SoleAnswer, Idle, Decisions
  <2> QED
    BY <1>5, <2>1, SoleLocalStep DEF OverflowPrepare, At
<1>3. ASSUME NEW g \in Guards, NEW by \in Operators, NEW decision \in Decisions,
             Transition(p, g, by, decision)
      PROVE  SoleInv'
  <2> DEFINE t == [Idle EXCEPT !.pc = "load", !.op = decision, !.gid = g,
                               !.by = by, !.now = clock]
  <2>1. SoleTask(t)
    BY DEF SoleTask, SoleRewrite, SoleScan, SoleAnswer, Idle
  <2> QED
    BY <1>3, <2>1, SoleLocalStep DEF Transition, At
<1>4. ASSUME ListPending(p)
      PROVE  SoleInv'
  <2> DEFINE t == [Idle EXCEPT !.pc = "scan", !.op = "list", !.now = clock,
                               !.todo = {g \in Guards : disk[g] # NoFile}]
  <2>1. /\ t.pc = "scan" /\ t.op = "list" /\ t.found = {}
        /\ t.todo = {g \in Guards : disk[g] # NoFile}
    BY DEF Idle
  <2>2. SoleTask(t)
    BY <2>1 DEF SoleTask, SoleRewrite, SoleScan, SoleAnswer, Current, IsPending,
                IsGuard
  <2> HIDE DEF t
  <2> QED
    BY <1>4, <2>2, SoleLocalStep DEF ListPending, At, t
<1> QED
  BY <1>1, <1>2, <1>3, <1>4, <1>5 DEF Call

LEMMA SoleScanStep ==
  ASSUME SingleWriter, IInv, SoleInv, NEW p \in Procs,
         \/ \E g \in Guards : ScanUnreadable(p, g) \/ ScanExpires(p, g)
                                \/ ScanKeeps(p, g) \/ ScanSkips(p, g)
         \/ ScanDone(p)
  PROVE  SoleInv'
<1>0. /\ task[p] \in Task /\ task[p].pc = "scan" /\ task[p].op = "list"
      /\ SoleTask(task[p]) /\ task[p].now \in Int
      /\ UNCHANGED <<disk, acked, faults>>
  <2>1. task[p].pc = "scan" /\ UNCHANGED <<disk, acked, faults>>
    BY DEF ScanUnreadable, ScanExpires, ScanKeeps, ScanSkips, ScanDone,
           Scanning, At
  <2>2. task[p] \in Task /\ SoleTask(task[p])
    BY DEF IInv, TypeOK, SoleInv
  <2>3. task[p].now \in Int
    BY <2>2, ConstantsAssumption DEF Task, Time, ConstantsAssumption
  <2> QED
    BY <2>1, <2>2, <2>3 DEF SoleTask, SoleScan
<1>1. CASE ScanDone(p)
  <2> DEFINE t == [task[p] EXCEPT !.pc = "reply", !.out = "ok"]
  <2>1. /\ t.pc = "reply" /\ t.op = "list" /\ t.out = "ok"
        /\ t.found = task[p].found /\ t.now = task[p].now /\ task[p].todo = {}
    BY <1>0, <1>1 DEF ScanDone, Task
  <2>2. SoleTask(t)
    BY <1>0, <2>1 DEF SoleTask, SoleRewrite, SoleScan, SoleAnswer, Decisions
  <2> HIDE DEF t
  <2> QED
    BY <1>0, <1>1, <2>2, SoleLocalStep DEF ScanDone, Finish, t
<1>2. ASSUME NEW g \in Guards, ScanUnreadable(p, g)
      PROVE  SoleInv'
  <2> DEFINE t == [task[p] EXCEPT !.pc = "reply", !.out = "raised"]
  <2>1. t.pc = "reply" /\ t.op = "list" /\ t.out = "raised"
    BY <1>0 DEF Task
  <2>2. faults > 0
    BY <1>0, <1>2 DEF ScanUnreadable, SoleInv, TornExplained, At, SingleWriter
  <2>3. SoleTask(t)
    BY <2>1, <2>2 DEF SoleTask, SoleRewrite, SoleScan, SoleAnswer, Decisions
  <2> HIDE DEF t
  <2> QED
    BY <1>0, <1>2, <2>3, SoleLocalStep DEF ScanUnreadable, Finish, t
<1>3. ASSUME NEW g \in Guards, ScanExpires(p, g)
      PROVE  SoleInv'
  <2> DEFINE copy == Close(disk[g], "expired", "system", task[p].now)
             t == [task[p] EXCEPT !.pc = "open", !.gid = g, !.todo = @ \ {g},
                                  !.copy = copy]
  <2>1. /\ IsPending(disk[g]) /\ g \in task[p].todo
        /\ disk[g] \in RollbackGuard
    BY <1>3, GuardFile DEF ScanExpires, Scanning, Due, IsPending, IInv
  <2>2. copy.status = "expired"
    BY <2>1 DEF Close, RollbackGuard
  <2> HIDE DEF copy
  <2>3. /\ t.pc = "open" /\ t.op = "list" /\ t.gid = g /\ t.copy = copy
        /\ t.todo = task[p].todo \ {g} /\ t.found = task[p].found
        /\ t.now = task[p].now /\ t.out = task[p].out
    BY <1>0 DEF Task
  <2>4. SoleTask(t)
    BY <1>0, <2>1, <2>2, <2>3
    DEF SoleTask, SoleRewrite, SoleScan, SoleAnswer, Decisions
  <2>5. task' = [task EXCEPT ![p] = t]
    BY <1>3 DEF ScanExpires, copy
  <2> HIDE DEF t
  <2> QED
    BY <1>0, <2>4, <2>5, SoleLocalStep
<1>4. ASSUME NEW g \in Guards, ScanKeeps(p, g)
      PROVE  SoleInv'
  <2> DEFINE t == [task[p] EXCEPT !.todo = @ \ {g}, !.found = @ \cup {g}]
  <2>1. g \in task[p].todo /\ Current(disk[g], task[p].now)
    <3>1. IsPending(disk[g]) /\ ~(task[p].now >= disk[g].expires)
      BY <1>4 DEF ScanKeeps, Due
    <3>2. disk[g] \in RollbackGuard
      BY <3>1, GuardFile DEF IsPending, IInv
    <3>3. disk[g].expires \in Int
      BY <3>2 DEF RollbackGuard
    <3>4. g \in task[p].todo
      BY <1>4 DEF ScanKeeps, Scanning
    <3>5. task[p].now < disk[g].expires
      BY <1>0, <3>1, <3>3
    <3> QED
      BY <3>1, <3>4, <3>5 DEF Current
  <2>2. /\ t.pc = "scan" /\ t.op = "list" /\ t.now = task[p].now
        /\ t.todo = task[p].todo \ {g} /\ t.found = task[p].found \cup {g}
    BY <1>0 DEF Task
  <2>3. SoleTask(t)
    BY <1>0, <2>1, <2>2 DEF SoleTask, SoleRewrite, SoleScan, SoleAnswer
  <2> HIDE DEF t
  <2> QED
    BY <1>0, <1>4, <2>3, SoleLocalStep DEF ScanKeeps, t
<1>5. ASSUME NEW g \in Guards, ScanSkips(p, g)
      PROVE  SoleInv'
  <2> DEFINE t == [task[p] EXCEPT !.todo = @ \ {g}]
  <2>1. g \in task[p].todo /\ ~Current(disk[g], task[p].now)
    BY <1>5 DEF ScanSkips, Scanning, Current, IsPending
  <2>2. /\ t.pc = "scan" /\ t.op = "list" /\ t.now = task[p].now
        /\ t.todo = task[p].todo \ {g} /\ t.found = task[p].found
    BY <1>0 DEF Task
  <2>3. SoleTask(t)
    BY <1>0, <2>1, <2>2 DEF SoleTask, SoleRewrite, SoleScan, SoleAnswer
  <2> HIDE DEF t
  <2> QED
    BY <1>0, <1>5, <2>3, SoleLocalStep DEF ScanSkips, t
<1> QED
  BY <1>1, <1>2, <1>3, <1>4, <1>5

LEMMA SoleOpen ==
  ASSUME SingleWriter, IInv, SoleInv, NEW p \in Procs, Open(p)
  PROVE  SoleInv'
<1> DEFINE g == task[p].gid
<1>0. PICK t : t = [task[p] EXCEPT !.pc = "write"]
  OBVIOUS
<1>1. /\ task[p] \in Task /\ task[p].pc = "open" /\ g \in Guards
      /\ SoleTask(task[p]) /\ SoundTask(task[p])
  BY DEF IInv, TypeOK, SoundTask, SoleInv, Open, At
<1>2. /\ disk' = [disk EXCEPT ![g] = Unreadable]
      /\ task' = [task EXCEPT ![p] = t]
      /\ UNCHANGED <<acked, faults>>
  BY <1>0 DEF Open
<1>3. /\ t.pc = "write" /\ t.op = task[p].op /\ t.gid = g /\ t.copy = task[p].copy
      /\ t.out = task[p].out /\ t.todo = task[p].todo /\ t.found = task[p].found
      /\ t.now = task[p].now
  BY <1>0, <1>1 DEF Task
<1>4. disk'[g] = Unreadable /\ \A h \in Guards \ {g} : disk'[h] = disk[h]
  BY <1>1, <1>2 DEF IInv, TypeOK
<1>5. SoleTask(t)'
  <2>1. SoleRewrite(t)'
    BY <1>1, <1>3, <1>4 DEF SoleTask, SoleRewrite
  <2>2. SoleScan(t)'
    BY <1>1, <1>3, <1>4 DEF SoleTask, SoleScan
  <2>3. SoleAnswer(t)'
    BY <1>3 DEF SoleAnswer
  <2> QED
    BY <2>1, <2>2, <2>3 DEF SoleTask
<1>6. AckedDecisionStands'
  <2>1. ~IsGuard(disk[g]) \/ disk[g].status = "pending"
    BY <1>1 DEF SoleTask, SoleRewrite, IsPending, IsGuard
  <2>2. ASSUME NEW a \in acked
        PROVE  a.gid \in Guards \ {g}
    BY <2>1, <2>2 DEF SoleInv, AckedDecisionStands, IInv, TypeOK, Decisions
  <2> QED
    BY <1>2, <1>4, <2>2 DEF SoleInv, AckedDecisionStands
<1>7. TornExplained'
  <2>1. task'[p].pc = "write" /\ task'[p].gid = g
    BY <1>2, <1>3 DEF IInv, TypeOK
  <2>2. \A q \in Procs : task[q].pc # "write"
    BY <1>1 DEF SingleWriter
  <2> QED
    BY <1>2, <1>4, <2>1, <2>2 DEF SoleInv, TornExplained, At
<1>8. \A q \in Procs : task'[q] = t
  BY <1>2 DEF SingleWriter, IInv, TypeOK
<1> QED
  BY <1>5, <1>6, <1>7, <1>8 DEF SoleInv

LEMMA SoleWrite ==
  ASSUME SingleWriter, IInv, SoleInv, NEW p \in Procs, Write(p)
  PROVE  SoleInv'
<1> DEFINE copy == task[p].copy
           g == task[p].gid
<1>0. PICK t : t = [task[p] EXCEPT
                      !.pc = IF task[p].op = "list" THEN "scan" ELSE "reply",
                      !.copy = None]
  OBVIOUS
<1>1. /\ task[p] \in Task /\ task[p].pc = "write" /\ g \in Guards
      /\ SoleTask(task[p]) /\ Good(copy) /\ disk[g] = Unreadable
  BY DEF IInv, TypeOK, SoundTask, SoleInv, Write, At, SoleTask, SoleRewrite
<1>2. /\ disk' = [disk EXCEPT ![g] = copy]
      /\ task' = [task EXCEPT ![p] = t]
      /\ UNCHANGED <<acked, faults>>
  BY <1>0, <1>1 DEF Write, AfterWrite, IsGuard
<1>3. /\ t.pc = IF task[p].op = "list" THEN "scan" ELSE "reply"
      /\ t.op = task[p].op /\ t.gid = g
      /\ t.out = task[p].out /\ t.todo = task[p].todo /\ t.found = task[p].found
      /\ t.now = task[p].now
  BY <1>0, <1>1 DEF Task
<1>4. disk'[g] = copy /\ \A h \in Guards \ {g} : disk'[h] = disk[h]
  BY <1>1, <1>2 DEF IInv, TypeOK
<1>5. IsGuard(copy)
  BY <1>1, ConstantsAssumption DEF Good, IsGuard, ConstantsAssumption
<1>6. SoleTask(t)'
  <2>1. SoleRewrite(t)'
    BY <1>3 DEF SoleRewrite
  <2>2. SoleScan(t)'
    <3>1. CASE task[p].op = "list"
      <4>1. g \notin task[p].found /\ copy.status # "pending"
        BY <1>1, <3>1 DEF SoleTask, SoleRewrite
      <4>2. t.pc = "scan" /\ t.op = "list"
        BY <1>3, <3>1
      <4>3. ASSUME NEW h \in Guards \ t.todo
            PROVE  h \in t.found <=> Current(disk'[h], t.now)
        <5>1. CASE h = g
          BY <1>3, <1>4, <4>1, <5>1 DEF Current, IsPending
        <5>2. CASE h # g
          BY <1>1, <1>3, <1>4, <3>1, <5>2 DEF SoleTask, SoleScan
        <5> QED
          BY <5>1, <5>2
      <4> QED
        BY <1>1, <1>3, <4>2, <4>3, <3>1 DEF SoleTask, SoleScan
    <3>2. CASE task[p].op # "list"
      BY <1>3, <3>2 DEF SoleScan
    <3> QED
      BY <3>1, <3>2
  <2>3. SoleAnswer(t)'
    BY <1>1, <1>3, <1>4, <1>5
    DEF SoleTask, SoleRewrite, SoleAnswer, IsPending, Decisions
  <2> QED
    BY <2>1, <2>2, <2>3 DEF SoleTask
<1>7. AckedDecisionStands'
  <2>1. ASSUME NEW a \in acked
        PROVE  a.gid \in Guards \ {g}
    BY <1>1, <2>1 DEF SoleInv, AckedDecisionStands, IsGuard, IInv, TypeOK
  <2> QED
    BY <1>2, <1>4, <2>1 DEF SoleInv, AckedDecisionStands
<1>8. TornExplained'
  <2>1. ASSUME NEW h \in Guards, disk'[h] = Unreadable
        PROVE  faults > 0
    <3>1. h # g /\ disk[h] = Unreadable
      BY <1>4, <1>5, <2>1 DEF IsGuard
    <3> QED
      BY <3>1 DEF SoleInv, TornExplained, SingleWriter
  <2> QED
    BY <1>2, <2>1 DEF TornExplained
<1>9. \A q \in Procs : task'[q] = t
  BY <1>2 DEF SingleWriter, IInv, TypeOK
<1> QED
  BY <1>6, <1>7, <1>8, <1>9 DEF SoleInv

LEMMA SoleReply ==
  ASSUME SingleWriter, IInv, SoleInv, NEW p \in Procs, Reply(p)
  PROVE  SoleInv'
<1>1. task[p].pc = "reply" /\ SoleTask(task[p])
  BY DEF Reply, At, SoleInv
<1>2. SoleTask(Idle)' /\ \A q \in Procs : task'[q] = Idle
  BY SoleIdle
  DEF Reply, SingleWriter, IInv, TypeOK, SoleTask, SoleRewrite, SoleScan,
      SoleAnswer, Idle
<1>3. AckedDecisionStands'
  BY <1>1 DEF Reply, SoleInv, AckedDecisionStands, SoleTask, SoleAnswer
<1>4. TornExplained'
  BY <1>1 DEF Reply, SoleInv, TornExplained, At, SingleWriter
<1> QED
  BY <1>2, <1>3, <1>4 DEF SoleInv

LEMMA SoleFault ==
  ASSUME SingleWriter, IInv, SoleInv, NEW p \in Procs, Fault(p)
  PROVE  SoleInv'
<1>1. faults' > 0 /\ UNCHANGED <<disk, acked>>
  BY DEF Fault, SaveFails, Crash, IInv, TypeOK
<1>2. TornExplained' /\ AckedDecisionStands'
  BY <1>1 DEF TornExplained, AckedDecisionStands, SoleInv
<1>3. CASE Crash(p)
  <2>1. SoleTask(Idle)' /\ \A q \in Procs : task'[q] = Idle
    BY <1>3 DEF Crash, SingleWriter, IInv, TypeOK, SoleTask, SoleRewrite,
                SoleScan, SoleAnswer, Idle
  <2> QED
    BY <1>2, <2>1 DEF SoleInv
<1>4. CASE SaveFails(p)
  <2>0. PICK t : t = [task[p] EXCEPT !.pc = "reply", !.out = "raised"]
    OBVIOUS
  <2>1. t.pc = "reply" /\ t.out = "raised"
    BY <2>0 DEF IInv, TypeOK, Task
  <2>2. SoleTask(t)'
    BY <1>1, <2>1 DEF SoleTask, SoleRewrite, SoleScan, SoleAnswer
  <2>3. \A q \in Procs : task'[q] = t
    BY <1>4, <2>0 DEF SaveFails, Finish, SingleWriter, IInv, TypeOK
  <2> QED
    BY <1>2, <2>2, <2>3 DEF SoleInv
<1> QED
  BY <1>3, <1>4 DEF Fault

LEMMA SoleNext ==
  ASSUME SingleWriter, IInv, SoleInv, [Next]_vars
  PROVE  SoleInv'
<1>1. ASSUME NEW p \in Procs, Continue(p)
      PROVE  SoleInv'
  BY <1>1, SoleLoad, SoleStartSave, SoleScanStep, SoleOpen, SoleWrite, SoleReply
  DEF Continue
<1>2. CASE AdvanceClock \/ UNCHANGED vars
  <2>1. UNCHANGED <<disk, task, acked, faults>>
    BY <1>2 DEF AdvanceClock, vars
  <2> QED
    BY <2>1 DEF SoleInv, SoleTask, SoleRewrite, SoleScan, SoleAnswer,
                AckedDecisionStands, TornExplained, At
<1> QED
  BY <1>1, <1>2, SoleCall, SoleFault DEF Next

LEMMA InvariantSoleInv ==
  ASSUME SingleWriter
  PROVE  Spec => []SoleInv
<1>1. IInv /\ SoleInv /\ [Next]_vars => SoleInv'
  BY SoleNext
<1> QED
  BY <1>1, SoleInit, InvariantIInv, PTL DEF Spec

-------------------------------------------------------------------------------
(* Theorems *)

(* What a caller was told about a guard stays true                         *)
(* (rollback_guards.py, lines 136 to 140).                                 *)
THEOREM DecisionsStand == SingleWriter => (Spec => []AckedDecisionStands)
<1> SUFFICES ASSUME SingleWriter PROVE Spec => []AckedDecisionStands
  OBVIOUS
<1>1. SoleInv => AckedDecisionStands
  BY DEF SoleInv
<1> QED
  BY <1>1, InvariantSoleInv, PTL

(* A refused decision leaves no pending guard behind                       *)
(* (rollback_guards.py, lines 133 to 137).                                 *)
THEOREM RefusalsClose == SingleWriter => (Spec => []RefusalMeansClosed)
<1> SUFFICES ASSUME SingleWriter PROVE Spec => []RefusalMeansClosed
  OBVIOUS
<1>1. SoleInv => RefusalMeansClosed
  BY DEF SoleInv, SoleTask, SoleAnswer, RefusalMeansClosed, At
<1> QED
  BY <1>1, InvariantSoleInv, PTL

(* The pending list is the set of pending guards within their TTL          *)
(* (rollback_guards.py, lines 151 to 164).                                 *)
THEOREM ListingsAreExact == SingleWriter => (Spec => []ListingExact)
<1> SUFFICES ASSUME SingleWriter PROVE Spec => []ListingExact
  OBVIOUS
<1>1. IInv /\ SoleInv => ListingExact
  <2> SUFFICES ASSUME IInv, SoleInv, NEW p \in Procs,
                      At(p, "reply"), task[p].op = "list", task[p].out = "ok"
               PROVE  task[p].found =
                        {g \in Guards : IsPending(disk[g])
                                        /\ task[p].now < disk[g].expires}
    BY DEF ListingExact
  <2>1. task[p].found \subseteq Guards
    BY DEF IInv, TypeOK, Task
  <2>2. \A g \in Guards : g \in task[p].found <=> Current(disk[g], task[p].now)
    BY DEF SoleInv, SoleTask, SoleAnswer, At
  <2> QED
    BY <2>1, <2>2 DEF Current
<1> QED
  BY <1>1, InvariantIInv, InvariantSoleInv, PTL

(* Without a fault every decision and every listing ends in a result, and  *)
(* a prepare raises only before it touches a file                          *)
(* (rollback_guards.py, lines 74 to 79, 107 to 118).                       *)
THEOREM RaisesFollowFaults == SingleWriter => (Spec => []RaisesOnlyAfterFault)
<1> SUFFICES ASSUME SingleWriter PROVE Spec => []RaisesOnlyAfterFault
  OBVIOUS
<1>1. SoleInv => RaisesOnlyAfterFault
  BY DEF SoleInv, SoleTask, SoleAnswer, RaisesOnlyAfterFault, At
<1> QED
  BY <1>1, InvariantSoleInv, PTL

(* Only _save writes files, and only files whose guard is not closed.      *)
LEMMA DiskChanges ==
  ASSUME SingleWriter, IInv, SoleInv, [Next]_vars, disk' # disk
  PROVE  \E p \in Procs : Open(p) \/ Write(p)
BY DEF Next, Call, Continue, Fault, PrepareGuard, RefusePrepare,
       OverflowPrepare, Transition, ListPending, LoadMissing, LoadUnreadable, LoadExpires, LoadClosed,
       LoadDecides, ScanUnreadable, ScanExpires, ScanKeeps, ScanSkips, ScanDone,
       Reply, SaveFails, Crash, AdvanceClock, vars

(* A closed guard's file never changes                                     *)
(* (rollback_guards.py, lines 65 to 71 and 136 to 140).                    *)
THEOREM TerminalStaysFinal == SingleWriter => (Spec => TerminalIsFinal)
<1> SUFFICES ASSUME SingleWriter PROVE Spec => TerminalIsFinal
  OBVIOUS
<1>1. ASSUME IInv, SoleInv, [Next]_vars, NEW g \in Guards,
             IsGuard(disk[g]), disk[g].status \in Terminal
      PROVE  disk'[g] = disk[g]
  <2>1. CASE disk' = disk
    BY <2>1
  <2>2. ASSUME NEW p \in Procs, Open(p) \/ Write(p)
        PROVE  disk'[g] = disk[g]
    <3>1. SoleTask(task[p]) /\ task[p].pc \in {"open", "write"}
          /\ disk \in [Guards -> RollbackGuard \cup {NoFile, Unreadable}]
      BY <1>1, <2>2 DEF SoleInv, Open, Write, At, IInv, TypeOK
    <3>2. g # task[p].gid
      BY <1>1, <3>1 DEF SoleTask, SoleRewrite, IsGuard, IsPending, Terminal, Decisions
    <3> QED
      BY <2>2, <3>1, <3>2 DEF Open, Write
  <2> QED
    BY <1>1, <2>1, <2>2, DiskChanges
<1>2. IInv /\ SoleInv /\ [Next]_vars =>
        [\A g \in Guards : IsGuard(disk[g]) /\ disk[g].status \in Terminal
                              => disk'[g] = disk[g]]_vars
  BY <1>1
<1> QED
  BY <1>2, InvariantIInv, InvariantSoleInv, PTL DEF Spec, TerminalIsFinal

-------------------------------------------------------------------------------
(* Refinement *)

(* The status of a guard depends on its file and on who is rewriting it.   *)
LEMMA Quiet ==
  ASSUME disk' = disk,
         \A p \in Procs : ~At(p, "write"),
         \A p \in Procs : ~At(p, "write")'
  PROVE  LifecycleStatus' = LifecycleStatus
<1>1. \A g \in Guards : Rewriting(g) = {} /\ Rewriting(g)' = {}
  BY DEF Rewriting
<1> QED
  BY <1>1 DEF LifecycleStatus

(* The steps that leave the files and the rewriting alone.                 *)
LEMMA QuietSteps ==
  ASSUME SingleWriter, IInv, NEW p \in Procs, Call(p) \/ Continue(p),
         ~Open(p), ~Write(p)
  PROVE  LifecycleStatus' = LifecycleStatus
<1>1. ~At(p, "write") /\ disk' = disk
  BY DEF Call, Continue, PrepareGuard, RefusePrepare, OverflowPrepare,
         Transition, ListPending,
         LoadMissing, LoadUnreadable, LoadExpires, LoadClosed, LoadDecides,
         ScanUnreadable, ScanExpires, ScanKeeps, ScanSkips, ScanDone, Scanning,
         Reply, At
<1>2. task'[p].pc # "write"
  <2>1. task[p] \in Task /\ task \in [Procs -> Task] /\ task[p].pc # "write"
    BY <1>1 DEF IInv, TypeOK, At
  <2>2. CASE Call(p)
    BY <2>1, <2>2
    DEF Call, PrepareGuard, RefusePrepare, OverflowPrepare, Transition,
        ListPending, Idle
  <2>3. CASE Continue(p)
    <3>1. ASSUME NEW out, Finish(p, out)
          PROVE  task'[p].pc = "reply"
      BY <2>1, <3>1 DEF Finish, Task
    <3>2. ASSUME NEW g, NEW copy, NEW out, StartSave(p, g, copy, out)
          PROVE  task'[p].pc = "open"
      BY <2>1, <3>2 DEF StartSave, Task
    <3>3. ASSUME NEW g, ScanExpires(p, g)
          PROVE  task'[p].pc = "open"
      BY <2>1, <3>3 DEF ScanExpires, Task
    <3>4. ASSUME NEW g, ScanKeeps(p, g) \/ ScanSkips(p, g)
          PROVE  task'[p].pc = task[p].pc
      BY <2>1, <3>4 DEF ScanKeeps, ScanSkips, Task
    <3>5. CASE Reply(p)
      BY <2>1, <3>5 DEF Reply, Idle
    <3>6. CASE \/ LoadMissing(p) \/ LoadUnreadable(p) \/ LoadClosed(p)
               \/ ScanDone(p) \/ \E g \in Guards : ScanUnreadable(p, g)
      BY <3>1, <3>6
      DEF LoadMissing, LoadUnreadable, LoadClosed, ScanDone, ScanUnreadable
    <3>7. CASE LoadExpires(p) \/ LoadDecides(p)
      BY <3>2, <3>7 DEF LoadExpires, LoadDecides
    <3> QED
      BY <2>1, <2>3, <3>3, <3>4, <3>5, <3>6, <3>7 DEF Continue
  <2> QED
    BY <2>2, <2>3
<1> QED
  BY <1>1, <1>2, Quiet DEF SingleWriter, At

(* Opening the file for writing changes nothing yet.                       *)
LEMMA OpenStutters ==
  ASSUME SingleWriter, IInv, SoleInv, NEW p \in Procs, Open(p)
  PROVE  LifecycleStatus' = LifecycleStatus
<1> DEFINE g == task[p].gid
<1>1. /\ task[p] \in Task /\ task[p].pc = "open" /\ g \in Guards
      /\ disk[g] = IF task[p].op = "prepare" THEN NoFile ELSE disk[g]
      /\ task[p].op # "prepare" => IsPending(disk[g])
  BY DEF IInv, TypeOK, SoundTask, SoleInv, Open, At, SoleTask, SoleRewrite
<1>2. /\ disk'[g] = Unreadable
      /\ \A h \in Guards \ {g} : disk'[h] = disk[h]
      /\ task'[p].pc = "write" /\ task'[p].gid = g /\ task'[p].op = task[p].op
  BY <1>1 DEF Open, IInv, TypeOK, Task
<1>3. \A q \in Procs : q = p
  BY DEF SingleWriter
<1>4. Rewriting(g)' = {p} /\ \A h \in Guards : Rewriting(h) = {}
      /\ (h # g => Rewriting(h)' = {})
  BY <1>1, <1>2, <1>3 DEF Rewriting, At
<1>5. ASSUME NEW h \in Guards
      PROVE  LifecycleStatus'[h] = LifecycleStatus[h]
  <2>1. CASE h # g
    BY <1>2, <1>4, <2>1 DEF LifecycleStatus
  <2>2. CASE h = g
    BY <1>1, <1>2, <1>4, <2>2, ConstantsAssumption
    DEF LifecycleStatus, ConstantsAssumption, IsPending, IsGuard
  <2> QED
    BY <2>1, <2>2
<1> QED
  BY <1>5 DEF LifecycleStatus

(* Filling the file creates the guard, or closes it.                       *)
LEMMA WriteRefines ==
  ASSUME SingleWriter, IInv, SoleInv, NEW p \in Procs, Write(p)
  PROVE  Lifecycle!Next
<1> DEFINE g == task[p].gid
           copy == task[p].copy
<1>1. /\ task[p] \in Task /\ task[p].pc = "write" /\ g \in Guards
      /\ Good(copy) /\ disk[g] = Unreadable
      /\ task[p].op = "prepare" <=> copy.status = "pending"
  BY DEF IInv, TypeOK, SoundTask, SoleInv, Write, At, SoleTask, SoleRewrite
<1>2. /\ disk'[g] = copy
      /\ \A h \in Guards \ {g} : disk'[h] = disk[h]
      /\ task'[p].pc # "write"
  BY <1>1 DEF Write, AfterWrite, IsGuard, IInv, TypeOK, Task
<1>3. \A q \in Procs : q = p
  BY DEF SingleWriter
<1>4. /\ Rewriting(g) = {p}
      /\ \A h \in Guards : Rewriting(h)' = {} /\ (h # g => Rewriting(h) = {})
  BY <1>1, <1>2, <1>3 DEF Rewriting, At
<1>5. copy # NoFile /\ copy # Unreadable /\ NoFile # Unreadable
      /\ copy.status \in {"pending"} \cup Terminal
  BY <1>1, ConstantsAssumption DEF Good, RollbackGuard, ConstantsAssumption
<1>6. \A h \in Guards \ {g} : LifecycleStatus'[h] = LifecycleStatus[h]
  BY <1>2, <1>4 DEF LifecycleStatus
<1>7. LifecycleStatus[g] = IF task[p].op = "prepare" THEN "absent" ELSE "pending"
  BY <1>1, <1>4, <1>5 DEF LifecycleStatus
<1>8. LifecycleStatus'[g] = copy.status
  BY <1>1, <1>2, <1>5 DEF LifecycleStatus
<1>9. LifecycleStatus' = [LifecycleStatus EXCEPT ![g] = copy.status]
  BY <1>1, <1>6, <1>8 DEF LifecycleStatus
<1>10. CASE task[p].op = "prepare"
  BY <1>1, <1>7, <1>9, <1>10 DEF Lifecycle!Next, Lifecycle!Create
<1>11. CASE task[p].op # "prepare"
  BY <1>1, <1>5, <1>7, <1>9, <1>11
  DEF Lifecycle!Next, Lifecycle!Close, Lifecycle!Closed, Terminal, Decisions
<1> QED
  BY <1>10, <1>11

(* A fault in the middle of a rewrite loses the guard, if it had no        *)
(* decision yet; any other fault loses nothing.                            *)
LEMMA FaultRefines ==
  ASSUME SingleWriter, IInv, SoleInv, NEW p \in Procs, Fault(p)
  PROVE  Lifecycle!Next \/ LifecycleStatus' = LifecycleStatus
<1> DEFINE g == task[p].gid
<1>1. disk' = disk /\ task'[p].pc # "write"
  <2>1. task \in [Procs -> Task] /\ task[p] \in Task
    BY DEF IInv, TypeOK
  <2>2. CASE Crash(p)
    BY <2>1, <2>2 DEF Crash, Idle
  <2>3. CASE SaveFails(p)
    <3>1. disk' = disk /\ task'[p] = [task[p] EXCEPT !.pc = "reply",
                                                    !.out = "raised"]
      BY <2>1, <2>3 DEF SaveFails, Finish
    <3>2. [task[p] EXCEPT !.pc = "reply", !.out = "raised"].pc = "reply"
      BY <2>1 DEF Task
    <3> QED
      BY <3>1, <3>2
  <2> QED
    BY <2>2, <2>3 DEF Fault
<1>2. \A q \in Procs : q = p
  BY DEF SingleWriter
<1>3. CASE task[p].pc # "write"
  BY <1>1, <1>2, <1>3, Quiet DEF At
<1>4. CASE task[p].pc = "write"
  <2>1. g \in Guards /\ disk[g] = Unreadable
    BY <1>4 DEF IInv, SoundTask, SoleInv, SoleTask, SoleRewrite
  <2>2. /\ Rewriting(g) = {p}
        /\ \A h \in Guards : Rewriting(h)' = {} /\ (h # g => Rewriting(h) = {})
    BY <1>1, <1>2, <1>4 DEF Rewriting, At
  <2>3. LifecycleStatus[g] \in {"absent", "pending"}
    BY <2>1, <2>2 DEF LifecycleStatus
  <2>4. \A h \in Guards \ {g} : LifecycleStatus'[h] = LifecycleStatus[h]
    BY <1>1, <2>2 DEF LifecycleStatus
  <2>5. LifecycleStatus'[g] = "lost"
    BY <1>1, <2>1, <2>2, ConstantsAssumption
    DEF LifecycleStatus, ConstantsAssumption
  <2>6. LifecycleStatus' = [LifecycleStatus EXCEPT ![g] = "lost"]
    BY <2>1, <2>4, <2>5 DEF LifecycleStatus
  <2> QED
    BY <2>1, <2>3, <2>6 DEF Lifecycle!Next, Lifecycle!Lose
<1> QED
  BY <1>3, <1>4

(* One process keeps the promise of GuardLifecycle.                        *)
THEOREM Refinement == SingleWriter => (Spec => ImplementsLifecycle)
<1> SUFFICES ASSUME SingleWriter PROVE Spec => ImplementsLifecycle
  OBVIOUS
<1>1. Init => Lifecycle!Init
  BY DEF Init, Lifecycle!Init, LifecycleStatus
<1>2. ASSUME IInv, SoleInv, [Next]_vars
      PROVE  [Lifecycle!Next]_LifecycleStatus
  <2>1. ASSUME NEW p \in Procs, Call(p) \/ Continue(p)
        PROVE  [Lifecycle!Next]_LifecycleStatus
    BY <1>2, <2>1, QuietSteps, OpenStutters, WriteRefines
  <2>2. CASE AdvanceClock \/ UNCHANGED vars
    BY <2>2 DEF AdvanceClock, vars, LifecycleStatus, Rewriting, At
  <2> QED
    BY <1>2, <2>1, <2>2, FaultRefines DEF Next
<1> QED
  BY <1>1, <1>2, InvariantIInv, InvariantSoleInv, PTL
  DEF Spec, ImplementsLifecycle, Lifecycle!Spec

===============================================================================
