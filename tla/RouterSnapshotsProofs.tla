------------------------- MODULE RouterSnapshotsProofs -------------------------
(***************************************************************************)
(* What holds of RouterSnapshots for every number of runs, every list of   *)
(* routers and every supply of snapshot ids.                               *)
(***************************************************************************)
EXTENDS RouterSnapshots, TLAPS

(* The order in which the files of a snapshot are written.                 *)
Rank == [raw |-> 1, normalized |-> 2, metadata |-> 3]

Making(r) == task[r].pc \in {"open", "fill", "announce", "await"}

(* The results of a run grow to one for each router, and with the last     *)
(* comes the exit code.                                                    *)
Course(r) ==
  IF At(r, "exited")
  THEN /\ Len(task[r].results) = Len(Routers)
       /\ task[r].code = ExitCode(task[r].results)
  ELSE Len(task[r].results) < Len(Routers) /\ task[r].code = None

(* While a run makes a snapshot, the id is its own, the files before the   *)
(* one it is at are complete and those after it do not exist.              *)
Progress(r) ==
  Making(r) =>
    LET t == task[r] IN
    /\ t.id \in Snapshots
    /\ origin[t.id] = <<r, Visited(r)>>
    /\ \A file \in Files :
         files[t.id][file] =
           IF t.pc \in {"announce", "await"} \/ Rank[file] < Rank[t.file]
           THEN "complete"
           ELSE IF t.pc = "fill" /\ file = t.file THEN "partial" ELSE "absent"

(* The snapshots a run has made so far are those of the routers it has     *)
(* done with, and the one it is making; a run that has died leaves one     *)
(* more behind.                                                            *)
Owned(r) ==
  \A s \in Snapshots, i \in 1 .. Len(Routers) :
    origin[s] = <<r, i>> =>
      \/ i <= Len(task[r].results)
      \/ Making(r) /\ i = Visited(r) /\ task[r].id = s
      \/ At(r, "died")

(* ReportIsExact, for as far as a run has come.                            *)
ExactSoFar(r) ==
  \A s \in Snapshots, i \in DOMAIN task[r].results :
    Stored(s) /\ origin[s] = <<r, i>> <=>
      task[r].results[i].ok /\ task[r].results[i].id = s

(* A router reported as taken has a snapshot id.                           *)
Named(r) ==
  \A i \in DOMAIN task[r].results :
    task[r].results[i].ok => task[r].results[i].id \in Snapshots

Sound(r) ==
  Course(r) /\ Progress(r) /\ Owned(r) /\ ExactSoFar(r) /\ Named(r)

(* The inductive invariant.  That reports are exact rests on two facts     *)
(* about steps still to come: a run has made nothing yet of the routers    *)
(* ahead of it, and an id without an origin has no files.                  *)
IInv ==
  /\ TypeOK
  /\ \A s \in Snapshots : origin[s] = None =>
       \A file \in Files : files[s][file] = "absent"
  /\ MetadataVouches
  /\ AnnouncedIsStored
  /\ \A r \in Runs : Sound(r)

-------------------------------------------------------------------------------
(* One run at a time *)

(* A step of run r leaves alone the task of every other run and the        *)
(* snapshots that run has an eye on: it touches the files of the snapshot  *)
(* it is making, and gives new ids an origin of its own.                   *)
Apart(r) ==
  /\ task' \in [Runs -> Task]
  /\ \A q \in Runs \ {r} : task'[q] = task[q]
  /\ \A s \in Snapshots :
       /\ \/ origin'[s] = origin[s]
          \/ origin[s] = None /\ origin'[s] = <<r, Visited(r)>>
       /\ \A file \in Files :
            files'[s][file] = files[s][file] \/ origin[s] = <<r, Visited(r)>>

(* What Sound says of a run is not disturbed by another run.               *)
LEMMA OthersSound ==
  ASSUME IInv, NEW r \in Runs, Apart(r), NEW q \in Runs, q # r
  PROVE  Sound(q)'
<1>1. Sound(q) /\ task'[q] = task[q] /\ task[q] \in Task
  BY DEF IInv, TypeOK, Apart
<1>2. /\ (Visited(q))' = Visited(q) /\ (Making(q))' = Making(q)
      /\ (At(q, "died"))' = At(q, "died")
  BY <1>1 DEF Visited, Making, At
<1>3. ASSUME NEW s \in Snapshots, NEW i \in 1 .. Len(Routers)
      PROVE  /\ origin'[s] = <<q, i>> <=> origin[s] = <<q, i>>
             /\ origin[s] = <<q, i>> =>
                  \A file \in Files : files'[s][file] = files[s][file]
  <2>1. <<q, i>> # None /\ <<q, i>> # <<r, Visited(r)>>
    BY ConstantsAssumption DEF ConstantsAssumption
  <2> QED
    BY <2>1 DEF Apart
<1>4. Course(q)'
  BY <1>1 DEF Sound, Course, At
<1>5. Len(task[q].results) \in Nat /\ Len(task[q].results) <= Len(Routers)
      /\ (Making(q) => Len(task[q].results) < Len(Routers))
      /\ Len(Routers) \in Nat
  BY <1>1, ConstantsAssumption
  DEF ConstantsAssumption, Sound, Course, At, Making, Task
<1>6. Progress(q)'
  <2> SUFFICES ASSUME Making(q)
               PROVE  Progress(q)'
    BY <1>2 DEF Progress
  <2>1. Visited(q) \in 1 .. Len(Routers)
    BY <1>5 DEF Visited
  <2>2. task[q].id \in Snapshots /\ origin[task[q].id] = <<q, Visited(q)>>
    BY <1>1 DEF Sound, Progress
  <2>3. /\ origin'[task[q].id] = <<q, Visited(q)>>
        /\ \A file \in Files : files'[task[q].id][file] = files[task[q].id][file]
    BY <1>3, <2>1, <2>2
  <2> QED
    BY <1>1, <1>2, <2>2, <2>3 DEF Sound, Progress
<1>7. Owned(q)'
  BY <1>1, <1>2, <1>3 DEF Sound, Owned
<1>8. ExactSoFar(q)'
  <2> SUFFICES ASSUME NEW s \in Snapshots, NEW i \in DOMAIN task[q].results
               PROVE  (Stored(s) /\ origin[s] = <<q, i>>)' <=>
                        Stored(s) /\ origin[s] = <<q, i>>
    BY <1>1 DEF Sound, ExactSoFar
  <2>1. i \in 1 .. Len(Routers)
    BY <1>1, <1>5 DEF Task
  <2> QED
    BY <1>3, <2>1 DEF Stored, Files
<1>9. Named(q)'
  BY <1>1 DEF Sound, Named
<1> QED
  BY <1>4, <1>6, <1>7, <1>8, <1>9 DEF Sound

(* What a step of a run has to show.                                       *)
LEMMA RunStep ==
  ASSUME IInv, NEW r \in Runs, Apart(r), Sound(r)', TypeOK',
         MetadataVouches', AnnouncedIsStored',
         \A s \in Snapshots : origin'[s] = None =>
           \A file \in Files : files'[s][file] = "absent"
  PROVE  IInv'
BY OthersSound DEF IInv

(* Most steps of a run touch neither the directory nor the origins, and    *)
(* take down no result.                                                    *)
LEMMA QuietStep ==
  ASSUME IInv, NEW r \in Runs, task' \in [Runs -> Task],
         \A q \in Runs \ {r} : task'[q] = task[q],
         task'[r].results = task[r].results, task'[r].code = None,
         task'[r].pc # "exited",
         UNCHANGED <<files, origin, known>>,
         wire' \subseteq Snapshots, AnnouncedIsStored',
         ~At(r, "exited"), Progress(r)', Owned(r)'
  PROVE  IInv'
<1>2. Apart(r)
  BY DEF Apart, IInv, TypeOK
<1>3. Sound(r)'
  <2>1. Sound(r)
    BY DEF IInv
  <2>2. Course(r)'
    BY <2>1 DEF Sound, Course, At
  <2>3. ExactSoFar(r)' /\ Named(r)'
    BY <2>1 DEF Sound, ExactSoFar, Named, Stored
  <2> QED
    BY <2>2, <2>3 DEF Sound
<1>4. TypeOK' /\ MetadataVouches'
  BY DEF IInv, TypeOK, MetadataVouches, Stored
<1> QED
  BY <1>2, <1>3, <1>4, RunStep DEF IInv

(* The router is done with: its result says whether the run has stored a   *)
(* snapshot of it, and which.                                              *)
LEMMA ReturnStep ==
  ASSUME IInv, NEW r \in Runs, NEW result \in Result, Return(r, result),
         task[r].pc \in {"fetch", "fill", "await"}, UNCHANGED origin,
         \A s \in Snapshots : origin[s] = <<r, Visited(r)>> =>
           (Stored(s)' <=> result.ok /\ result.id = s),
         result.ok => /\ result.id \in Snapshots
                      /\ origin[result.id] = <<r, Visited(r)>>,
         \A s \in Snapshots, file \in Files :
           files'[s][file] = files[s][file] \/ origin[s] = <<r, Visited(r)>>
  PROVE  Apart(r) /\ Sound(r)'
<1> DEFINE results == Append(task[r].results, result)
           last == Len(results) = Len(Routers)
           t == [task[r] EXCEPT !.pc = IF last THEN "exited" ELSE "fetch",
                                !.id = None, !.file = "raw",
                                !.results = results,
                                !.code = IF last THEN ExitCode(results)
                                         ELSE None]
<1>1. /\ task[r] \in Task /\ Sound(r) /\ ~At(r, "exited") /\ ~At(r, "died")
      /\ task[r].results \in Seq(Result) /\ Len(task[r].results) \in Nat
      /\ Len(task[r].results) < Len(Routers)
  BY DEF IInv, TypeOK, Task, Sound, Course, At
<1>2. /\ results \in Seq(Result) /\ Len(results) = Visited(r)
      /\ Len(results) = Len(task[r].results) + 1
      /\ \A i \in DOMAIN task[r].results : results[i] = task[r].results[i]
      /\ results[Visited(r)] = result
      /\ DOMAIN results = DOMAIN task[r].results \cup {Visited(r)}
      /\ DOMAIN task[r].results = 1 .. Len(task[r].results)
  <2> DEFINE before == task[r].results
  <2>1. before \in Seq(Result) /\ Len(before) \in Nat
    BY <1>1
  <2>2. Visited(r) = Len(before) + 1 /\ results = Append(before, result)
    BY DEF Visited
  <2> HIDE DEF before, results
  <2>3. results \in Seq(Result) /\ Len(results) = Len(before) + 1
    BY <2>1, <2>2
  <2>4. \A i \in 1 .. Len(before) : results[i] = before[i]
    BY <2>1, <2>2
  <2>5. results[Visited(r)] = result
    BY <2>1, <2>2
  <2>6. DOMAIN before = 1 .. Len(before) /\ DOMAIN results = 1 .. Len(results)
    BY <2>1, <2>3
  <2>7. DOMAIN results = DOMAIN before \cup {Visited(r)}
    BY <2>1, <2>2, <2>3, <2>6
  <2> QED
    BY <2>2, <2>3, <2>4, <2>5, <2>6, <2>7 DEF before
<1>3. /\ t.pc = IF last THEN "exited" ELSE "fetch"
      /\ t.results = results /\ t.code = IF last THEN ExitCode(results) ELSE None
      /\ t \in Task
  <2>1. ExitCode(results) \in {0, 1}
    BY DEF ExitCode
  <2> QED
    BY <1>1, <1>2, <2>1 DEF Task, Files
<1>4. task' = [task EXCEPT ![r] = t]
  BY DEF Return
<1> HIDE DEF t, results, last
<1>5. task'[r] = t /\ task' \in [Runs -> Task]
  BY <1>3, <1>4 DEF IInv, TypeOK
<1>6. Apart(r)
  BY <1>4, <1>5 DEF Apart, IInv, TypeOK
<1>7. Course(r)'
  <2>1. Len(Routers) \in Nat
    BY ConstantsAssumption DEF ConstantsAssumption
  <2>2. CASE last
    <3>1. task'[r].pc = "exited" /\ task'[r].results = results
          /\ task'[r].code = ExitCode(results)
      BY <1>3, <1>5, <2>2
    <3>2. Len(results) = Len(Routers)
      BY <2>2 DEF last
    <3> QED
      BY <3>1, <3>2 DEF Course, At, ExitCode
  <2>3. CASE ~last
    <3>1. task'[r].pc = "fetch" /\ task'[r].results = results
          /\ task'[r].code = None
      BY <1>3, <1>5, <2>3
    <3>2. Len(results) < Len(Routers)
      BY <1>1, <1>2, <2>1, <2>3 DEF last
    <3> QED
      BY <3>1, <3>2 DEF Course, At
  <2> QED
    BY <2>2, <2>3
<1>8. Progress(r)' /\ ~Making(r)'
  BY <1>3, <1>5 DEF Progress, Making
<1>9. Owned(r)'
  <2> SUFFICES ASSUME NEW s \in Snapshots, NEW i \in 1 .. Len(Routers),
                      origin[s] = <<r, i>>
               PROVE  i <= Len(results)
    BY <1>3, <1>5 DEF Owned
  <2>1. i <= Len(task[r].results) \/ i = Visited(r)
    BY <1>1 DEF Sound, Owned
  <2> QED
    BY <1>1, <1>2, <2>1
<1>10. ASSUME NEW s \in Snapshots, NEW i \in DOMAIN results
       PROVE  Stored(s)' /\ origin[s] = <<r, i>> <=>
                results[i].ok /\ results[i].id = s
  <2>1. CASE i = Visited(r)
    BY <1>2, <2>1
  <2>2. CASE i \in DOMAIN task[r].results
    <3>1. i # Visited(r) /\ <<r, i>> # <<r, Visited(r)>>
      BY <1>1, <1>2, <2>2
    <3>2. Stored(s) /\ origin[s] = <<r, i>> <=>
            results[i].ok /\ results[i].id = s
      BY <1>1, <1>2, <2>2 DEF Sound, ExactSoFar
    <3>3. origin[s] = <<r, i>> => (Stored(s)' <=> Stored(s))
      BY <3>1 DEF Stored, Files
    <3> QED
      BY <3>2, <3>3
  <2> QED
    BY <1>2, <2>1, <2>2
<1>11. ExactSoFar(r)'
  BY <1>3, <1>5, <1>10 DEF ExactSoFar
<1>12. Named(r)'
  <2>1. \A i \in DOMAIN results :
          results[i].ok => results[i].id \in Snapshots
    BY <1>1, <1>2 DEF Sound, Named
  <2> QED
    BY <1>3, <1>5, <2>1 DEF Named
<1> QED
  BY <1>6, <1>7, <1>8, <1>9, <1>11, <1>12 DEF Sound

-------------------------------------------------------------------------------
(* Steps *)

(* A run begins, with or without an ingest service to tell.                *)
LEMMA StartStep ==
  ASSUME IInv, NEW r \in Runs, Start(r)
  PROVE  IInv'
<1>1. PICK ingest \in BOOLEAN :
        task' = [task EXCEPT ![r].pc = "fetch", ![r].ingest = ingest]
  BY DEF Start
<1>2. task \in [Runs -> Task] /\ task[r] \in Task /\ Sound(r)
      /\ At(r, "idle")
  BY DEF IInv, TypeOK, Start
<1>3. /\ task' \in [Runs -> Task]
      /\ \A q \in Runs \ {r} : task'[q] = task[q]
      /\ task'[r].results = task[r].results /\ task'[r].code = task[r].code
      /\ task'[r].pc = "fetch"
  BY <1>1, <1>2 DEF Task
<1>4. ~At(r, "exited") /\ task[r].code = None
  BY <1>2 DEF At, Sound, Course
<1>5. Progress(r)'
  BY <1>3 DEF Progress, Making
<1>6. Owned(r)'
  <2>1. ~Making(r) /\ ~At(r, "died") /\ Owned(r)
    BY <1>2 DEF Making, At, Sound
  <2> QED
    BY <1>3, <2>1 DEF Owned, Start
<1> QED
  BY <1>3, <1>4, <1>5, <1>6, QuietStep
  DEF Start, IInv, TypeOK, AnnouncedIsStored, Stored

(* A run dies and leaves behind what it has written.                       *)
LEMMA DieStep ==
  ASSUME IInv, NEW r \in Runs, Die(r)
  PROVE  IInv'
<1>1. task \in [Runs -> Task] /\ task[r] \in Task /\ Sound(r)
      /\ task' = [task EXCEPT ![r].pc = "died"]
  BY DEF IInv, TypeOK, Die
<1>2. /\ task' \in [Runs -> Task]
      /\ \A q \in Runs \ {r} : task'[q] = task[q]
      /\ task'[r].results = task[r].results /\ task'[r].code = task[r].code
      /\ task'[r].pc = "died"
  BY <1>1 DEF Task
<1>3. ~At(r, "exited") /\ task[r].code = None
  BY <1>1 DEF Die, At, Sound, Course
<1>4. Progress(r)' /\ Owned(r)'
  BY <1>2 DEF Progress, Making, Owned, At
<1> QED
  BY <1>2, <1>3, <1>4, QuietStep DEF Die, IInv, TypeOK, AnnouncedIsStored, Stored

(* A run that has not exited visits a router it has no result for yet.     *)
LEMMA RouterLeft ==
  ASSUME IInv, NEW r \in Runs, ~At(r, "exited")
  PROVE  /\ Visited(r) \in 1 .. Len(Routers)
         /\ \A i \in DOMAIN task[r].results : i # Visited(r)
         /\ task[r].results \in Seq(Result)
<1>1. task[r] \in Task /\ Len(task[r].results) < Len(Routers)
  BY DEF IInv, TypeOK, Sound, Course
<1>2. task[r].results \in Seq(Result) /\ Len(Routers) \in Nat
  BY <1>1, ConstantsAssumption DEF ConstantsAssumption, Task
<1> QED
  BY <1>1, <1>2 DEF Visited

(* Nothing has been made of a router whose table is still being fetched.   *)
LEMMA NothingYet ==
  ASSUME IInv, NEW r \in Runs, At(r, "fetch"), NEW s \in Snapshots
  PROVE  origin[s] # <<r, Visited(r)>>
<1>1. Visited(r) \in 1 .. Len(Routers) /\ task[r].results \in Seq(Result)
  BY RouterLeft DEF At
<1>2. ~(Visited(r) <= Len(task[r].results))
  BY <1>1 DEF Visited
<1> QED
  BY <1>1, <1>2 DEF IInv, Sound, Owned, Making, At

(* The router failed, and nothing was made of it.                          *)
LEMMA FetchFailsStep ==
  ASSUME IInv, NEW r \in Runs, FetchFails(r)
  PROVE  IInv'
<1> DEFINE result == [ok |-> FALSE, id |-> None, ingest_error |-> FALSE]
<1>1. result \in Result /\ ~result.ok
  BY DEF Result
<1>2. Return(r, result) /\ At(r, "fetch")
      /\ UNCHANGED <<files, origin, wire, known>>
  BY DEF FetchFails
<1>3. \A s \in Snapshots : origin[s] # <<r, Visited(r)>>
  BY <1>2, NothingYet
<1> HIDE DEF result
<1>4. Apart(r) /\ Sound(r)'
  BY <1>1, <1>2, <1>3, ReturnStep DEF At
<1> QED
  BY <1>2, <1>4, RunStep
  DEF IInv, TypeOK, Apart, MetadataVouches, AnnouncedIsStored, Stored

(* A new id is given to the run and the router.                            *)
LEMMA FetchStep ==
  ASSUME IInv, NEW r \in Runs, Fetch(r)
  PROVE  IInv'
<1>1. PICK s \in SnapshotId(r) :
        /\ origin' = [origin EXCEPT ![s] = <<r, Visited(r)>>]
        /\ task' = [task EXCEPT ![r].pc = "open", ![r].id = s,
                                ![r].file = "raw"]
  BY DEF Fetch
<1>2. At(r, "fetch") /\ UNCHANGED <<files, wire, known>>
  BY DEF Fetch
<1>3. s \in Snapshots /\ origin[s] = None
  BY DEF SnapshotId
<1>4. task \in [Runs -> Task] /\ task[r] \in Task /\ Sound(r)
  BY DEF IInv, TypeOK
<1>5. /\ task' \in [Runs -> Task]
      /\ \A q \in Runs \ {r} : task'[q] = task[q]
      /\ task'[r].results = task[r].results /\ task'[r].code = task[r].code
      /\ task'[r].pc = "open" /\ task'[r].id = s /\ task'[r].file = "raw"
  BY <1>1, <1>3, <1>4 DEF Task, Files
<1>6. /\ Visited(r) \in 1 .. Len(Routers) /\ Visited(r)' = Visited(r)
      /\ \A i \in DOMAIN task[r].results : i # Visited(r)
  BY <1>2, <1>5, RouterLeft DEF At, Visited
<1>7. origin'[s] = <<r, Visited(r)>>
      /\ \A x \in Snapshots \ {s} : origin'[x] = origin[x]
  BY <1>1, <1>3 DEF IInv, TypeOK
<1>8. Apart(r)
  BY <1>2, <1>3, <1>5, <1>7 DEF Apart
<1>9. TypeOK'
  <2>1. origin' \in [Snapshots -> (Runs \X (1 .. Len(Routers))) \cup {None}]
    BY <1>1, <1>6 DEF IInv, TypeOK
  <2> QED
    BY <1>2, <1>5, <2>1 DEF IInv, TypeOK
<1>10. Course(r)'
  BY <1>2, <1>4, <1>5 DEF Sound, Course, At
<1>11. Progress(r)'
  <2>1. \A file \in Files : files'[s][file] = "absent"
    BY <1>2, <1>3 DEF IInv
  <2>2. \A file \in Files : ~(Rank[file] < Rank["raw"])
    BY DEF Files, Rank
  <2> QED
    BY <1>3, <1>5, <1>6, <1>7, <2>1, <2>2 DEF Progress
<1>12. Owned(r)'
  BY <1>2, <1>4, <1>5, <1>6, <1>7 DEF Sound, Owned, Making, At
<1>13. ExactSoFar(r)'
  <2> SUFFICES ASSUME NEW x \in Snapshots, NEW i \in DOMAIN task[r].results
               PROVE  Stored(x) /\ origin'[x] = <<r, i>> <=>
                        task[r].results[i].ok /\ task[r].results[i].id = x
    BY <1>2, <1>5 DEF ExactSoFar, Stored
  <2>1. Stored(x) /\ origin[x] = <<r, i>> <=>
          task[r].results[i].ok /\ task[r].results[i].id = x
    BY <1>4 DEF Sound, ExactSoFar
  <2>2. CASE x = s
    <3>1. i # Visited(r) /\ i \in 1 .. Len(Routers)
      BY <1>2, <1>4, <1>6 DEF Sound, Course, At, Task
    <3>2. <<r, i>> # None
      BY <3>1, ConstantsAssumption DEF ConstantsAssumption
    <3>3. <<r, i>> # <<r, Visited(r)>>
      BY <3>1
    <3> QED
      BY <1>3, <1>7, <2>1, <2>2, <3>2, <3>3
  <2>3. CASE x # s
    BY <1>7, <2>1, <2>3
  <2> QED
    BY <2>2, <2>3
<1>14. Named(r)'
  BY <1>4, <1>5 DEF Sound, Named
<1>15. \A x \in Snapshots : origin'[x] = None =>
         \A file \in Files : files'[x][file] = "absent"
  <2>1. origin'[s] # None
    BY <1>6, <1>7, ConstantsAssumption DEF ConstantsAssumption
  <2> QED
    BY <1>2, <1>7, <2>1 DEF IInv
<1>16. MetadataVouches' /\ AnnouncedIsStored'
  BY <1>2 DEF IInv, MetadataVouches, AnnouncedIsStored, Stored
<1>17. Sound(r)'
  BY <1>10, <1>11, <1>12, <1>13, <1>14 DEF Sound
<1> QED
  BY <1>8, <1>9, <1>15, <1>16, <1>17, RunStep

(* A run writes to the file it is at, of the snapshot it is making.        *)
Writing(r, state) ==
  /\ \/ At(r, "open") /\ state = "partial"
     \/ At(r, "fill") /\ state = "complete"
  /\ files' = [files EXCEPT ![task[r].id][task[r].file] = state]
  /\ UNCHANGED <<origin, wire, known>>

(* Where a run writes, and in which state the other files are.             *)
LEMMA WritingStep ==
  ASSUME IInv, NEW r \in Runs, NEW state, Writing(r, state)
  PROVE  LET t == task[r] IN
         /\ t.id \in Snapshots /\ origin[t.id] = <<r, Visited(r)>>
         /\ t.file \in Files /\ state \in FileStates
         /\ files' \in [Snapshots -> [Files -> FileStates]]
         /\ \A s \in Snapshots, file \in Files :
              files'[s][file] = IF s = t.id /\ file = t.file THEN state
                                ELSE files[s][file]
         /\ \A file \in Files :
              /\ Rank[file] < Rank[t.file] => files[t.id][file] = "complete"
              /\ Rank[file] > Rank[t.file] => files[t.id][file] = "absent"
         /\ files[t.id][t.file] # "complete"
<1>1. task[r] \in Task /\ Sound(r) /\ Making(r)
      /\ files \in [Snapshots -> [Files -> FileStates]]
  BY DEF IInv, TypeOK, Writing, Making, At
<1>2. /\ task[r].id \in Snapshots /\ origin[task[r].id] = <<r, Visited(r)>>
      /\ task[r].file \in Files /\ task[r].pc \in {"open", "fill"}
      /\ state \in FileStates
  BY <1>1 DEF Sound, Progress, Task, Writing, FileStates, At
<1>3. \A file \in Files :
        files[task[r].id][file] =
          IF Rank[file] < Rank[task[r].file] THEN "complete"
          ELSE IF task[r].pc = "fill" /\ file = task[r].file THEN "partial"
          ELSE "absent"
  BY <1>1, <1>2 DEF Sound, Progress
<1>4. \A file \in Files : Rank[file] \in Nat
  BY DEF Rank, Files
<1>5. files' \in [Snapshots -> [Files -> FileStates]]
  BY <1>1, <1>2 DEF Writing
<1>6. \A s \in Snapshots, file \in Files :
        files'[s][file] = IF s = task[r].id /\ file = task[r].file THEN state
                          ELSE files[s][file]
  BY <1>1, <1>2 DEF Writing
<1>7. \A file \in Files :
        /\ Rank[file] < Rank[task[r].file] =>
             files[task[r].id][file] = "complete"
        /\ Rank[file] > Rank[task[r].file] =>
             files[task[r].id][file] = "absent"
  BY <1>2, <1>3, <1>4
<1>8. files[task[r].id][task[r].file] # "complete"
  BY <1>2, <1>3, <1>4
<1> QED
  BY <1>2, <1>5, <1>6, <1>7, <1>8

(* Nothing that was complete is opened again.                              *)
LEMMA WritingKeepsComplete ==
  ASSUME IInv, NEW r \in Runs, NEW state, Writing(r, state),
         NEW s \in Snapshots, NEW file \in Files,
         files[s][file] = "complete"
  PROVE  files'[s][file] = "complete"
BY WritingStep

(* The metadata come last, so what is said of whole snapshots stays true.  *)
LEMMA WritingVouches ==
  ASSUME IInv, NEW r \in Runs, NEW state, Writing(r, state)
  PROVE  /\ MetadataVouches'
         /\ AnnouncedIsStored'
         /\ \A s \in Snapshots : origin'[s] = None =>
              \A file \in Files : files'[s][file] = "absent"
<1> DEFINE t == task[r]
<1>1. /\ t.id \in Snapshots /\ t.file \in Files /\ state \in FileStates
      /\ \A s \in Snapshots, file \in Files :
           files'[s][file] = IF s = t.id /\ file = t.file THEN state
                             ELSE files[s][file]
      /\ \A file \in Files :
           /\ Rank[file] < Rank[t.file] => files[t.id][file] = "complete"
           /\ Rank[file] > Rank[t.file] => files[t.id][file] = "absent"
  BY WritingStep
<1>2. {"raw", "normalized", "metadata"} \subseteq Files
  BY DEF Files
<1>3. ASSUME NEW s \in Snapshots, Stored(s)'
      PROVE  files'[s]["raw"] = "complete" /\ files'[s]["normalized"] = "complete"
  <2>1. CASE s # t.id
    <3>1. Stored(s)
      BY <1>1, <1>2, <1>3, <2>1 DEF Stored
    <3> QED
      BY <1>1, <1>2, <2>1, <3>1 DEF IInv, MetadataVouches
  <2>2. CASE s = t.id
    <3>1. t.file = "metadata"
      <4> SUFFICES ASSUME t.file # "metadata"
                   PROVE  FALSE
        OBVIOUS
      <4>1. Rank["metadata"] > Rank[t.file]
        BY <1>1 DEF Files, Rank
      <4> QED
        BY <1>1, <1>2, <1>3, <2>2, <4>1 DEF Stored
    <3>2. Rank["raw"] < Rank[t.file] /\ Rank["normalized"] < Rank[t.file]
      BY <3>1 DEF Rank
    <3> QED
      BY <1>1, <1>2, <2>2, <3>1, <3>2
  <2> QED
    BY <2>1, <2>2
<1>4. MetadataVouches'
  BY <1>3 DEF MetadataVouches
<1>5. AnnouncedIsStored'
  <2>1. \A s \in wire' \cup known' : s \in Snapshots /\ Stored(s)
    BY DEF Writing, IInv, TypeOK, AnnouncedIsStored
  <2> QED
    BY <1>2, <2>1, WritingKeepsComplete DEF AnnouncedIsStored, Stored
<1>6. ASSUME NEW s \in Snapshots, origin'[s] = None
      PROVE  \A file \in Files : files'[s][file] = "absent"
  <2>1. origin[s] = None /\ \A file \in Files : files[s][file] = "absent"
    BY <1>6 DEF Writing, IInv
  <2>2. ~At(r, "exited")
    BY DEF Writing, At
  <2>3. origin[t.id] = <<r, Visited(r)>> /\ Visited(r) \in 1 .. Len(Routers)
    BY <2>2, WritingStep, RouterLeft
  <2>4. s # t.id
    <3>1. <<r, Visited(r)>> # None
      BY <2>3, ConstantsAssumption DEF ConstantsAssumption
    <3> QED
      BY <2>1, <2>3, <3>1
  <2> QED
    BY <1>1, <2>1, <2>4
<1> QED
  BY <1>4, <1>5, <1>6

(* The run goes on with the same snapshot.                                 *)
LEMMA OnwardStep ==
  ASSUME IInv, NEW r \in Runs, NEW state, Writing(r, state),
         task' \in [Runs -> Task], \A q \in Runs \ {r} : task'[q] = task[q],
         task'[r].results = task[r].results, task'[r].code = task[r].code,
         task'[r].id = task[r].id, Making(r)', Progress(r)'
  PROVE  IInv'
<1>1. /\ task[r].id \in Snapshots /\ origin[task[r].id] = <<r, Visited(r)>>
      /\ \A s \in Snapshots, file \in Files :
           files'[s][file] = IF s = task[r].id /\ file = task[r].file THEN state
                             ELSE files[s][file]
      /\ files' \in [Snapshots -> [Files -> FileStates]]
  BY WritingStep
<1>2. UNCHANGED <<origin, wire, known>> /\ Making(r)
      /\ ~At(r, "exited") /\ ~At(r, "exited")' /\ ~At(r, "died")
  BY DEF Writing, Making, At
<1>3. Apart(r)
  BY <1>1, <1>2 DEF Apart
<1>4. Sound(r)
  BY DEF IInv
<1>5. Course(r)'
  BY <1>2, <1>4 DEF Sound, Course, At
<1>6. Owned(r)'
  BY <1>2, <1>4 DEF Sound, Owned, Visited
<1>7. ExactSoFar(r)'
  <2> SUFFICES ASSUME NEW s \in Snapshots, NEW i \in DOMAIN task[r].results
               PROVE  (Stored(s)' /\ origin[s] = <<r, i>>) <=>
                        Stored(s) /\ origin[s] = <<r, i>>
    BY <1>2, <1>4 DEF Sound, ExactSoFar
  <2>1. <<r, i>> # <<r, Visited(r)>>
    BY <1>2, RouterLeft
  <2> QED
    BY <1>1, <2>1 DEF Stored, Files
<1>8. Named(r)'
  BY <1>4 DEF Sound, Named
<1>9. TypeOK'
  BY <1>1, <1>2 DEF IInv, TypeOK
<1>10. Sound(r)'
  BY <1>5, <1>6, <1>7, <1>8 DEF Sound
<1> QED
  BY <1>3, <1>9, <1>10, WritingVouches, RunStep

(* A file is created or truncated.                                         *)
LEMMA OpenStep ==
  ASSUME IInv, NEW r \in Runs, Open(r)
  PROVE  IInv'
<1>1. Writing(r, "partial") /\ task' = [task EXCEPT ![r].pc = "fill"]
  BY DEF Open, Writing
<1>2. task \in [Runs -> Task] /\ task[r] \in Task /\ At(r, "open")
  BY DEF IInv, TypeOK, Open
<1>3. /\ task' \in [Runs -> Task]
      /\ \A q \in Runs \ {r} : task'[q] = task[q]
      /\ task'[r].results = task[r].results /\ task'[r].code = task[r].code
      /\ task'[r].id = task[r].id /\ task'[r].file = task[r].file
      /\ task'[r].pc = "fill"
  BY <1>1, <1>2 DEF Task
<1>4. Making(r)'
  BY <1>3 DEF Making
<1>5. Progress(r)'
  <2>1. /\ task[r].id \in Snapshots /\ task[r].file \in Files
        /\ origin[task[r].id] = <<r, Visited(r)>>
        /\ \A file \in Files :
             files'[task[r].id][file] = IF file = task[r].file THEN "partial"
                                        ELSE files[task[r].id][file]
    <3>1. /\ task[r].id \in Snapshots /\ task[r].file \in Files
          /\ origin[task[r].id] = <<r, Visited(r)>>
          /\ \A s \in Snapshots, file \in Files :
               files'[s][file] =
                 IF s = task[r].id /\ file = task[r].file THEN "partial"
                 ELSE files[s][file]
      BY <1>1, WritingStep
    <3> QED
      BY <3>1
  <2>2. \A file \in Files :
          files[task[r].id][file] =
            IF Rank[file] < Rank[task[r].file] THEN "complete" ELSE "absent"
    BY <1>2 DEF IInv, Sound, Progress, Making, At
  <2>3. Rank[task[r].file] \in Nat
    BY <2>1 DEF Rank, Files
  <2> QED
    BY <1>1, <1>3, <2>1, <2>2, <2>3 DEF Progress, Visited, Writing
<1> QED
  BY <1>1, <1>3, <1>4, <1>5, OnwardStep

(* A run makes one snapshot of each router.                                *)
LEMMA OnlyOne ==
  ASSUME IInv, NEW r \in Runs, Making(r), NEW s \in Snapshots,
         origin[s] = <<r, Visited(r)>>
  PROVE  s = task[r].id
<1>1. Visited(r) \in 1 .. Len(Routers) /\ task[r].results \in Seq(Result)
      /\ ~At(r, "died")
  BY RouterLeft DEF Making, At
<1>2. ~(Visited(r) <= Len(task[r].results))
  BY <1>1 DEF Visited
<1> QED
  BY <1>1, <1>2 DEF IInv, Sound, Owned

(* The snapshot is made, whatever the ingest service has heard of it.      *)
LEMMA MadeStep ==
  ASSUME IInv, NEW r \in Runs, Making(r), task[r].pc \in {"fill", "await"},
         NEW id, id = task[r].id, NEW ingest_error \in BOOLEAN,
         Return(r, [ok |-> TRUE, id |-> id, ingest_error |-> ingest_error]),
         UNCHANGED origin, Stored(id)',
         \A s \in Snapshots \ {id}, file \in Files :
           files'[s][file] = files[s][file]
  PROVE  Apart(r) /\ Sound(r)'
<1>1. id \in Snapshots /\ origin[id] = <<r, Visited(r)>>
  BY DEF IInv, Sound, Progress
<1>2. PICK result :
        result = [ok |-> TRUE, id |-> id, ingest_error |-> ingest_error]
  OBVIOUS
<1>3. result \in Result /\ result.ok /\ result.id = id
  BY <1>1, <1>2 DEF Result
<1>4. Return(r, result)
  BY <1>2
<1>5. \A s \in Snapshots : origin[s] = <<r, Visited(r)>> =>
        (Stored(s)' <=> result.ok /\ result.id = s)
  <2> SUFFICES ASSUME NEW s \in Snapshots, origin[s] = <<r, Visited(r)>>
               PROVE  Stored(s)' /\ result.id = s
    BY <1>3
  <2>1. s = id
    BY OnlyOne
  <2> QED
    BY <1>3, <2>1 DEF Stored
<1>6. result.ok => /\ result.id \in Snapshots
                   /\ origin[result.id] = <<r, Visited(r)>>
  BY <1>1, <1>3
<1>7. \A s \in Snapshots, file \in Files :
        files'[s][file] = files[s][file] \/ origin[s] = <<r, Visited(r)>>
  BY <1>1
<1> QED
  BY <1>3, <1>4, <1>5, <1>6, <1>7, ReturnStep

(* A file is completed: the next one is opened, the ingest service is      *)
(* told, or the router is done with.                                       *)
LEMMA FillStep ==
  ASSUME IInv, NEW r \in Runs, Fill(r)
  PROVE  IInv'
<1>1. Writing(r, "complete") /\ At(r, "fill") /\ Making(r)
  BY DEF Fill, Writing, At, Making
<1>2. task \in [Runs -> Task] /\ task[r] \in Task
  BY DEF IInv, TypeOK
<1>3. /\ task[r].id \in Snapshots /\ task[r].file \in Files
      /\ origin[task[r].id] = <<r, Visited(r)>>
      /\ files' \in [Snapshots -> [Files -> FileStates]]
      /\ \A s \in Snapshots, file \in Files :
           files'[s][file] =
             IF s = task[r].id /\ file = task[r].file THEN "complete"
             ELSE files[s][file]
      /\ \A file \in Files :
           /\ Rank[file] < Rank[task[r].file] =>
                files[task[r].id][file] = "complete"
           /\ Rank[file] > Rank[task[r].file] =>
                files[task[r].id][file] = "absent"
  <2>1. Writing(r, "complete")
    BY <1>1
  <2>2. /\ task[r].id \in Snapshots /\ task[r].file \in Files
        /\ origin[task[r].id] = <<r, Visited(r)>>
        /\ files' \in [Snapshots -> [Files -> FileStates]]
    BY <2>1, WritingStep
  <2>3. \A s \in Snapshots, file \in Files :
          files'[s][file] =
            IF s = task[r].id /\ file = task[r].file THEN "complete"
            ELSE files[s][file]
    BY <2>1, WritingStep
  <2>4. \A file \in Files :
          /\ Rank[file] < Rank[task[r].file] =>
               files[task[r].id][file] = "complete"
          /\ Rank[file] > Rank[task[r].file] =>
               files[task[r].id][file] = "absent"
    BY <2>1, WritingStep
  <2> QED
    BY <2>2, <2>3, <2>4
<1>4. CASE Following(task[r].file) # None
  <2>1. PICK next : next = Following(task[r].file)
    OBVIOUS
  <2>2. \/ task[r].file = "raw" /\ next = "normalized"
        \/ task[r].file = "normalized" /\ next = "metadata"
    BY <1>3, <1>4, <2>1 DEF Following, Files
  <2>3. task' = [task EXCEPT ![r].pc = "open", ![r].file = next]
    BY <1>4, <2>1 DEF Fill
  <2>4. /\ task' \in [Runs -> Task]
        /\ \A q \in Runs \ {r} : task'[q] = task[q]
        /\ task'[r].results = task[r].results /\ task'[r].code = task[r].code
        /\ task'[r].id = task[r].id /\ task'[r].file = next
        /\ task'[r].pc = "open"
    BY <1>2, <2>2, <2>3 DEF Task, Files
  <2>5. \A file \in Files :
          files'[task[r].id][file] =
            IF Rank[file] < Rank[next] THEN "complete" ELSE "absent"
    BY <1>3, <2>2 DEF Files, Rank
  <2>6. Making(r)'
    BY <2>4 DEF Making
  <2>7. Progress(r)'
    BY <1>1, <1>3, <2>4, <2>5 DEF Progress, Visited, Writing
  <2> QED
    BY <1>1, <2>4, <2>6, <2>7, OnwardStep
<1>5. CASE Following(task[r].file) = None
  <2>1. task[r].file = "metadata"
    BY <1>3, <1>5, ConstantsAssumption DEF ConstantsAssumption, Following, Files
  <2>2. \A file \in Files : files'[task[r].id][file] = "complete"
    BY <1>3, <2>1 DEF Files, Rank
  <2>3. CASE task[r].ingest
    <3>1. task' = [task EXCEPT ![r].pc = "announce"]
      BY <1>5, <2>3 DEF Fill
    <3>2. /\ task' \in [Runs -> Task]
          /\ \A q \in Runs \ {r} : task'[q] = task[q]
          /\ task'[r].results = task[r].results
          /\ task'[r].code = task[r].code
          /\ task'[r].id = task[r].id /\ task'[r].pc = "announce"
      BY <1>2, <3>1 DEF Task
    <3>3. Making(r)'
      BY <3>2 DEF Making
    <3>4. Progress(r)'
      BY <1>1, <1>3, <2>2, <3>2 DEF Progress, Visited, Writing
    <3> QED
      BY <1>1, <3>2, <3>3, <3>4, OnwardStep
  <2>4. CASE ~task[r].ingest
    <3> PICK id : id = task[r].id
      OBVIOUS
    <3>1. Return(r, [ok |-> TRUE, id |-> id, ingest_error |-> FALSE])
      BY <1>5, <2>4 DEF Fill
    <3>2. Stored(id)' /\ task[r].pc = "fill" /\ UNCHANGED origin
      BY <1>1, <2>2 DEF Stored, Files, At, Writing
    <3>3. \A s \in Snapshots \ {id}, file \in Files :
            files'[s][file] = files[s][file]
      BY <1>3
    <3>4. Apart(r) /\ Sound(r)'
      BY <1>1, <3>1, <3>2, <3>3, MadeStep
    <3>5. TypeOK'
      BY <1>1, <1>3, <3>4 DEF IInv, TypeOK, Apart, Writing
    <3> QED
      BY <1>1, <3>4, <3>5, WritingVouches, RunStep
  <2> QED
    BY <2>3, <2>4
<1> QED
  BY <1>4, <1>5

(* The ingest service is told of a snapshot once it is stored.             *)
LEMMA AwaitedIsStored ==
  ASSUME IInv, NEW r \in Runs, task[r].pc \in {"announce", "await"}
  PROVE  task[r].id \in Snapshots /\ Stored(task[r].id)
BY DEF IInv, Sound, Progress, Making, Stored, Files

(* The announcement leaves, or does not.                                   *)
LEMMA AnnounceStep ==
  ASSUME IInv, NEW r \in Runs, Announce(r)
  PROVE  IInv'
<1>1. task \in [Runs -> Task] /\ task[r] \in Task /\ Sound(r)
      /\ At(r, "announce") /\ task' = [task EXCEPT ![r].pc = "await"]
      /\ wire' \in {wire, wire \cup {task[r].id}}
      /\ UNCHANGED <<files, origin, known>>
  BY DEF IInv, TypeOK, Announce
<1>2. /\ task' \in [Runs -> Task]
      /\ \A q \in Runs \ {r} : task'[q] = task[q]
      /\ task'[r].results = task[r].results /\ task'[r].code = task[r].code
      /\ task'[r].id = task[r].id /\ task'[r].pc = "await"
  BY <1>1 DEF Task
<1>3. task[r].id \in Snapshots /\ Stored(task[r].id)
  BY <1>1, AwaitedIsStored DEF At
<1>4. wire' \subseteq Snapshots /\ AnnouncedIsStored'
  BY <1>1, <1>3 DEF IInv, TypeOK, AnnouncedIsStored, Stored
<1>5. task[r].code = None /\ ~At(r, "exited")
  BY <1>1 DEF Sound, Course, At
<1>6. Progress(r)'
  BY <1>1, <1>2 DEF Sound, Progress, Making, Visited, At
<1>7. Owned(r)'
  BY <1>1, <1>2 DEF Sound, Owned, Making, Visited, At
<1> QED
  BY <1>1, <1>2, <1>4, <1>5, <1>6, <1>7, QuietStep

(* Answered or not, the snapshot is reported.                              *)
LEMMA AnswerStep ==
  ASSUME IInv, NEW r \in Runs, Answered(r) \/ Unanswered(r)
  PROVE  IInv'
<1>1. At(r, "await") /\ UNCHANGED <<files, origin, wire, known>>
  BY DEF Answered, Unanswered
<1> PICK id : id = task[r].id
  OBVIOUS
<1>2. PICK ingest_error \in BOOLEAN :
        Return(r, [ok |-> TRUE, id |-> id, ingest_error |-> ingest_error])
  BY DEF Answered, Unanswered
<1>3. Stored(id)' /\ Making(r) /\ task[r].pc = "await"
  BY <1>1, AwaitedIsStored DEF Stored, Making, At
<1>4. Apart(r) /\ Sound(r)'
  BY <1>1, <1>2, <1>3, MadeStep
<1> QED
  BY <1>1, <1>4, RunStep
  DEF IInv, TypeOK, Apart, MetadataVouches, AnnouncedIsStored, Stored

(* The ingest service may record an announcement, or the network lose it.  *)
LEMMA WireStep ==
  ASSUME IInv, NEW s \in Snapshots, Record(s) \/ Lose(s)
  PROVE  IInv'
<1>1. UNCHANGED <<files, origin, task>> /\ wire' \cup known' \subseteq wire \cup known
  BY DEF Record, Lose
<1>2. TypeOK' /\ MetadataVouches' /\ AnnouncedIsStored'
  BY <1>1 DEF IInv, TypeOK, MetadataVouches, AnnouncedIsStored, Stored
<1>3. \A r \in Runs : Sound(r)'
  BY <1>1
  DEF IInv, Sound, Course, Progress, Owned, ExactSoFar, Named, Making, At,
      Visited, Stored
<1> QED
  BY <1>1, <1>2, <1>3 DEF IInv

-------------------------------------------------------------------------------
(* Theorems *)

(* The directory is empty and no run has begun.                            *)
LEMMA InitInvariant ==
  Init => IInv
<1> SUFFICES ASSUME Init
             PROVE  IInv
  OBVIOUS
<1>1. Routers \in Seq(STRING) /\ Len(Routers) \in Nat \ {0}
  BY ConstantsAssumption DEF ConstantsAssumption
<1>2. ASSUME NEW r \in Runs
      PROVE  /\ task[r] \in Task /\ task[r].pc = "idle"
             /\ task[r].results = <<>> /\ task[r].code = None
  BY DEF Init, Task, Files
<1>3. TypeOK
  BY <1>2 DEF Init, TypeOK, FileStates
<1>4. \A s \in Snapshots : origin[s] = None /\ ~Stored(s)
        /\ \A file \in Files : files[s][file] = "absent"
  BY DEF Init, Stored, Files
<1>5. ASSUME NEW r \in Runs
      PROVE  Sound(r)
  <2>1. Course(r) /\ Progress(r) /\ ExactSoFar(r) /\ Named(r)
    BY <1>1, <1>2 DEF Course, Progress, ExactSoFar, Named, At, Making
  <2>2. Owned(r)
    <3> SUFFICES ASSUME NEW s \in Snapshots, NEW i \in 1 .. Len(Routers)
                 PROVE  origin[s] # <<r, i>>
      BY DEF Owned
    <3>1. <<r, i>> # None
      BY ConstantsAssumption DEF ConstantsAssumption
    <3> QED
      BY <1>4, <3>1
  <2> QED
    BY <2>1, <2>2 DEF Sound
<1>6. MetadataVouches /\ AnnouncedIsStored
  BY <1>4 DEF Init, MetadataVouches, AnnouncedIsStored
<1> QED
  BY <1>3, <1>4, <1>5, <1>6 DEF IInv

(* Every step preserves the inductive invariant.                           *)
LEMMA NextInvariant ==
  IInv /\ [Next]_vars => IInv'
<1> SUFFICES ASSUME IInv, [Next]_vars
             PROVE  IInv'
  OBVIOUS
<1>1. ASSUME NEW r \in Runs, Step(r)
      PROVE  IInv'
  BY <1>1, StartStep, FetchFailsStep, FetchStep, OpenStep, FillStep,
     AnnounceStep, AnswerStep DEF Step
<1>2. ASSUME NEW r \in Runs, Die(r)
      PROVE  IInv'
  BY <1>2, DieStep
<1>3. ASSUME NEW s \in Snapshots, Record(s) \/ Lose(s)
      PROVE  IInv'
  BY <1>3, WireStep
<1>4. CASE UNCHANGED vars
  BY <1>4
  DEF vars, IInv, TypeOK, MetadataVouches, AnnouncedIsStored, Sound, Course,
      Progress, Owned, ExactSoFar, Named, Making, At, Visited, Stored
<1> QED
  BY <1>1, <1>2, <1>3, <1>4 DEF Next

(* The inductive invariant holds of every reachable state of a collector.  *)
THEOREM Invariance == Spec => []IInv
<1> QED
  BY InitInvariant, NextInvariant, PTL DEF Spec

(* Every variable holds the kind of value the code keeps in it.            *)
THEOREM TypeCorrect == Spec => []TypeOK
<1>1. IInv => TypeOK
  BY DEF IInv
<1> QED
  BY <1>1, Invariance, PTL

(* Whole metadata vouch for whole artifacts, at every moment.              *)
THEOREM MetadataVouch == Spec => []MetadataVouches
<1>1. IInv => MetadataVouches
  BY DEF IInv
<1> QED
  BY <1>1, Invariance, PTL

(* What the ingest service hears of is stored.                             *)
THEOREM AnnouncementsTrue == Spec => []AnnouncedIsStored
<1>1. IInv => AnnouncedIsStored
  BY DEF IInv
<1> QED
  BY <1>1, Invariance, PTL

(* The report of a run that exits names what it has stored and no more.    *)
THEOREM ReportExact == Spec => []ReportIsExact
<1>1. IInv => ReportIsExact
  BY DEF IInv, Sound, ExactSoFar, ReportIsExact
<1> QED
  BY <1>1, Invariance, PTL

(* Exit code 0 means a stored snapshot of every router asked for.          *)
THEOREM ZeroMeansAll == Spec => []ExitZeroMeansAll
<1>1. IInv => ExitZeroMeansAll
  <2> SUFFICES ASSUME IInv, NEW r \in Runs, task[r].code = 0,
                      NEW i \in 1 .. Len(Routers)
               PROVE  \E s \in Snapshots : Stored(s) /\ origin[s] = <<r, i>>
    BY DEF ExitZeroMeansAll
  <2>1. Sound(r) /\ task[r] \in Task
    BY DEF IInv, TypeOK
  <2>2. At(r, "exited")
    BY <2>1, ConstantsAssumption DEF ConstantsAssumption, Sound, Course
  <2>3. i \in DOMAIN task[r].results /\ ExitCode(task[r].results) = 0
    BY <2>1, <2>2 DEF Sound, Course, Task
  <2>4. task[r].results[i].ok
    BY <2>3 DEF ExitCode
  <2>5. task[r].results[i].id \in Snapshots
    BY <2>1, <2>3, <2>4 DEF Sound, Named
  <2> QED
    BY <2>1, <2>3, <2>4, <2>5 DEF Sound, ExactSoFar
<1> QED
  BY <1>1, Invariance, PTL

(* No step of any run reopens a file that is complete.                     *)
THEOREM CompleteStays == Spec => CompleteStaysComplete
<1>1. IInv /\ [Next]_vars =>
        \A s \in Snapshots, file \in Files :
          files[s][file] = "complete" => files'[s][file] = "complete"
  <2> SUFFICES ASSUME IInv, [Next]_vars,
                      NEW s \in Snapshots, NEW file \in Files,
                      files[s][file] = "complete"
               PROVE  files'[s][file] = "complete"
    OBVIOUS
  <2>1. ASSUME NEW r \in Runs, Open(r)
        PROVE  files'[s][file] = "complete"
    <3>1. Writing(r, "partial")
      BY <2>1 DEF Open, Writing
    <3> QED
      BY <3>1, WritingKeepsComplete
  <2>2. ASSUME NEW r \in Runs, Fill(r)
        PROVE  files'[s][file] = "complete"
    <3>1. Writing(r, "complete")
      BY <2>2 DEF Fill, Writing
    <3> QED
      BY <3>1, WritingKeepsComplete
  <2>3. CASE UNCHANGED files
    BY <2>3
  <2> QED
    BY <2>1, <2>2, <2>3
    DEF Next, Step, Start, FetchFails, Fetch, Announce, Answered, Unanswered,
        Die, Record, Lose, vars
<1>2. IInv /\ [Next]_vars =>
        [\A s \in Snapshots, file \in Files :
           files[s][file] = "complete" => files'[s][file] = "complete"]_vars
  BY <1>1
<1> QED
  BY <1>2, Invariance, PTL DEF Spec, CompleteStaysComplete

================================================================================
