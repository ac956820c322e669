---------------------------- MODULE RouterSnapshots ----------------------------
(***************************************************************************)
(* The collector of router tables, hyrule_mcp/router_snapshots.py.  A run  *)
(* visits its routers in order.  For each it fetches the table, writes two *)
(* compressed artifacts and then the metadata that describes them into a   *)
(* directory of the snapshot's own, and announces the metadata to an       *)
(* ingest service.  Runs may overlap and share the output directory and    *)
(* the service.                                                            *)
(*                                                                         *)
(* Only what concerns one router is caught: an exception of the file       *)
(* system ends the whole run, as a kill does.  Artifacts are written in    *)
(* place, so whoever reads the directory may meet a file that is not       *)
(* complete yet, or never will be.                                         *)
(***************************************************************************)
EXTENDS Naturals, Sequences

CONSTANTS
  Runs,       \* runs of the collector, each executed once
  Routers,    \* the routers a run visits, in order
  Snapshots,  \* snapshot ids
  None

Files == {"raw", "normalized", "metadata"}

ASSUME ConstantsAssumption ==
  /\ Routers \in Seq(STRING) \ {<<>>}
  /\ None \notin Snapshots          \* no snapshot,
  /\ None \notin Files              \* no file,
  /\ None \notin {0, 1}             \* no exit code
  /\ None \notin Runs \X (1 .. Len(Routers))   \* and no origin

FileStates == {"absent", "partial", "complete"}

(* What snapshot_router returns.                                           *)
Result == [ok : BOOLEAN, id : Snapshots \cup {None}, ingest_error : BOOLEAN]

VARIABLES
  files,   \* the output directory: snapshot id -> file -> its state
  origin,  \* history: the run and the router a snapshot id was made for
  wire,    \* announcements on their way to the ingest service
  known,   \* snapshots the ingest service has recorded
  task     \* where each run is

vars == <<files, origin, wire, known, task>>

(* pc: fetch a table, open a file, fill it, announce, await the response.  *)
(* ingest: the run was given an ingest URL and a token.                    *)
Task ==
  [pc : {"idle", "fetch", "open", "fill", "announce", "await", "exited",
         "died"},
   ingest : BOOLEAN, id : Snapshots \cup {None}, file : Files,
   results : Seq(Result), code : {0, 1, None}]

At(r, pc) == task[r].pc = pc

(* The position of the router being visited.                               *)
Visited(r) == Len(task[r].results) + 1

-------------------------------------------------------------------------------
(* run *)

ExitCodeCounting(results) ==
  Len(SelectSeq(results, LAMBDA result : ~result.ok))

ExitCodeIfAny(results) ==
  IF \E i \in DOMAIN results : results[i].ok THEN 0 ELSE 1

ExitCode(results) ==
  IF \A i \in DOMAIN results : results[i].ok THEN 0 ELSE 1

Start(r) ==
  /\ At(r, "idle")
  /\ \E ingest \in BOOLEAN :
       task' = [task EXCEPT ![r].pc = "fetch", ![r].ingest = ingest]
  /\ UNCHANGED <<files, origin, wire, known>>

(* Take down the result of one router; go to the next, or print and exit.  *)
Return(r, result) ==
  LET results == Append(task[r].results, result)
      last == Len(results) = Len(Routers)
  IN task' = [task EXCEPT ![r] =
                [task[r] EXCEPT !.pc = IF last THEN "exited" ELSE "fetch",
                                !.id = None, !.file = "raw",
                                !.results = results,
                                !.code = IF last THEN ExitCode(results)
                                         ELSE None]]

(* A kill, or an exception that neither snapshot_router nor run catches:   *)
(* of the file system, or of execute_raw_args, see Kill in Executor.       *)
Die(r) ==
  /\ task[r].pc \in {"fetch", "open", "fill", "announce", "await"}
  /\ task' = [task EXCEPT ![r].pc = "died"]
  /\ UNCHANGED <<files, origin, wire, known>>

-------------------------------------------------------------------------------
(* snapshot_router *)

(* The command failed or timed out, or its output is not JSON.             *)
FetchFails(r) ==
  /\ At(r, "fetch")
  /\ Return(r, [ok |-> FALSE, id |-> None, ingest_error |-> FALSE])
  /\ UNCHANGED <<files, origin, wire, known>>

SnapshotIdReused(r) == Snapshots

(* The time and secrets.token_hex make the id a new one.                   *)
SnapshotId(r) == {s \in Snapshots : origin[s] = None}

Fetch(r) ==
  /\ At(r, "fetch")
  /\ \E s \in SnapshotId(r) :
       /\ origin' = [origin EXCEPT ![s] = <<r, Visited(r)>>]
       /\ task' = [task EXCEPT ![r].pc = "open", ![r].id = s, ![r].file = "raw"]
  /\ UNCHANGED <<files, wire, known>>

(* gzip.open or write_text truncates or creates the file.                  *)
Open(r) ==
  /\ At(r, "open")
  /\ files' = [files EXCEPT ![task[r].id][task[r].file] = "partial"]
  /\ task' = [task EXCEPT ![r].pc = "fill"]
  /\ UNCHANGED <<origin, wire, known>>

FollowingMetadataFirst(file) ==
  CASE file = "raw" -> "metadata"
    [] file = "metadata" -> "normalized"
    [] OTHER -> None

FollowingWithoutMetadata(file) ==
  IF file = "raw" THEN "normalized" ELSE None

Following(file) ==
  CASE file = "raw" -> "normalized"
    [] file = "normalized" -> "metadata"
    [] OTHER -> None

(* The file is written and closed; after the last one the snapshot is made *)
(* and there is only the ingest service left to tell.                      *)
Fill(r) ==
  LET file == task[r].file IN
  /\ At(r, "fill")
  /\ files' = [files EXCEPT ![task[r].id][file] = "complete"]
  /\ IF Following(file) # None
     THEN task' = [task EXCEPT ![r].pc = "open", ![r].file = Following(file)]
     ELSE IF task[r].ingest
     THEN task' = [task EXCEPT ![r].pc = "announce"]
     ELSE Return(r, [ok |-> TRUE, id |-> task[r].id, ingest_error |-> FALSE])
  /\ UNCHANGED <<origin, wire, known>>

(* The POST leaves, or fails before it has left.                           *)
Announce(r) ==
  /\ At(r, "announce")
  /\ task' = [task EXCEPT ![r].pc = "await"]
  /\ wire' \in {wire, wire \cup {task[r].id}}
  /\ UNCHANGED <<files, origin, known>>

(* Any response will do, whatever its status.                              *)
Answered(r) ==
  /\ At(r, "await")
  /\ task[r].id \notin wire
  /\ Return(r, [ok |-> TRUE, id |-> task[r].id, ingest_error |-> FALSE])
  /\ UNCHANGED <<files, origin, wire, known>>

UnansweredFails(r) ==
  /\ At(r, "await")
  /\ Return(r, [ok |-> FALSE, id |-> task[r].id, ingest_error |-> TRUE])
  /\ UNCHANGED <<files, origin, wire, known>>

(* httpx raises: the request may have been lost, still be under way or     *)
(* have been recorded.                                                     *)
Unanswered(r) ==
  /\ At(r, "await")
  /\ Return(r, [ok |-> TRUE, id |-> task[r].id, ingest_error |-> TRUE])
  /\ UNCHANGED <<files, origin, wire, known>>

-------------------------------------------------------------------------------
(* The ingest service and the network *)

Record(s) ==
  /\ s \in wire
  /\ wire' = wire \ {s}
  /\ known' = known \cup {s}
  /\ UNCHANGED <<files, origin, task>>

Lose(s) ==
  /\ s \in wire
  /\ wire' = wire \ {s}
  /\ UNCHANGED <<files, origin, known, task>>

-------------------------------------------------------------------------------

Init ==
  /\ files = [s \in Snapshots |-> [file \in Files |-> "absent"]]
  /\ origin = [s \in Snapshots |-> None]
  /\ wire = {}
  /\ known = {}
  /\ task = [r \in Runs |->
               [pc |-> "idle", ingest |-> FALSE, id |-> None, file |-> "raw",
                results |-> <<>>, code |-> None]]

Step(r) ==
  \/ Start(r) \/ FetchFails(r) \/ Fetch(r) \/ Open(r) \/ Fill(r)
  \/ Announce(r) \/ Answered(r) \/ Unanswered(r)

Next ==
  \/ \E r \in Runs : Step(r) \/ Die(r)
  \/ \E s \in Snapshots : Record(s) \/ Lose(s)

Spec == Init /\ [][Next]_vars

-------------------------------------------------------------------------------
(* Properties *)

(* Every variable holds the kind of value the code keeps in it.            *)
TypeOK ==
  /\ files \in [Snapshots -> [Files -> FileStates]]
  /\ origin \in [Snapshots -> (Runs \X (1 .. Len(Routers))) \cup {None}]
  /\ wire \subseteq Snapshots
  /\ known \subseteq Snapshots
  /\ task \in [Runs -> Task]

Stored(s) == files[s]["metadata"] = "complete"

(* A reader who finds the metadata of a snapshot whole finds both          *)
(* artifacts whole too, at every moment and whenever a run may die, so the *)
(* digests in the metadata are those of the files (lines 101 to 119).      *)
MetadataVouches ==
  \A s \in Snapshots : Stored(s) =>
    files[s]["raw"] = "complete" /\ files[s]["normalized"] = "complete"

(* The ingest service never hears of a snapshot it could not fetch, even   *)
(* from an announcement that arrives after its run is gone.                *)
AnnouncedIsStored == \A s \in wire \cup known : Stored(s)

(* The report of a run that exits names exactly the snapshots the run has  *)
(* stored, each under the router it was taken from: a router reported as   *)
(* failed has left nothing a reader would take for a snapshot.             *)
ReportIsExact ==
  \A r \in Runs : At(r, "exited") =>
    \A s \in Snapshots, i \in DOMAIN task[r].results :
      Stored(s) /\ origin[s] = <<r, i>> <=>
        task[r].results[i].ok /\ task[r].results[i].id = s

(* Exit code 0 means that the run has stored a snapshot of every router it *)
(* was asked for.                                                          *)
ExitZeroMeansAll ==
  \A r \in Runs : task[r].code = 0 =>
    \A i \in 1 .. Len(Routers) :
      \E s \in Snapshots : Stored(s) /\ origin[s] = <<r, i>>

(* A file that is complete stays so: no run reopens another's snapshot.    *)
CompleteStaysComplete ==
  [][\A s \in Snapshots, file \in Files :
       files[s][file] = "complete" => files'[s][file] = "complete"]_vars

===============================================================================
