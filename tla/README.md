# Verification of hyrule-mcp

`hyrule-mcp` is a Model Context Protocol server: NOC agents call its tools to
run diagnostic commands on hosts and to keep "no-op rollback guards" for
remediations. This directory holds TLA+ models of its stateful parts, the TLC
configurations that check them on small instances, and proofs, checked by
TLAPS, of their safety properties for instances of every size.

Run `tlc -config X.cfg M` for a row of the table under *Runs*, and `tlapm
XProofs.tla` for the proofs about a component.

## Inventory

| Component | Source | State | Operations | What makes it correct |
|---|---|---|---|---|
| Rollback guard store | `rollback_guards.py` | one JSON file per guard in a directory | prepare, confirm, roll back, list; lazy expiry in all but prepare | a guard is decided at most once and within its TTL; what was acknowledged stays so; audit and status agree; listings are exact; overdue guards get marked |
| Guard tools | `tools/rollback.py` | none | the four tools: flag, authorization, store, result | the gate precedes any change; rejections are results, not exceptions |
| Command executor | `executor.py` | semaphore, thread pool, subprocesses, SSH sessions | `execute_args`, `execute_raw_args` | slots are conserved, every call ends, answers are true, no job is taken up after its call has ended |
| Command output | `sanitize.py`, `_command_payload` | none | redact, cut, measure | limits hold, omissions are flagged, cuts are tight |
| Router snapshots | `router_snapshots.py` | a directory per snapshot, the ingest service's records | one run over a list of routers | what a reader or the service finds is complete; the report and the exit code are exact |
| Action authorization | `action_auth.py` | none (reads the clock) | `validate_action_authorization` | order of refusals, expiry, allow lists; an effect only after a verdict that allows it |
| Settings, host profiles | `settings.py` | frozen after start-up | `resolve`, `supports_*` | a name reaches the host that bears it; a tool runs only commands its host has |
| Diagnostic tools | `tools/diagnostics.py` | the call's own: commands issued and what came of them | some thirty tools: one command, several in sequence, or gathered | caps on fan-out; answers that tell every failure as one; no task left waiting; every call ends |
| Server | `server.py`, `mcp_server.py` | tool registry, fixed at import | register, serve | gated tools exist only when enabled |
| Result models | `models.py` | none | declarations | - |

How they interact: a tool call is a task of one asyncio event loop. Guard tools
call the store synchronously, so calls of *one* process do not interleave;
several processes (the stdio server and the daemon, or a restart) share the
directory without a lock. Diagnostic tools and the snapshot collector call the
executor, which hands SSH work to threads and shares one semaphore among all
calls of the process. The collector is a process of its own that may overlap
with another run of itself.

The behaviours that are hard are in `PROJECT.json` under `hazards`, each at its
line: rewriting a file in place (crash between truncating and filling),
unlocked read-modify-write, lazy expiry and a clock read at the start of a
call, slots and threads with different life times, deadlines racing results and
cancellations, partial failure and unreliable announcements of snapshots,
selecting the end of an output whose end has been cut off, tools of several
commands of which one fails, raises or is cancelled.

## Modules

**`GuardLifecycle`** is the promise of the guard store without files, processes
or time: absent, pending, then closed once and for ever. The only damage a
fault may do is to lose a guard about which no decision has been promised.

**`GuardStore`** is `rollback_guards.py` down to operations on the file system.
`disk` is the guard directory; a file is missing, unreadable or holds a guard
(`status`, `audit`, expiry, intent). `task[p]` is the call that process `p` is
executing with its local variables (`now`, the loaded copy, the rest of the
directory listing). `prepare_guard` is `PrepareGuard` (or `RefusePrepare`),
`_transition` is `Transition` followed by one of the `Load*` actions according
to what the file holds, `list_pending_guards` is `ListPending` followed by a
`Scan*` action per file in sorted order. `_save` is `Open` (truncate) and
`Write` (fill). `SaveFails` is an `OSError`; `Crash` a death and restart.
`Reply` returns to the caller, and the history variable `acked` records the
decisions callers were told of. If two processes have one file open, the result
of the second write is that text or an unreadable mixture. A JSON text the
process finds half-written is unreadable: the model does not distinguish empty
from garbled. Time is an integer that may be set back when
`ClockMayStepBack`; beyond `LastDate` there are no dates, and a TTL that reaches
further makes `timedelta` raise (`OverflowPrepare`). That is the one exception
of the store that no failure precedes.

**`Executor`** is `_run_ssh`, `execute_raw_args`, `_run_local`,
`_run_local_raw` and `_run_paramiko`. `free` and `waiting` are the semaphore
(first come, first served, as `asyncio.Semaphore` is), `pool` the jobs of
`asyncio.to_thread` no thread has begun, `work[c]` what goes on in the thread,
on the remote host or in the subprocess, `pc[c]` where the coroutine is.
`Expire` is the deadline of `wait_for`: it interrupts the await even when the
result has just come in; `Settle` is the `except TimeoutError` clause, or the
cancellation leaving the call, with the release of the slot. The release of the
slot and the withdrawal of a job the pool has not begun happen together, since
the event loop runs both callbacks in one iteration. A local
call awaits the creation of its subprocess, which no timeout covers (`Spawn`,
`Spawned`); cancelled there, asyncio kills the process (`CancelSpawn`),
cancelled later, it is left alone (`CancelLocal`). `Kill` and `Reap` are
`proc.kill()` and `await proc.wait()`. A connection that closes before an exit
status arrives (`ConnectionLost`) gives status -1 in paramiko and is answered
like a command that failed. The pool has `PoolSize` threads (Python's default
is the number of processors plus four, at most 32).

**`RouterSnapshots`** is `run` and `snapshot_router`. `files` is the output
directory: the raw artifact, the normalized artifact and the metadata of every
snapshot, each absent, partial or complete; `wire` and `known` are
announcements under way and recorded by the ingest service; `task[r]` is a run
with its report and exit code. `Die` stands for a kill and for every exception
nobody catches. `Unanswered` is any exception of the POST; the request it
belongs to may still arrive.

**`CommandOutput`** holds `truncate_text` and `_command_payload` as operators on
sequences of characters of one or two bytes and line ends: standard output and
standard error are cut each by itself and counted together. **`LogTools`** runs
them inside `os_service_logs` (journal; or the service's log file with
`/var/log/messages` as a fallback) and `dmesg_tail`.

**`HostProfiles`** is the part of `settings.py` that decides something: what a
hosts file leaves out (`Profile`), which entry a name or an alias finds
(`Resolve`, a name before any alias), and the five `supports_*` properties. It
has operators only.

**`ActionAuth`** is `validate_signed_authorization` as an operator: the reasons
for a refusal, the order in which they are looked for, and the verdict. Its
clock is finer than the whole seconds in which the code compares. Of the HMAC
the payload says whether its signature is the genuine one, another, or one that
is not ASCII, on which `hmac.compare_digest` raises `TypeError`.
**`ActionTools`** puts the verdict in front of the tools
that change something: the restarts and the acknowledgement of `diagnostics.py`
and the guard tools of `rollback.py`. `call` is one call with the verdict on it
and the time of the check; `effect` is what it has brought about. A guard tool
acts at once (`UseStore`), the others wait for the executor or the network
(`Submit`, then `TakeEffect` or `GiveUp`). `Decline` is a service name that is
unsafe once stripped, or a host that has no command for the restart, as
`HostProfiles` and the `Inventory` say. The effect of a restart records the host
that was really reached and the program that was run there, that of
`prepare_commit_confirm` the TTL, asked for or by default.

**`DiagnosticTools`** is the tools of `diagnostics.py` that only look. `steps`
is the list of commands the call has issued so far, on which host, and what came
of each (`Outcomes`); a request to Prometheus or Icinga and a pause of
`dns_probe_burst` count as commands. `Following` is what the tool issues next,
given what it has seen: a script for most tools (`Script`, by the profile of the
host), the neighbor after a route that names one (`NextOfPath`), the next name
after the pause (`NextOfBurst`), one probe or all at once (`NextOfProbe`).
`Issue`, `Finish`, `Return`, `Raise` and `Cancel` are the steps of a call.
`answer` is empty until the tool answers; the answer it then contains is its
verdicts: `ok`, and a row for every command about which the result says whether
it succeeded. What `Executor` shows, that an awaited command
ends and is answered truly, is the `Finish` of this module. Of a command only
the waiting for it is followed: when a call is cancelled its commands are
`"abandoned"`, and what their sessions and processes do from then on is the
matter of `Executor`.

**`MCGuardStore`, `MCExecutor`, `MCRouterSnapshots`, `MCLogTools`,
`MCActionTools`, `MCDiagnosticTools`** give the constants finite values.

The proofs are in modules of their own: **`GuardStoreProofs`** and
**`GuardStoreSoleProofs`**, **`ExecutorProofs`**, **`RouterSnapshotsProofs`**,
**`HostProfilesProofs`** (lemmas only), **`ActionToolsProofs`**,
**`DiagnosticToolsProofs`** and **`LogToolsProofs`**.

Some definitions are not part of any specification: variants such as
`CloseUnaudited` next to `Close`, which differ by a bug one could plausibly
make. `PROJECT.json` pairs each property with the variant that breaks it.

## Runs

| Configuration | Module | Shows | States |
|---|---|---|---|
| `GuardStoreOne.cfg` | `MCGuardStore` | one process, two guards, two faults: all promises to callers, the refinement of `GuardLifecycle`, and that overdue guards are eventually marked unless their own file or one that sorts before is unreadable | 86 852 |
| `GuardStoreTwo.cfg` | `MCGuardStore` | two processes on one guard, a clock that may be set back: readable files stay coherent and timely | 966 777 |
| `GuardStoreTorn.cfg` | `MCGuardStore` | *violated*: after one crash an overdue guard is never marked | |
| `GuardStoreShared.cfg` | `MCGuardStore` | *violated*: two processes acknowledge two decisions about one guard | |
| `Executor.cfg` | `MCExecutor` | three remote calls and a local one, one slot, two threads: safety, and every call ends | 832 761 |
| `ExecutorFanOut.cfg` | `MCExecutor` | *violated*: after a timeout, and without any cancellation, more sessions than slots | |
| `RouterSnapshots.cfg` | `MCRouterSnapshots` | two overlapping runs over two routers | 52 900 |
| `LogTools.cfg` | `MCLogTools` | all logs of up to four short lines, with and without output on standard error | 121 909 |
| `LogToolsNewest.cfg` | `MCLogTools` | *violated*: the newest line of a long log is not shown | |
| `ActionTools.cfg` | `MCActionTools` | one call of any acting tool: nothing takes effect that was not signed, switched on, in time when checked and within the lists, nor on another host than meant or with another TTL than asked for | 225 696 |
| `DiagnosticTools.cfg` | `MCDiagnosticTools` | one call of any tool that only looks, with every outcome of its commands: caps, suitable commands, true answers, no task left waiting, and an end | 29 207 |
| `DiagnosticRaises.cfg` | `MCDiagnosticTools` | *violated*: one unreachable source makes `multi_source_probe` end in an exception | |

What the violated runs show is written down, with the sentence of the
documentation or the test they contradict, under `findings` in `PROJECT.json`.

### Bounds

- *Guards*: two guards are needed for a listing to meet one file before
  another, and for a rewrite of one to leave the other alone; the races between
  processes concern a single file. `MaxTime = 2`, or 3, with a TTL of 1 puts a call
  before, at and after the expiry; in the run of two processes the clock may be
  set back after it. In the run of one process it only advances, because
  `OverdueIsMarked` needs time to pass; the safety properties of that run are
  proved for every clock. The TTL 0 is the refused one, the TTL 9 reaches beyond
  `LastDate = 5`. `MaxFaults = 2` allows a fault during the
  recovery from another. One intent and one operator suffice: neither is ever
  compared.
- *Executor*: three remote calls for one slot make two wait and be admitted in
  turn; a session that outlives its call makes the next one run beside it, and
  the third queue in the pool behind two threads that may both hang for ever.
- *Snapshots*: a run visits two routers, so that one may fail after the other
  succeeded; four ids are as many as two runs can use.
- *Logs*: limits of three lines and seven bytes are exceeded by logs of four
  lines of up to four bytes, singly and together, and a wide character can
  straddle the limit. Standard error is empty, short, of too many lines or of
  too many bytes. Lines are not empty (log lines begin with a time stamp).
- *Diagnostic tools*: caps of three are met, exceeded and undercut, by numbers of
  flows and names from -1 to 9 and by none to four sources, one of them given
  twice; every kind of host is asked by name, by alias and undescribed, and the
  name of one is the alias of another. A call shares only the executor with
  another, so one call suffices.
- *Acting tools*: two ticks a second and times up to the fourth tick put a check
  before, at, within and after the second of the expiry. The payloads are
  genuine ones of each class and with each kind of expiry, and one each that is
  missing, incomplete, altered and signed with letters that are not ASCII; the allow lists are empty, name something or
  contain `*`, and one names a host by its alias; the services include one with surrounding space and one that is
  refused. The TTLs are -1, 0 and 2, the configured default
  is one or zero. A call shares no state with another before it reaches the store or
  the executor, so one call suffices.

### Fairness

- `GuardStore`: a process that has begun a call carries on with it (weak
  fairness of `Continue`: the functions are synchronous). That somebody keeps
  asking for the pending guards (strong fairness of `ListPending`: an idle
  server gets busy with other calls now and then) is an assumption about the
  clients, not about the code, which has no sweeper; without it
  `OverdueIsMarked` fails. Faults may happen at any time, and nothing is assumed
  of them. Time passes (weak fairness of `AdvanceClock`) up to
  its bound.
- `Executor`: the event loop runs ready callbacks and fires timers (`Handle`,
  `Expire`, `Admit`), and a killed process is reaped. Of a result and a deadline
  that come together it may take either, so they share one condition. Nothing
  is assumed of threads, hosts, commands or clients: they may hang for ever.
- `DiagnosticTools`: the event loop runs a tool that has nothing to wait for
  (`Proceed`), and commands end (`Finish`): those of the executor by
  `EveryCallEnds`, pauses of themselves. That requests end is assumed of the
  servers of Prometheus and Icinga: httpx's timeout of ten seconds applies to
  each operation on the connection, so a server that sends a byte now and then
  can keep a request going.

`CHECK_DEADLOCK FALSE` is set where the modelled work is finite: every call has
ended, every run has exited or died, the one call of a tool is over. `GuardStore` never deadlocks.

## Proofs

Every safety property that a passing run checks, invariant or action property,
is also a theorem, and so is the refinement of `GuardLifecycle`. The theorems
speak of every value of the constants that meets the named assumptions of the
modules; where one needs more, its own `ASSUME` says so.

| Module | Theorems |
|---|---|
| `GuardStoreProofs` | `TypeCorrect`, `AuditIsCoherent` (`AuditExplainsStatus`), `DecisionsAreTimely` (`DecisionWithinTtl`) |
| `GuardStoreSoleProofs`, assuming `SingleWriter` | `DecisionsStand` (`AckedDecisionStands`), `RefusalsClose` (`RefusalMeansClosed`), `ListingsAreExact` (`ListingExact`), `RaisesFollowFaults` (`RaisesOnlyAfterFault`), `TerminalStaysFinal` (`TerminalIsFinal`), `Refinement` (`ImplementsLifecycle`) |
| `ExecutorProofs` | `TypeCorrect`, `SlotsAreConserved` (`SlotsConserved`), `AnswersTrue` (`AnswersAreTrue`), `NoLateJob` (`NoJobBegunLate`) |
| `RouterSnapshotsProofs` | `TypeCorrect`, `MetadataVouch` (`MetadataVouches`), `AnnouncementsTrue` (`AnnouncedIsStored`), `ReportExact` (`ReportIsExact`), `ZeroMeansAll` (`ExitZeroMeansAll`), `CompleteStays` (`CompleteStaysComplete`) |
| `ActionToolsProofs` | `TypeCorrect`, `EffectSigned` (`EffectIsSigned`), `EffectWithin` (`EffectWithinLists`), `ExpiryExact` (`ExpiryWithinASecond`) and, assuming `OwnServices`, `EffectAsked` (`EffectAsAsked`) |
| `DiagnosticToolsProofs` | `TypeCorrect`, `NothingAwaited` (`NothingStillAwaited`), `CapsKept` (`WithinCaps`), `AnswersTrue` (`AnswerIsTrue`) and, assuming `OwnSystems`, `CommandsSuit` (`CommandsSuitHost`) |
| `LogToolsProofs` | `TypeCorrect`, `LimitsKept` (`WithinLimits`), `OmissionsFlagged` (`OmissionIsFlagged`), `CutsTight` (`CutIsTight`) |

In each module an inductive invariant `IInv` (in `GuardStoreSoleProofs`
`SoleInv`) is shown to hold of every reachable state, one step per action, and
the theorems follow from it.

### Guard store

*The first invariant.* `AuditExplainsStatus` and `DecisionWithinTtl` speak of
files only, but a file is filled from the copy in a process's memory. `IInv`
therefore says the same of every copy: a process that is about to open or fill
a file holds a guard whose audit explains its status and whose decision is
timely. Opening makes a file unreadable, filling makes it that copy or
unreadable; a copy comes from `NewGuard` or from `Close` applied to a *pending*
file, which has exactly one audit entry. That is why both survive several
processes: no step combines two files.

*The second invariant.* What one caller was told and what the file says agree
only because no one else writes in between. `SoleInv` says of the single
process, by the place it has reached: that the file it is about to rewrite is
still pending (or, for prepare, still missing), that its copy is a closed form
of it, that a listing's result so far is right about every file it has already
looked at, that a refusal is being answered only when its guard is not pending,
and that a file is unreadable only while it is being rewritten or after a fault.
With two processes each of these parts fails, which is what `GuardStoreShared`
exhibits; hence the assumption `SingleWriter`, one process per directory.

*Refinement.* Under `SoleInv` every step maps to a step of `GuardLifecycle` or
stutters: `Write` is `Create` or `Close`, a crash or a refused write between
`Open` and `Write` is `Lose`, all else stutters.

### Executor

That the slots add up is inductive by itself, with cardinalities of the set of
holders. That an answer is true and that no job is begun late is not: `Begin`
starts the job at the head of the pool's queue, whoever that is. `IInv` says
that the queues of the semaphore and of the pool hold each call at most once
and only calls that are waiting or whose job has not begun (so a call that has
withdrawn its job is in no queue), and `InStep` how far the job or the process
of a call can be by where the call is. `RemoveFirstElements` is the lemma on
withdrawing from a queue. Assumed are a finite set of calls, a semaphore and a
pool of at least one.

### Router snapshots

That reports are exact rests on facts about steps still to come: a run has made
no snapshot yet of the routers ahead of it, a fresh id has no files, and no
other run touches the files of the snapshot that this one is making (the ids
that two runs draw are different, see *Not modelled*). `Progress` describes the
files of the snapshot being made by the place of the run, `Owned` which
snapshots a run has made, `ExactSoFar` what its results say of them. The
argument for a step has two halves: what it does for its own run, and
`OthersSound`, that it stays `Apart` from all others. Assumed are a list of at
least one router and a marker that is none of the values it stands beside.

### Acting tools

The effect comes after the check, and time passes in between. `IInv` says that
a call which waits carries a true verdict on an authorization as it was at
`call.at`, that only accepted calls wait, and that the effect follows from the
call alone. `ExpiryExact` is arithmetic on whole seconds, for any number of
ticks. `EffectWithin` speaks of what the effect really concerns, while the lists
are applied to the names as given. For services it needs what `StripAssumption`
says of `_safe_service_name` and `_csv_set`: names on the list have no
surrounding space, so that stripping one of them gives itself or is refused. For
hosts it needs `ReachesWhatItStandsFor`: the entry `resolve` finds is one that
the name stands for (`StandsFor`), by name before alias.

That a guard gets the TTL asked for, the other half of `EffectAsked`, needs no
more than `IInv`. For restarts `EffectAsked` assumes `OwnServices`: no host of the inventory is described as
run by the services of another system. `settings.py` lets an entry give
`os_family` and `init_system` independently (lines 90 and 91), and with an
OpenBSD host described as run by systemd the tools would do as they are told.
Of names, aliases and their clashes nothing is assumed but that a mapping has
each name once (`HostsFile`).

### Diagnostic tools

`IInv` says, per kind of tool, how the list of commands relates to the tool's
plan: a script's commands in order, probes in the order of the sources and all
or none if gathered, routes and names counted against the cap, a pause only
when another question follows; that without `gather` only the last command can
be awaited or have raised; and that an answer was given when nothing was left
to do or to wait for. `CommandsSuit` assumes `OwnSystems`: the hosts file describes
hosts of the three systems, each with its own services and firewall, and gives
no alias twice. Here, too, the code lets a file say otherwise (lines 90 to 92),
and of two hosts with one alias it takes the first.

`HostProfilesProofs` holds the lemma both components need, `ResolveFinds`: a
profile is that of the first entry with the name, else of the first with the
alias, else the default one.

### Log tools and command output

The properties speak of texts and logs of any length, under any limits, so what
`Bytes`, `Lines`, `Join` and the cuts compute has to be proved for every text.
The library's induction theorems take an operator as a parameter, which the
provers cannot instantiate; `Induction` and `SeqInduction` take a *set* instead
(of numbers, of sequences) and are proved from `WFMin`, that every non-empty
set of numbers has a least element. `FoldExists` shows that the recursion behind
`FoldLeft` has a solution, from which follow the equations for one more
character or line: `BytesOfAppend`, `ReadingOfAppend`, `JoinOfAppend`,
`PrintedOfAppend`.

On them rest the facts about texts: what is read back from printed lines is
those lines (`LinesOfPrinted`, `LinesOfJoined`), a text is its lines joined,
perhaps with one more line end (`TextIsLines`), bytes and lines only grow along
prefixes (`PrefixGrows`), the longest prefix that fits exists (`FirstBytesFits`),
and selecting the last lines never makes a text longer (`JoinOfLast`).
`WhatIsLeft` sums up `TruncateText`: within both limits, all of the lines unless
flagged, and no longer prefix fits, but for a final line end. From there
`PayloadIsHonest` and `SelectionIsHonest` say it of the two kinds of answers, and
`IInv` of the calls. The interesting case is a text cut right behind a line end
and then selected from: selecting drops the line end, and `CutIsTight` holds
because that is the one continuation it allows.

Assumed are limits of at least one and lines that are not empty and contain no
line end (`LogAssumption`; log lines begin with a time stamp). Redaction is
outside the model, as before.

### Only model-checked

`OverdueIsMarked`, `EveryCallEnds` and `EveryToolEnds`: TLAPS has no rules for
liveness under fairness that need `ENABLED`. The violated runs have
counterexamples instead of proofs.

## Plan

1. Done: `GuardLifecycle`, `GuardStore`, `Executor`, `RouterSnapshots`,
   `CommandOutput`, `LogTools`, `HostProfiles`, `ActionAuth`, `ActionTools`,
   `DiagnosticTools`, and the proofs of all their safety properties.
2. Next: bounds that the violated runs suggest, as theorems: how many sessions
   can outlive their calls in `Executor` (as many as the pool has threads), and
   what `GuardStore` still promises callers when several processes share the
   directory; safety lemmas towards the liveness properties, such as a bound on
   the steps a call of `DiagnosticTools` can take.

## Not modelled

- Redaction, parsing and formatting of text, and evidence ids: input and output
  without state of the program. That includes the parsers of routes, neighbors,
  sockets, packet logs and restart histories, the walk through FRR's JSON in
  `router_snapshots.py`, and the rules by which a raw command counts as
  read-only; where one decides what happens next, its verdict is an outcome of
  the model.
- Arguments of commands and the length of pauses: `ecmp_path_select` varies a
  source port that no command receives, `tcpdump_capture` waits for the sum of
  its duration and the command timeout. The limits on packets and lines are the
  same `max(1, min(...))` as the caps that are checked.
- Power failures that undo completed writes (nothing is synced to disk), and
  files changed by hand.
- Guard and snapshot ids that collide: ids are drawn from 64 and, within one
  second, 24 random bits.
- The server's start-up, transports, health endpoint and the registration of
  tools, which is over before the first call; the switches it depends on are
  checked again in each call, and that check is modelled.
- Reading the environment and the hosts file, and the declarations of
  `models.py`: no behaviour after start-up.
