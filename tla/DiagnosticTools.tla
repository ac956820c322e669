---------------------------- MODULE DiagnosticTools ----------------------------
(***************************************************************************)
(* The tools of hyrule_mcp/tools/diagnostics.py that only look: which      *)
(* commands a call issues on which hosts, one after the other or gathered, *)
(* how what it learns from one decides on the next, and what the answer    *)
(* says of them.  A command is a call of execute_args, which Executor      *)
(* models; a request to Prometheus or Icinga and a pause count as commands *)
(* too.  Only the waiting for a command is followed here: what an SSH      *)
(* session or a subprocess still does when nobody waits for it any longer  *)
(* is in Executor.  Other calls share nothing with this one but the        *)
(* executor, so one call is looked at, which the client may cancel at any  *)
(* moment.                                                                 *)
(***************************************************************************)
EXTENDS Integers, Sequences, FiniteSets, HostProfiles

CONSTANTS
  Calls,      \* what clients ask for, see CallsAssumption
  Inventory,  \* the hosts file, see HostProfiles
  MaxSources, \* settings.multi_probe_max_sources
  MaxFlows,   \* settings.ecmp_max_flows
  MaxBurst    \* settings.dns_burst_max_count

ASSUME CapsAssumption == {MaxSources, MaxFlows, MaxBurst} \subseteq Nat \ {0}

ASSUME InventoryAssumption == HostsFile(Inventory)

VARIABLES
  call,    \* the arguments
  pc,      \* how far the tool is
  steps,   \* the commands issued so far, with what came of each
  answer   \* the result as a set, which is empty if there is none

vars == <<call, pc, steps, answer>>

-------------------------------------------------------------------------------
(* What a tool runs *)

(* One request, or one command that is the same on every host.             *)
Requests == {"prometheus_query", "prometheus_list_targets",
             "icinga_list_problems", "icinga hosts", "icinga services"}

Plain == {"ssh_run_command", "frr_vtysh_cmd", "net_ping", "net_traceroute",
          "tcpdump_capture", "wg_show", "dns_dig", "knot_zone_status",
          "dmesg_tail"} \cup (Requests \ {"icinga hosts", "icinga services"})

Paths == {"path_explain", "ecmp_path_select"}

(* The tools of Script.                                                    *)
Scripted ==
  Plain \cup
    {"icinga_get_host_state", "os_systemd_status", "vault_agent_status",
     "os_journalctl", "service_restart_history", "os_rcctl_check",
     "os_service_status", "os_service_logs", "pf_log_tail", "nft_log_tail",
     "firewall_state", "ndp_state", "arp_state", "socket_listeners"}

Tools == Scripted \cup Paths \cup {"dns_probe_burst", "multi_source_probe"}

(* The tools that check a command line, a service's name or a capture.     *)
Checking == {"ssh_run_command", "frr_vtysh_cmd", "tcpdump_capture",
             "os_service_status", "os_service_logs"}

(* Only what a tool checks can be improper.                                *)
ASSUME CallsAssumption ==
  \A c \in Calls :
    /\ c.tool \in Tools
    /\ c.proper \in BOOLEAN /\ (c.proper \/ c.tool \in Checking)
    /\ c.number \in Int
    /\ c.sources \in Seq(STRING)
    /\ c.parallel \in BOOLEAN

If(supported, run) == IF supported THEN <<run>> ELSE <<>>

BSD(profile) == profile.os_family \in {"openbsd", "freebsd"}

(* As if only one of the BSDs were thought of.                             *)
NeighborsOfFreeBSD(profile, arp) ==
  IF profile.os_family = "freebsd" THEN (IF arp THEN "arp" ELSE "ndp")
  ELSE IF arp THEN "ip neigh" ELSE "ip -6 neigh"

Neighbors(profile, arp) ==
  IF BSD(profile) THEN (IF arp THEN "arp" ELSE "ndp")
  ELSE IF arp THEN "ip neigh" ELSE "ip -6 neigh"

Listeners(profile) ==
  CASE profile.os_family = "freebsd" -> "sockstat"
    [] profile.os_family = "openbsd" -> "netstat"
    [] OTHER -> "ss"

Route(profile) ==
  IF profile.os_family = "freebsd" THEN "route get" ELSE "ip -6 route get"

Routes == {"route get", "ip -6 route get"}

ServiceStatus(profile) ==
  CASE SupportsService(profile) -> <<"service">>
    [] SupportsRcctl(profile) -> <<"rcctl">>
    [] OTHER -> If(SupportsSystemd(profile), "systemctl")

ServiceLogs(profile) ==
  IF SupportsSystemd(profile) THEN <<"journalctl">>
  ELSE IF SupportsService(profile) \/ SupportsRcctl(profile)
  THEN <<"tail", "grep">> ELSE <<>>

Firewall(profile) ==
  (IF SupportsPf(profile) THEN <<"pfctl -sr", "pfctl -s Tables">> ELSE <<>>)
    \o If(SupportsNft(profile), "nft")

(* The commands of a tool whose number is fixed, in order.                 *)
Script(tool, profile) ==
  CASE tool \in Plain -> <<tool>>
    [] tool = "icinga_get_host_state" -> <<"icinga hosts", "icinga services">>
    [] tool \in {"os_systemd_status", "vault_agent_status"} ->
         If(SupportsSystemd(profile), "systemctl")
    [] tool \in {"os_journalctl", "service_restart_history"} ->
         If(SupportsSystemd(profile), "journalctl")
    [] tool = "os_rcctl_check" -> If(SupportsRcctl(profile), "rcctl")
    [] tool = "os_service_status" -> ServiceStatus(profile)
    [] tool = "os_service_logs" -> ServiceLogs(profile)
    [] tool = "pf_log_tail" -> If(SupportsPf(profile), "pflog")
    [] tool = "nft_log_tail" -> If(SupportsNft(profile), "journalctl")
    [] tool = "firewall_state" -> Firewall(profile)
    [] tool \in {"ndp_state", "arp_state"} ->
         <<Neighbors(profile, tool = "arp_state")>>
    [] tool = "socket_listeners" -> <<Listeners(profile)>>

-------------------------------------------------------------------------------
(* What came of a command *)

(* ok and failed: it ended with status zero or another and printed some-   *)
(* thing; silent and mute: the same, but it printed nothing; error: there  *)
(* is an error_result, whose stdout is None, because of the transport or   *)
(* of a deadline; raised: not even that.  via6 and via4 are routes with a  *)
(* next hop.                                                               *)
Outcomes(run) ==
  CASE run = "pause" -> {"ok"}
    [] run \in Requests -> {"ok", "error"}
    [] run = "route get" ->
         {"ok", "via4", "via6", "failed", "mute", "error", "raised"}
    [] run = "ip -6 route get" -> {"ok", "via6", "mute", "error", "raised"}
    [] OTHER -> {"ok", "silent", "failed", "mute", "error", "raised"}

Hop == {"via4", "via6"}

Succeeded(step) == step.out \in {"ok", "silent"} \cup Hop

Printed(step) == step.out \in {"ok", "failed"} \cup Hop

(* The commands whose result the tool, or a task it has gathered, waits    *)
(* for.                                                                    *)
Awaited == {i \in DOMAIN steps : steps[i].out = "awaited"}

IssuedOf(runs) == {i \in DOMAIN steps : steps[i].run \in runs}

(* An exception leaves the tool: one of the command's, or the TypeError of *)
(* _summarize_probe, which searches the output of a result that has none.  *)
Breaks(step) ==
  \/ step.out = "raised"
  \/ call.tool = "multi_source_probe" /\ step.out = "error"

Broken == \E i \in DOMAIN steps : Breaks(steps[i])

-------------------------------------------------------------------------------
(* The next commands, to be issued at once; none at the end *)

Command(host, run) == [host |-> host, run |-> run, out |-> "awaited"]

(* As if only the number were made sure to be positive.                    *)
ClampBelow(n, limit) == IF n < 1 THEN 1 ELSE n

(* max(1, min(n, limit))                                                   *)
Clamp(n, limit) == IF n < 1 THEN 1 ELSE IF n > limit THEN limit ELSE n

(* The sources of a probe that are not left out.                           *)
Sources ==
  SubSeq(call.sources, 1,
         IF Len(call.sources) > MaxSources THEN MaxSources
         ELSE Len(call.sources))

(* path_explain is one flow.  The neighbor is looked up after every route  *)
(* that names one; it is an ARP neighbor only if the hop has a dot in it.  *)
NextOfPath(profile) ==
  LET flows == IF call.tool = "path_explain" THEN 1
               ELSE Clamp(call.number, MaxFlows)
  IN IF steps # <<>> /\ Last(steps).out \in Hop
     THEN <<Neighbors(profile, Last(steps).out = "via4")>>
     ELSE If(Cardinality(IssuedOf(Routes)) < flows, Route(profile))

NextOfBurst ==
  IF steps # <<>> /\ Last(steps).run = "dns_dig"
  THEN If(Cardinality(IssuedOf({"dns_dig"})) < Clamp(call.number, MaxBurst),
          "pause")
  ELSE <<"dns_dig">>

(* The script goes on to the fallback of a log that was not found, and     *)
(* stops at a request that failed.                                         *)
NextOfScript(profile) ==
  LET script == Script(call.tool, profile)
      stops == /\ steps # <<>>
               /\ \/ /\ call.tool = "os_service_logs"
                     /\ Succeeded(Last(steps))
                  \/ /\ call.tool = "icinga_get_host_state"
                     /\ ~Succeeded(Last(steps))
  IN IF stops \/ Len(steps) = Len(script) THEN <<>>
     ELSE <<script[Len(steps) + 1]>>

(* gather starts all probes, the comprehension one after the other.        *)
NextOfProbe ==
  LET gathers == call.parallel /\ Len(Sources) > 1
      sources == IF Len(steps) = Len(Sources) THEN <<>>
                 ELSE IF gathers THEN Sources ELSE <<Sources[Len(steps) + 1]>>
  IN [i \in DOMAIN sources |-> Command(sources[i], "probe")]

(* A command line, a service's name or a capture may not pass the tool's   *)
(* own check; then nothing is run.                                         *)
Following ==
  LET profile == Resolve(Inventory, call.host)
      runs == CASE ~call.proper -> <<>>
                [] call.tool \in Paths -> NextOfPath(profile)
                [] call.tool = "dns_probe_burst" -> NextOfBurst
                [] OTHER -> NextOfScript(profile)
  IN IF call.tool = "multi_source_probe" THEN NextOfProbe
     ELSE [i \in DOMAIN runs |-> Command(call.host, runs[i])]

Issue ==
  /\ pc = "running" /\ Awaited = {} /\ ~Broken
  /\ Following # <<>>
  /\ steps' = steps \o Following
  /\ UNCHANGED <<call, pc, answer>>

(* execute_args returns or raises.  A probe that was gathered may do so    *)
(* after its siblings' call has ended.                                     *)
Finish(i) ==
  /\ i \in Awaited
  /\ \E out \in Outcomes(steps[i].run) :
       steps' = [steps EXCEPT ![i].out = out]
  /\ UNCHANGED <<call, pc, answer>>

-------------------------------------------------------------------------------
(* The end of a call *)

(* These say that they have completed whatever came of their commands.     *)
Reports == Paths \cup {"ndp_state", "arp_state", "multi_source_probe",
                      "dns_probe_burst", "vault_agent_status"}

Ok ==
  CASE call.tool \in Reports -> TRUE
    [] call.tool \in {"firewall_state", "service_restart_history"} ->
         steps # <<>>
    [] OTHER -> steps # <<>> /\ Succeeded(Last(steps))

(* As if a command that printed something were taken to have succeeded.    *)
ToldByPrint(step) == Printed(step)

(* A flow is judged by what was printed of its route, all else by the exit *)
(* status.                                                                 *)
Told(step) ==
  IF call.tool = "ecmp_path_select" THEN Printed(step) ELSE Succeeded(step)

(* The commands of which an answer says whether they succeeded.            *)
Reported ==
  CASE call.tool \in {"ndp_state", "arp_state", "path_explain"} -> {}
    [] call.tool = "ecmp_path_select" -> IssuedOf(Routes)
    [] call.tool = "dns_probe_burst" -> IssuedOf({"dns_dig"})
    [] OTHER -> DOMAIN steps

(* dict(pairs) keeps the last of the probes of a source.                   *)
Rows ==
  IF call.tool = "multi_source_probe"
  THEN [source \in Range(Sources) |->
          Told(steps[SelectLastInSeq(steps, LAMBDA step : step.host = source)])]
  ELSE [i \in Reported |-> Told(steps[i])]

(* As if the call waited for as many rows as it was given sources.         *)
ReturnWhenAllTold ==
  /\ pc = "running" /\ Awaited = {} /\ ~Broken
  /\ Following = <<>>
  /\ Len(call.sources) = Cardinality(Range(Sources))
  /\ pc' = "returned"
  /\ answer' = {[ok |-> Ok, rows |-> Rows]}
  /\ UNCHANGED <<call, steps>>

Return ==
  /\ pc = "running" /\ Awaited = {} /\ ~Broken
  /\ Following = <<>>
  /\ pc' = "returned"
  /\ answer' = {[ok |-> Ok, rows |-> Rows]}
  /\ UNCHANGED <<call, steps>>

(* As if the exception were swallowed, and None returned.                  *)
RaiseSilently ==
  /\ pc = "running" /\ Broken
  /\ pc' = "returned"
  /\ UNCHANGED <<call, steps, answer>>

(* gather passes on the first exception and leaves its other tasks alone.  *)
Raise ==
  /\ pc = "running" /\ Broken
  /\ pc' = "raised"
  /\ UNCHANGED <<call, steps, answer>>

CancelOneself ==
  /\ pc = "running"
  /\ pc' = "cancelled"
  /\ UNCHANGED <<call, steps, answer>>

(* The client cancels the call, and with it whatever the call waits for:   *)
(* execute_args gives up.                                                  *)
Cancel ==
  /\ pc = "running"
  /\ pc' = "cancelled"
  /\ steps' = [i \in DOMAIN steps |->
                 IF i \in Awaited THEN [steps[i] EXCEPT !.out = "abandoned"]
                 ELSE steps[i]]
  /\ UNCHANGED <<call, answer>>

Init ==
  /\ call \in Calls
  /\ pc = "running"
  /\ steps = <<>>
  /\ answer = {}

Proceed == Issue \/ Return \/ Raise

Next == Proceed \/ Cancel \/ \E i \in DOMAIN steps : Finish(i)

Spec == Init /\ [][Next]_vars

(* The event loop runs a tool that has nothing to wait for.  The wait for  *)
(* a command ends because of its deadline, see EveryCallEnds of Executor,  *)
(* and a pause of itself.  A request ends if the server does not keep it   *)
(* up for ever: the ten seconds that httpx is given are for connecting and *)
(* for every piece of the response, not for the whole of it.               *)
Fairness == WF_vars(Proceed) /\ WF_vars(\E i \in DOMAIN steps : Finish(i))

FairSpec == Spec /\ Fairness

-------------------------------------------------------------------------------
(* Properties *)

(* A call has issued commands that have come to something a command can    *)
(* come to, and its answer, if it has one, consists of truth values.       *)
TypeOK ==
  /\ call \in Calls
  /\ pc \in {"running", "returned", "raised", "cancelled"}
  /\ \A i \in DOMAIN steps :
       steps[i].out \in Outcomes(steps[i].run) \cup {"awaited", "abandoned"}
  /\ (answer # {}) <=> (pc = "returned")
  /\ \A result \in answer :
       /\ result.ok \in BOOLEAN
       /\ \A label \in DOMAIN result.rows : result.rows[label] \in BOOLEAN

(* An answer that claims success says of every command that failed that it *)
(* failed, and of no command that succeeded: no probe's failure is put     *)
(* down to another source, none is lost among flows or bursts.  There are  *)
(* four exceptions.  It says nothing of neighbor tables that could not be  *)
(* read (lines 589 and 597), nor, as an explanation of a path, of a route  *)
(* that could not be found (639 to 656); a flow's route that was printed   *)
(* by a failing command is taken for one (666); and of a source that is    *)
(* given twice the last probe only is known (622).                         *)
AnswerIsTrue ==
  \A result \in answer :
    result.ok => \A i \in DOMAIN steps :
      LET probe == call.tool = "multi_source_probe"
          label == IF probe THEN steps[i].host ELSE i
          says == label \in DOMAIN result.rows
          overwritten == \E j \in DOMAIN steps :
                           probe /\ j > i /\ steps[j].host = steps[i].host
      IN /\ steps[i].out \notin {"ok", "silent", "via4", "via6"} =>
              \/ says /\ ~result.rows[label]
              \/ steps[i].run \in {"arp", "ndp", "ip neigh", "ip -6 neigh"}
              \/ call.tool = "path_explain"
              \/ steps[i].run \in Routes /\ steps[i].out = "failed"
              \/ overwritten
         /\ steps[i].out \in {"ok", "via4", "via6"} /\ says =>
              result.rows[label] \/ overwritten

(* Nothing is waited for on behalf of a call that has answered or was      *)
(* cancelled: no task is left behind that takes a slot of the executor and *)
(* whose result nobody will see.  Only the probes that were gathered with  *)
(* one that raised are waited for still, by tasks that nobody waits for in *)
(* turn (line 619).  It is not said that nothing goes on: a session whose  *)
(* command was cancelled or has timed out may, see NoJobBegunLate and      *)
(* FanOutCapped of Executor.                                               *)
NothingStillAwaited ==
  Awaited # {} =>
    \/ pc = "running"
    \/ pc = "raised" /\ call.tool = "multi_source_probe" /\ call.parallel

(* Whatever number is asked for, none or a huge one included, no call      *)
(* probes from more sources, asks for more routes or names, or asks twice  *)
(* without a pause in between than the settings allow; and a request that  *)
(* stays within them is met in full (README.md, lines 82 to 87).           *)
WithinCaps ==
  LET Met(tool, runs, wanted, limit) ==
        LET issued == Cardinality(IssuedOf(runs))
        IN call.tool = tool =>
             /\ issued <= limit
             /\ pc = "returned" /\ wanted <= limit => issued >= wanted
             /\ pc = "returned" /\ wanted > limit => issued = limit
  IN /\ Met("multi_source_probe", {"probe"}, Len(call.sources), MaxSources)
     /\ Met("ecmp_path_select", Routes, call.number, MaxFlows)
     /\ Met("dns_probe_burst", {"dns_dig"}, call.number, MaxBurst)
     /\ call.tool = "dns_probe_burst" =>
          \A i \in DOMAIN steps : i > 1 => steps[i - 1].run # steps[i].run
     /\ pc = "returned" /\ call.proper /\ call.sources = <<>>
          /\ call.tool \in Paths \cup {"dns_probe_burst"} => steps # <<>>

(* On a host that the hosts file describes, by whatever name it is called, *)
(* a tool runs only what the host's operating system has.  The exception   *)
(* is the route that path_explain asks of OpenBSD in the words of Linux    *)
(* (line 632).                                                             *)
CommandsSuitHost ==
  LET Linux == {"systemctl", "journalctl", "nft", "ss", "ip neigh",
                "ip -6 neigh", "ip -6 route get"}
      FreeBSD == {"service", "sockstat", "route get"}
      OpenBSD == {"rcctl", "netstat"}
      Either == {"pfctl -sr", "pfctl -s Tables", "pflog", "arp", "ndp"}
      Foreign == [linux |-> FreeBSD \cup OpenBSD \cup Either,
                  freebsd |-> Linux \cup OpenBSD,
                  openbsd |-> (Linux \cup FreeBSD) \ {"ip -6 route get"}]
      named == {entry \in Range(Inventory) : call.host = entry.name}
      aliased == {entry \in Range(Inventory) : call.host \in entry.aliases}
  IN \A entry \in IF named # {} THEN named ELSE aliased, i \in DOMAIN steps :
       steps[i].run \notin Foreign[Default(entry.os, "linux")]

(* Every call ends, if no probe waits for what never comes.                *)
EveryToolEnds == <>(pc # "running")

-------------------------------------------------------------------------------
(* A claim of the documentation that the code does not keep *)

(* server.py: the server's tools "return bounded structured telemetry";    *)
(* tests/test_mcp_server.py: a transport error is a result.  So a tool     *)
(* ends in an exception only if a command did.                             *)
RaisesOnlyIfRaised ==
  pc = "raised" => \E i \in DOMAIN steps : steps[i].out = "raised"

===============================================================================
