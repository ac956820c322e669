--------------------------- MODULE MCDiagnosticTools ---------------------------
(* An instance of DiagnosticTools small enough for TLC.                    *)
EXTENDS DiagnosticTools

(* A host of every system, each under its name or an alias; the first      *)
(* entry has an alias that is the name of the second; nobody has described *)
(* "lab".                                                                  *)
SomeInventory ==
  LET Entry(name, os, aliases) ==
        [name |-> name, os |-> os, init_system |-> None, firewall |-> None,
         aliases |-> aliases]
  IN <<Entry("noc", None, {"rtr"}), Entry("rtr", "openbsd", {}),
       Entry("fw", "freebsd", {"edge"})>>

SomeHosts == {"noc", "rtr", "edge", "lab"}

Some(tool) ==
  [tool |-> tool, host |-> "noc", proper |-> TRUE, number |-> 1,
   sources |-> <<>>, parallel |-> FALSE]

(* The tools that ask what their host can do.                              *)
Adapting ==
  {"os_systemd_status", "vault_agent_status", "os_journalctl",
   "service_restart_history", "os_rcctl_check", "os_service_status",
   "os_service_logs", "pf_log_tail", "nft_log_tail", "firewall_state",
   "ndp_state", "arp_state", "socket_listeners", "path_explain"}

(* No source, more than allowed, and one that is given twice.              *)
SomeSources ==
  {<<>>, <<"noc">>, <<"noc", "rtr", "noc">>, <<"rtr", "edge", "lab">>,
   <<"noc", "rtr", "edge", "lab">>}

SomeCalls ==
  {Some(tool) : tool \in Plain \cup {"icinga_get_host_state"}}
    \cup {[Some(tool) EXCEPT !.proper = FALSE] : tool \in Checking}
    \cup {[Some(tool) EXCEPT !.host = host] :
            tool \in Adapting, host \in SomeHosts}
    \cup {[Some("ecmp_path_select") EXCEPT !.host = host, !.number = n] :
            host \in SomeHosts, n \in {-1, 0, 2, 9}}
    \cup {[Some("dns_probe_burst") EXCEPT !.number = n] : n \in {-1, 0, 2, 9}}
    \cup {[Some("multi_source_probe") EXCEPT !.sources = sources,
                                             !.parallel = parallel] :
            sources \in SomeSources, parallel \in BOOLEAN}

===============================================================================
