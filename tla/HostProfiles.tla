------------------------------ MODULE HostProfiles ------------------------------
(***************************************************************************)
(* Host profiles of hyrule_mcp/settings.py: what the hosts file leaves     *)
(* out, how a name a caller gives finds its profile, and what a profile    *)
(* says its host can do.  The hosts file is a sequence of entries in the   *)
(* order in which it lists them; None is what an entry does not mention.   *)
(***************************************************************************)
EXTENDS Sequences, SequencesExt

CONSTANT None

ASSUME NoneAssumption == None \notin {"linux", "openbsd", "freebsd"}

HostEntry ==
  [name : STRING, os : STRING \cup {None}, init_system : STRING \cup {None},
   firewall : STRING \cup {None}, aliases : SUBSET STRING]

(* The hosts file is a mapping: no name is described twice.                *)
HostsFile(hosts) ==
  /\ hosts \in Seq(HostEntry)
  /\ \A i, j \in DOMAIN hosts : hosts[i].name = hosts[j].name => i = j

DefaultInitSystem(os) ==
  CASE os = "openbsd" -> "rcctl"
    [] os = "freebsd" -> "service"
    [] OTHER -> "systemd"

DefaultFirewall(os) == IF os \in {"openbsd", "freebsd"} THEN "pf" ELSE "nft"

Default(given, default) == IF given = None THEN default ELSE given

Profile(entry) ==
  LET os == Default(entry.os, "linux")
  IN [name |-> entry.name, os_family |-> os, aliases |-> entry.aliases,
      init_system |-> Default(entry.init_system, DefaultInitSystem(os)),
      firewall |-> Default(entry.firewall, DefaultFirewall(os))]

(* A host that nobody has described.                                       *)
Unknown(host) ==
  Profile([name |-> host, os |-> None, init_system |-> None,
           firewall |-> None, aliases |-> {}])

(* As if the hosts were searched once, by name and alias together.         *)
ResolveInOrder(hosts, host) ==
  LET found == SelectInSeq(hosts, LAMBDA entry :
                                    host = entry.name \/ host \in entry.aliases)
  IN IF found # 0 THEN Profile(hosts[found]) ELSE Unknown(host)

(* A name goes before an alias, an earlier alias before a later one.       *)
Resolve(hosts, host) ==
  LET named == SelectInSeq(hosts, LAMBDA entry : host = entry.name)
      aliased == SelectInSeq(hosts, LAMBDA entry : host \in entry.aliases)
  IN IF named # 0 THEN Profile(hosts[named])
     ELSE IF aliased # 0 THEN Profile(hosts[aliased])
     ELSE Unknown(host)

SupportsSystemd(profile) ==
  profile.init_system = "systemd" \/ profile.os_family = "linux"

SupportsRcctl(profile) ==
  profile.init_system = "rcctl" \/ profile.os_family = "openbsd"

SupportsService(profile) ==
  profile.init_system = "service" \/ profile.os_family = "freebsd"

SupportsPf(profile) ==
  profile.firewall = "pf" \/ profile.os_family \in {"openbsd", "freebsd"}

SupportsNft(profile) ==
  profile.firewall = "nft" \/ profile.os_family = "linux"

===============================================================================
