------------------------------ MODULE ActionTools ------------------------------
(***************************************************************************)
(* The tools that change something: the restarts and the acknowledgement   *)
(* of hyrule_mcp/tools/diagnostics.py and the guard tools of               *)
(* hyrule_mcp/tools/rollback.py, from the feature flag through the         *)
(* authorization to the effect.  A guard tool takes effect at once.  The   *)
(* others wait, for a slot of the executor or for the network, so their    *)
(* effect comes later than the check, if at all.                           *)
(***************************************************************************)
EXTENDS ActionAuth, HostProfiles

CONSTANTS
  Settings,  \* settings a server may have been started with
  Hosts,     \* hosts that callers name; "" is no host
  Services,  \* services that callers name; "" is no service
  SafeName,  \* what _safe_service_name makes of a service
  Unsafe,    \* it raises
  Payloads,  \* authorizations that callers supply
  Ttls,      \* times to live that callers ask for; 0 is none
  Inventory, \* the hosts file
  MaxTime    \* bound on the clock

Time == 0 .. MaxTime

ASSUME ToolsAssumption ==
  /\ MaxTime \in Nat
  /\ "" \in Hosts /\ "" \in Services
  /\ 0 \in Ttls /\ Ttls \subseteq Int
  /\ \A s \in Settings : s.ttl \in Int
  /\ \A payload \in Payloads : payload.expiry \in Int \cup {Garbled, Infinite}
  /\ HostsFile(Inventory)

(* A name is stripped and must then not be empty; the names on the allow   *)
(* lists have been stripped by _csv_set.                                   *)
ASSUME StripAssumption ==
  /\ SafeName \in [Services -> Services \cup {Unsafe}]
  /\ SafeName[""] = Unsafe
  /\ \A s \in Settings : \A name \in s.action.services \cap Services :
       SafeName[name] \in {name, Unsafe}

VARIABLES
  clock,     \* time.time(), in ticks
  settings,  \* SETTINGS, frozen at the start
  call,      \* the call: what was asked, what was found and when
  effect     \* what the call has brought about, if anything

vars == <<clock, settings, call, effect>>

Restarts == {"os_systemd_restart", "os_service_restart"}

Acknowledgement == "icinga_acknowledge_alert"

Decisions == {"confirm_change", "rollback_change"}

GuardTools == Decisions \cup {"prepare_commit_confirm"}

Tools == Restarts \cup GuardTools \cup {Acknowledgement}

ActionClass(tool) ==
  IF tool \in Restarts THEN "restart_service"
  ELSE IF tool \in GuardTools THEN "noop_rollback_guard"
  ELSE "acknowledge_icinga"

(* As if validate_action_authorization were the gate of every tool.        *)
EnabledByActions(tool) == settings.actions

Enabled(tool) ==
  IF tool \in GuardTools THEN settings.guards ELSE settings.actions

(* As if the acknowledgement's lists were passed for the restarts, too.    *)
AllowListsOfAck(tool) ==
  IF tool \in GuardTools THEN settings.action ELSE settings.ack

AllowLists(tool) ==
  IF tool = Acknowledgement THEN settings.ack ELSE settings.action

(* A decision names a guard, not a host.                                   *)
NamedHost(tool, host) == IF tool \in Decisions THEN "" ELSE host

NamedService(tool, service) == IF tool \in Decisions THEN "" ELSE service

(* Only for a guard that is to be prepared is there a time to ask for.     *)
TtlsFor(tool) == IF tool = "prepare_commit_confirm" THEN Ttls ELSE {0}

-------------------------------------------------------------------------------

VerdictOn(tool, host, service, payload) ==
  Verdict(ActionClass(tool), NamedHost(tool, host),
          NamedService(tool, service), AllowLists(tool), payload,
          settings.secret, clock)

(* The program that restarts services on this host, if there is any.       *)
Manager(tool, profile) ==
  IF tool = "os_systemd_restart"
  THEN IF SupportsSystemd(profile) THEN "systemctl" ELSE None
  ELSE CASE SupportsService(profile) -> "service"
         [] SupportsRcctl(profile) -> "rcctl"
         [] SupportsSystemd(profile) -> "systemctl"
         [] OTHER -> None

Runs(tool, host, service) ==
  /\ SafeName[service] # Unsafe
  /\ Manager(tool, Resolve(Inventory, host)) # None

(* The effect of a restart: on which host and by which program.            *)
Restart(tool, host, service) ==
  LET profile == Resolve(Inventory, host)
  IN [host |-> host, service |-> SafeName[service], on |-> profile.name,
      by |-> Manager(tool, profile), ttl |-> 0]

Acknowledge(host, service) ==
  [host |-> host, service |-> service, on |-> host, by |-> "icinga", ttl |-> 0]

GuardTtl(ttl) == IF ttl > 0 THEN ttl ELSE settings.ttl

(* Of a decision's guard only the id is known here.                        *)
ChangeGuard(tool, host, service, ttl) ==
  [host |-> NamedHost(tool, host), service |-> NamedService(tool, service),
   on |-> NamedHost(tool, host), by |-> "store",
   ttl |-> IF tool \in Decisions THEN 0 ELSE GuardTtl(ttl)]

(* As if a refusal were told without its reason.                           *)
AskedWithoutReason(tool, host, service, ttl, payload, pc, verdict) ==
  [pc |-> pc, tool |-> tool, host |-> NamedHost(tool, host),
   service |-> NamedService(tool, service), ttl |-> ttl, payload |-> payload,
   at |-> clock,
   verdict |-> IF verdict = "accepted" THEN verdict ELSE None]

Asked(tool, host, service, ttl, payload, pc, verdict) ==
  [pc |-> pc, tool |-> tool, host |-> NamedHost(tool, host),
   service |-> NamedService(tool, service), ttl |-> ttl, payload |-> payload,
   verdict |-> verdict, at |-> clock]

Refuse(tool, host, service, ttl, payload) ==
  LET verdict == IF Enabled(tool) THEN VerdictOn(tool, host, service, payload)
                 ELSE "disabled"
  IN /\ call.pc = "idle"
     /\ verdict # "accepted"
     /\ call' = Asked(tool, host, service, ttl, payload, "ended", verdict)
     /\ UNCHANGED <<clock, settings, effect>>

(* The gate has let the call through.                                      *)
Passes(tool, host, service, payload) ==
  /\ call.pc = "idle"
  /\ Enabled(tool)
  /\ VerdictOn(tool, host, service, payload) = "accepted"

(* prepare_guard, confirm_guard or rollback_guard; the store may reject it *)
(* or raise, see GuardStore, and rejects a TTL that is not positive.       *)
UseStore(tool, host, service, ttl, payload) ==
  /\ tool \in GuardTools
  /\ Passes(tool, host, service, payload)
  /\ call' = Asked(tool, host, service, ttl, payload, "ended", "accepted")
  /\ \/ effect' = effect
     \/ /\ tool \in Decisions \/ GuardTtl(ttl) > 0
        /\ effect' = ChangeGuard(tool, host, service, ttl)
  /\ UNCHANGED <<clock, settings>>

(* The service's name turns out to be unsafe, or the host to have no       *)
(* command for the restart.                                                *)
Decline(tool, host, service, ttl, payload) ==
  /\ tool \in Restarts
  /\ Passes(tool, host, service, payload)
  /\ ~Runs(tool, host, service)
  /\ call' = Asked(tool, host, service, ttl, payload, "ended", "accepted")
  /\ UNCHANGED <<clock, settings, effect>>

Submit(tool, host, service, ttl, payload) ==
  /\ tool \notin GuardTools
  /\ Passes(tool, host, service, payload)
  /\ tool \in Restarts => Runs(tool, host, service)
  /\ call' = Asked(tool, host, service, ttl, payload, "waiting", "accepted")
  /\ UNCHANGED <<clock, settings, effect>>

(* The restart command starts on the host, or the POST reaches Icinga.     *)
TakeEffect ==
  /\ call.pc = "waiting"
  /\ call' = [call EXCEPT !.pc = "ended"]
  /\ effect' = IF call.tool \in Restarts
               THEN Restart(call.tool, call.host, call.service)
               ELSE Acknowledge(call.host, call.service)
  /\ UNCHANGED <<clock, settings>>

(* A failure, a timeout or the client's cancellation comes first.          *)
GiveUp ==
  /\ call.pc = "waiting"
  /\ call' = [call EXCEPT !.pc = "ended"]
  /\ UNCHANGED <<clock, settings, effect>>

Tick ==
  /\ clock < MaxTime
  /\ clock' = clock + 1
  /\ UNCHANGED <<settings, call, effect>>

Init ==
  /\ clock = 0
  /\ settings \in Settings
  /\ call = [pc |-> "idle", tool |-> None, host |-> "", service |-> "",
             ttl |-> 0, payload |-> None, verdict |-> "none", at |-> 0]
  /\ effect = None

Next ==
  \/ \E tool \in Tools, host \in Hosts, service \in Services,
        payload \in Payloads : \E ttl \in TtlsFor(tool) :
       \/ Refuse(tool, host, service, ttl, payload)
       \/ UseStore(tool, host, service, ttl, payload)
       \/ Decline(tool, host, service, ttl, payload)
       \/ Submit(tool, host, service, ttl, payload)
  \/ TakeEffect \/ GiveUp \/ Tick

Spec == Init /\ [][Next]_vars

-------------------------------------------------------------------------------

(* A call names a tool and is told the verdict on it, and whatever has     *)
(* been brought about concerns a host and a service it could have named.   *)
TypeOK ==
  /\ clock \in Time
  /\ settings \in Settings
  /\ call.pc \in {"idle", "waiting", "ended"}
  /\ call.pc # "idle" =>
       /\ call.tool \in Tools
       /\ call.host \in Hosts
       /\ call.service \in Services
       /\ call.ttl \in Ttls
       /\ call.payload \in Payloads
       /\ call.verdict \in {Reasons[i] : i \in DOMAIN Reasons}
                            \cup {"accepted", "disabled"}
       /\ call.at \in 0 .. clock
  /\ effect # None =>
       /\ effect.host \in Hosts
       /\ effect.service \in Services
       /\ effect.on \in {entry.name : entry \in Range(Inventory)} \cup Hosts
       /\ effect.by \in {"systemctl", "rcctl", "service", "icinga", "store"}
       /\ effect.ttl \in Int

(* Nothing is restarted, acknowledged, prepared or decided, at once or     *)
(* after a wait, unless the switch for that kind of tool is on and a       *)
(* complete authorization of the tool's own class was signed with the      *)
(* configured secret: the two gates of tools/rollback.py and               *)
(* validate_action_authorization must not open for each other's tools, and *)
(* no reason may be passed over for standing behind another.               *)
EffectIsSigned ==
  effect # None =>
    /\ IF call.tool \in GuardTools THEN settings.guards ELSE settings.actions
    /\ settings.secret
    /\ call.payload.given /\ call.payload.complete
    /\ call.payload.signature = "genuine"
    /\ call.payload.class = CASE call.tool \in Restarts -> "restart_service"
                              [] call.tool = Acknowledgement ->
                                   "acknowledge_icinga"
                              [] OTHER -> "noop_rollback_guard"

(* The hosts that a name on an allow list stands for: the one that bears   *)
(* it, or else those that have it among their aliases, or else a host that *)
(* nobody has described.                                                   *)
StandsFor(name) ==
  LET named == {entry \in Range(Inventory) : name = entry.name}
      aliased == {entry \in Range(Inventory) : name \in entry.aliases}
  IN CASE named # {} -> {name}
       [] named = {} /\ aliased # {} -> {entry.name : entry \in aliased}
       [] OTHER -> {name}

(* The service really restarted, on the host really reached, is within the *)
(* allow lists.  They are applied to the names the caller gave; but the    *)
(* service's name is stripped, and the host's looked up in the hosts file, *)
(* only after that.  So whenever the lists name any, the service is on its *)
(* list as it is restarted, and the host is one that a name on its list    *)
(* stands for: an alias on the list allows the host behind it, and not one *)
(* that has another host's name for an alias.  An acknowledgement is held  *)
(* against its own lists, a prepared guard against those of the restarts,  *)
(* by the names they are given.  A host that is not named is not looked up *)
(* in any list.                                                            *)
EffectWithinLists ==
  effect # None =>
    LET lists == IF call.tool = Acknowledgement THEN settings.ack
                 ELSE settings.action
        AnyName(list) == list = {} \/ "*" \in list
    IN /\ \/ AnyName(lists.services)
          \/ effect.service \in lists.services \cup {""}
       /\ \/ AnyName(lists.hosts)
          \/ IF call.tool \in Restarts
             THEN \/ call.host = ""
                  \/ \E name \in lists.hosts : effect.on \in StandsFor(name)
             ELSE effect.on \in lists.hosts \cup {""}

(* A restart reaches the host that bears the name the caller gave, or else *)
(* one that has it among its aliases, and is spoken to in the words of its *)
(* own operating system; a host nobody has described counts as Linux.  A   *)
(* guard is prepared for the time asked for, and where none was asked for, *)
(* or an impossible one, for the configured time; never for no time.       *)
EffectAsAsked ==
  effect # None =>
    CASE call.tool \in Restarts ->
           LET called == {entry \in Range(Inventory) :
                            effect.host \in {entry.name} \cup entry.aliases}
               named == {entry \in called : effect.host = entry.name}
               on == {entry \in called : effect.on = entry.name}
           IN /\ IF named # {} THEN on \subseteq named ELSE on \subseteq called
              /\ called # {} => on # {}
              /\ \A entry \in on :
                   effect.by = CASE entry.os = "openbsd" -> "rcctl"
                                 [] entry.os = "freebsd" -> "service"
                                 [] OTHER -> "systemctl"
              /\ called = {} => /\ effect.on = effect.host
                               /\ effect.by = "systemctl"
      [] call.tool = "prepare_commit_confirm" ->
           /\ effect.ttl = IF call.ttl > 0 THEN call.ttl ELSE settings.ttl
           /\ effect.ttl > 0
      [] OTHER -> TRUE

(* The comparison of whole seconds errs by less than a second, and to the  *)
(* caller's advantage: an authorization is never refused as expired before *)
(* its last moment, and never accepted a full second after it.             *)
ExpiryWithinASecond ==
  /\ call.verdict = "accepted" =>
       call.at < call.payload.expiry + TicksPerSecond
  /\ call.verdict = "expired" => call.at > call.payload.expiry

===============================================================================
