------------------------- MODULE DiagnosticToolsProofs -------------------------
(***************************************************************************)
(* What holds of DiagnosticTools for all calls, hosts files and caps.      *)
(***************************************************************************)
EXTENDS DiagnosticTools, HostProfilesProofs, FiniteSetTheorems

HostProfile == Resolve(Inventory, call.host)

(* The commands a tool may have to run.                                    *)
MayRun ==
  CASE call.tool = "multi_source_probe" -> {"probe"}
    [] call.tool = "dns_probe_burst" -> {"dns_dig", "pause"}
    [] call.tool \in Paths -> {Route(HostProfile), Neighbors(HostProfile, TRUE),
                               Neighbors(HostProfile, FALSE)}
    [] OTHER -> Range(Script(call.tool, HostProfile))

Outs == {"awaited", "abandoned", "ok", "silent", "failed", "mute", "error",
         "raised"} \cup Hop

Step == [host : {call.host} \cup Range(call.sources), run : MayRun, out : Outs]

Gathers ==
  call.tool = "multi_source_probe" /\ call.parallel /\ Len(Sources) > 1

Count(runs) == Cardinality(IssuedOf(runs))

(* Every command came to something it can come to; it was abandoned only   *)
(* if the call was cancelled.                                              *)
Outcome ==
  /\ steps \in Seq(Step)
  /\ \A i \in DOMAIN steps :
       /\ steps[i].out \in Outcomes(steps[i].run) \cup {"awaited", "abandoned"}
       /\ steps[i].out = "abandoned" => pc = "cancelled"

(* Without gather one command is waited for before the next is issued, and *)
(* none is issued after one that raised.                                   *)
OneByOne ==
  ~Gathers => \A i \in DOMAIN steps :
                steps[i].out = "awaited" \/ Breaks(steps[i]) => i = Len(steps)

(* The commands are those of the tool, in order.                           *)
InScript ==
  call.tool \in Scripted => Len(steps) <= Len(Script(call.tool, HostProfile))

InProbe ==
  call.tool = "multi_source_probe" =>
    /\ Len(steps) <= Len(Sources)
    /\ Gathers => Len(steps) \in {0, Len(Sources)}
    /\ \A i \in DOMAIN steps : steps[i].host = Sources[i]

Flows ==
  IF call.tool = "path_explain" THEN 1 ELSE Clamp(call.number, MaxFlows)

InPath == call.tool \in Paths => Count(Routes) <= Flows

(* A pause is followed by another question, so there must be one left.     *)
InBurst ==
  call.tool = "dns_probe_burst" =>
    /\ Count({"dns_dig"}) <= Clamp(call.number, MaxBurst)
    /\ steps # <<>> /\ Last(steps).run = "pause" =>
         Count({"dns_dig"}) < Clamp(call.number, MaxBurst)
    /\ \A i \in DOMAIN steps : i > 1 => steps[i - 1].run # steps[i].run

(* An answer is given when there is nothing left to do, on what was done.  *)
Answers ==
  IF pc = "returned"
  THEN /\ Awaited = {} /\ ~Broken /\ Following = <<>>
       /\ answer = {[ok |-> Ok, rows |-> Rows]}
  ELSE answer = {}

(* After a call only what was gathered with what raised is waited for.     *)
Quiet ==
  /\ pc = "cancelled" => Awaited = {}
  /\ pc = "raised" => Broken

(* The inductive invariant.                                                *)
IInv ==
  /\ call \in Calls
  /\ pc \in {"running", "returned", "raised", "cancelled"}
  /\ Outcome /\ OneByOne
  /\ InScript /\ InProbe /\ InPath /\ InBurst
  /\ Answers /\ Quiet

-------------------------------------------------------------------------------
(* What a tool may run *)

LEMMA CallTyped ==
  ASSUME call \in Calls
  PROVE  /\ call.tool \in Tools
         /\ call.proper \in BOOLEAN /\ (call.proper \/ call.tool \in Checking)
         /\ call.number \in Int
         /\ call.sources \in Seq(STRING)
         /\ call.parallel \in BOOLEAN
BY CallsAssumption, Zenon

LEMMA CapsTyped ==
  /\ MaxSources \in Nat \ {0} /\ MaxFlows \in Nat \ {0}
  /\ MaxBurst \in Nat \ {0}
BY CapsAssumption

LEMMA ToolsApart ==
  /\ Tools = Scripted \cup Paths \cup {"dns_probe_burst", "multi_source_probe"}
  /\ Paths \cap Scripted = {}
  /\ {"dns_probe_burst", "multi_source_probe"} \cap (Scripted \cup Paths) = {}
  /\ Checking \subseteq Scripted
<1>1. Tools = Scripted \cup Paths \cup {"dns_probe_burst", "multi_source_probe"}
  BY DEF Tools
<1>2. Paths \cap Scripted = {}
  BY DEF Paths, Scripted, Plain, Requests
<1>3. {"dns_probe_burst", "multi_source_probe"} \cap (Scripted \cup Paths) = {}
  BY DEF Paths, Scripted, Plain, Requests
<1>4. Checking \subseteq Scripted
  BY DEF Checking, Scripted, Plain, Requests
<1> QED
  BY <1>1, <1>2, <1>3, <1>4

LEMMA ClampBounds ==
  ASSUME NEW n \in Int, NEW limit \in Nat \ {0}
  PROVE  /\ Clamp(n, limit) \in 1 .. limit
         /\ n <= limit => Clamp(n, limit) >= n
         /\ n > limit => Clamp(n, limit) = limit
BY DEF Clamp

LEMMA FlowsTyped ==
  ASSUME call \in Calls
  PROVE  Flows \in Nat \ {0}
<1>1. Clamp(call.number, MaxFlows) \in 1 .. MaxFlows /\ MaxFlows \in Nat
  BY CallTyped, CapsTyped, ClampBounds
<1> QED
  BY <1>1 DEF Flows

LEMMA SourcesTyped ==
  ASSUME call \in Calls
  PROVE  /\ Sources \in Seq(Range(call.sources))
         /\ Len(Sources) = IF Len(call.sources) > MaxSources THEN MaxSources
                           ELSE Len(call.sources)
<1>1. call.sources \in Seq(STRING) /\ MaxSources \in Nat
  BY CallTyped, CapsTyped
<1>2. call.sources \in Seq(Range(call.sources))
  BY <1>1 DEF Range
<1> QED
  BY <1>1, <1>2 DEF Sources

(* The scripts are sequences.                                              *)
LEMMA Words ==
  ASSUME NEW S, NEW a \in S, NEW b \in S
  PROVE  <<>> \in Seq(S) /\ <<a>> \in Seq(S) /\ <<a, b>> \in Seq(S)
OBVIOUS

LEMMA OneWord ==
  ASSUME NEW supported \in BOOLEAN, NEW S, NEW run \in S
  PROVE  If(supported, run) \in Seq(S)
<1>1. CASE supported
  BY <1>1 DEF If
<1>2. CASE ~supported
  BY <1>2 DEF If
<1> QED
  BY <1>1, <1>2

LEMMA ScriptIsSeq ==
  ASSUME NEW tool \in Scripted, NEW profile
  PROVE  Script(tool, profile) \in Seq(Range(Script(tool, profile)))
<1> DEFINE script == Script(tool, profile)
           words == {tool, "icinga hosts", "icinga services", "systemctl",
                     "journalctl", "rcctl", "service", "tail", "grep", "pflog",
                     "pfctl -sr", "pfctl -s Tables", "nft", "sockstat",
                     "netstat", "ss", Neighbors(profile, TRUE),
                     Neighbors(profile, FALSE)}
<1>1. /\ SupportsSystemd(profile) \in BOOLEAN
      /\ SupportsRcctl(profile) \in BOOLEAN
      /\ SupportsService(profile) \in BOOLEAN
      /\ SupportsPf(profile) \in BOOLEAN
      /\ SupportsNft(profile) \in BOOLEAN
  BY DEF SupportsSystemd, SupportsRcctl, SupportsService, SupportsPf,
         SupportsNft
<1>2. script \in Seq(words)
  <2>1. CASE tool \in Plain
    <3>1. script = <<tool>>
      BY <2>1 DEF Script, Plain, Requests
    <3> QED
      BY <3>1
  <2>2. CASE tool = "icinga_get_host_state"
    <3>1. script = <<"icinga hosts", "icinga services">>
      BY <2>2 DEF Script, Plain, Requests
    <3>2. <<"icinga hosts", "icinga services">> \in Seq(words)
      BY Words
    <3> QED
      BY <3>1, <3>2, Zenon
  <2>3. CASE tool \in {"os_systemd_status", "vault_agent_status"}
    <3>1. script = If(SupportsSystemd(profile), "systemctl")
      BY <2>3 DEF Script, Plain, Requests
    <3> QED
      BY <1>1, <3>1, OneWord
  <2>4. CASE tool \in {"os_journalctl", "service_restart_history"}
    <3>1. script = If(SupportsSystemd(profile), "journalctl")
      BY <2>4 DEF Script, Plain, Requests
    <3> QED
      BY <1>1, <3>1, OneWord
  <2>5. CASE tool = "os_rcctl_check"
    <3>1. script = If(SupportsRcctl(profile), "rcctl")
      BY <2>5 DEF Script, Plain, Requests
    <3> QED
      BY <1>1, <3>1, OneWord
  <2>6. CASE tool = "os_service_status"
    <3>1. script = ServiceStatus(profile)
      BY <2>6 DEF Script, Plain, Requests
    <3>2. If(SupportsSystemd(profile), "systemctl") \in Seq(words)
      BY <1>1, OneWord
    <3>3. <<"service">> \in Seq(words) /\ <<"rcctl">> \in Seq(words)
      OBVIOUS
    <3> QED
      BY <3>1, <3>2, <3>3, Zenon DEF ServiceStatus
  <2>7. CASE tool = "os_service_logs"
    <3>1. script = ServiceLogs(profile)
      BY <2>7 DEF Script, Plain, Requests
    <3>2. /\ <<"journalctl">> \in Seq(words) /\ <<>> \in Seq(words)
          /\ <<"tail", "grep">> \in Seq(words)
      OBVIOUS
    <3> QED
      BY <3>1, <3>2, Zenon DEF ServiceLogs
  <2>8. CASE tool = "pf_log_tail"
    <3>1. script = If(SupportsPf(profile), "pflog")
      BY <2>8 DEF Script, Plain, Requests
    <3> QED
      BY <1>1, <3>1, OneWord
  <2>9. CASE tool = "nft_log_tail"
    <3>1. script = If(SupportsNft(profile), "journalctl")
      BY <2>9 DEF Script, Plain, Requests
    <3> QED
      BY <1>1, <3>1, OneWord
  <2>10. CASE tool = "firewall_state"
    <3>1. script = Firewall(profile)
      BY <2>10 DEF Script, Plain, Requests
    <3>2. If(SupportsNft(profile), "nft") \in Seq(words)
      BY <1>1, OneWord
    <3>3. <<"pfctl -sr", "pfctl -s Tables">> \in Seq(words) /\ <<>> \in Seq(words)
      BY Words
    <3> DEFINE pf == IF SupportsPf(profile)
                     THEN <<"pfctl -sr", "pfctl -s Tables">> ELSE <<>>
               nft == If(SupportsNft(profile), "nft")
    <3>4. script = pf \o nft
      BY <3>1, Zenon DEF Firewall
    <3>5. pf \in Seq(words) /\ nft \in Seq(words)
      BY <3>2, <3>3, Zenon
    <3> HIDE DEF words, script, pf, nft
    <3> QED
      BY <3>4, <3>5
  <2>11. CASE tool \in {"ndp_state", "arp_state"}
    <3>1. script = <<Neighbors(profile, tool = "arp_state")>>
      BY <2>11 DEF Script, Plain, Requests
    <3>2. \/ script = <<Neighbors(profile, TRUE)>>
          \/ script = <<Neighbors(profile, FALSE)>>
      BY <2>11, <3>1
    <3>3. /\ <<Neighbors(profile, TRUE)>> \in Seq(words)
          /\ <<Neighbors(profile, FALSE)>> \in Seq(words)
      BY Words
    <3> QED
      BY <3>2, <3>3, Zenon
  <2>12. CASE tool = "socket_listeners"
    <3>1. script = <<Listeners(profile)>>
      BY <2>12 DEF Script, Plain, Requests
    <3>2. Listeners(profile) \in words
      BY DEF Listeners
    <3> HIDE DEF words, script
    <3>3. <<Listeners(profile)>> \in Seq(words)
      BY <3>2, Words
    <3> QED
      BY <3>1, <3>3, Zenon
  <2> QED
    BY <2>1, <2>2, <2>3, <2>4, <2>5, <2>6, <2>7, <2>8, <2>9, <2>10, <2>11,
       <2>12, Zenon DEF Scripted
<1> HIDE DEF script, words
<1>3. script \in Seq(Range(script))
  BY <1>2 DEF Range
<1> QED
  BY <1>3 DEF script

(* A call's arguments do not change, so neither does what it may run.      *)
LEMMA CallStays ==
  ASSUME call' = call
  PROVE  /\ HostProfile' = HostProfile
         /\ MayRun' = MayRun
         /\ Script(call.tool, HostProfile)' = Script(call.tool, HostProfile)
         /\ Sources' = Sources
         /\ Gathers' = Gathers
         /\ Flows' = Flows
         /\ Step' = Step
<1>1. HostProfile' = HostProfile
  BY DEF HostProfile
<1>2. MayRun' = MayRun
  BY <1>1 DEF MayRun
<1>3. Script(call.tool, HostProfile)' = Script(call.tool, HostProfile)
  BY <1>1
<1>4. Sources' = Sources
  BY DEF Sources
<1>5. Gathers' = Gathers
  BY <1>4 DEF Gathers
<1>6. Flows' = Flows
  BY DEF Flows
<1>7. Step' = Step
  BY <1>2 DEF Step
<1> QED
  BY <1>1, <1>2, <1>3, <1>4, <1>5, <1>6, <1>7

LEMMA MayRunBy ==
  ASSUME call \in Calls
  PROVE  /\ call.tool = "multi_source_probe" => MayRun = {"probe"}
         /\ call.tool = "dns_probe_burst" => MayRun = {"dns_dig", "pause"}
         /\ call.tool \in Paths =>
              MayRun = {Route(HostProfile), Neighbors(HostProfile, TRUE),
                        Neighbors(HostProfile, FALSE)}
         /\ call.tool \in Scripted =>
              MayRun = Range(Script(call.tool, HostProfile))
<1>1. CASE call.tool = "multi_source_probe"
  BY <1>1, ToolsApart DEF MayRun
<1>2. CASE call.tool = "dns_probe_burst"
  BY <1>2, ToolsApart DEF MayRun
<1>3. CASE call.tool \in Paths
  BY <1>3, ToolsApart DEF MayRun
<1>4. CASE call.tool \in Scripted
  BY <1>4, ToolsApart DEF MayRun
<1> QED
  BY <1>1, <1>2, <1>3, <1>4

LEMMA RouteWords ==
  ASSUME NEW profile, NEW arp \in BOOLEAN
  PROVE  /\ Route(profile) \in Routes
         /\ Neighbors(profile, arp) \in {"arp", "ndp", "ip neigh", "ip -6 neigh"}
         /\ Neighbors(profile, arp) \notin Routes
BY DEF Route, Routes, Neighbors

-------------------------------------------------------------------------------
(* The next commands *)

(* A probe issues the next of its sources, or all.                         *)
LEMMA NextProbe ==
  ASSUME IInv, call.tool = "multi_source_probe"
  PROVE  /\ Following \in Seq(Step)
         /\ \A i \in DOMAIN Following :
              /\ Following[i].run \in MayRun /\ Following[i].out = "awaited"
              /\ Len(steps) + i \in DOMAIN Sources
              /\ Following[i].host = Sources[Len(steps) + i]
         /\ ~Gathers => Len(Following) <= 1
         /\ Gathers => Len(steps) + Len(Following) = Len(Sources)
         /\ Following = <<>> => Len(steps) = Len(Sources)
<1> DEFINE gathers == call.parallel /\ Len(Sources) > 1
           sources == IF Len(steps) = Len(Sources) THEN <<>>
                      ELSE IF gathers THEN Sources
                      ELSE <<Sources[Len(steps) + 1]>>
<1>1. Following = [i \in DOMAIN sources |-> Command(sources[i], "probe")]
  BY Zenon DEF Following, NextOfProbe
<1>2. gathers = Gathers
  BY DEF Gathers
<1>3. /\ Sources \in Seq(Range(call.sources)) /\ Len(Sources) \in Nat
      /\ steps \in Seq(Step) /\ Len(steps) \in Nat
      /\ Len(steps) <= Len(Sources)
      /\ Gathers => Len(steps) \in {0, Len(Sources)}
  BY SourcesTyped DEF IInv, Outcome, InProbe
<1>4. MayRun = {"probe"}
  BY MayRunBy DEF IInv
<1>5. ASSUME NEW n \in Nat, sources \in Seq(Range(call.sources)),
             Len(sources) = n
      PROVE  /\ Following \in Seq(Step) /\ Len(Following) = n
             /\ \A i \in 1 .. n :
                  /\ Following[i].run \in MayRun
                  /\ Following[i].out = "awaited"
                  /\ Following[i].host = sources[i]
  <2> HIDE DEF sources
  <2>1. DOMAIN sources = 1 .. n
    BY <1>5
  <2>2. \A i \in 1 .. n : Command(sources[i], "probe") \in Step
    BY <1>4, <1>5, <2>1 DEF Command, Step, Outs
  <2> QED
    BY <1>1, <1>4, <2>1, <2>2 DEF Command
<1>6. CASE Len(steps) = Len(Sources)
  <2>1. sources = <<>>
    BY <1>6
  <2> QED
    BY <1>3, <1>5, <1>6, <2>1
<1>7. CASE Len(steps) # Len(Sources) /\ Gathers
  <2>1. sources = Sources /\ Len(steps) = 0
    BY <1>2, <1>3, <1>7
  <2> HIDE DEF sources
  <2> QED
    BY <1>3, <1>5, <1>7, <2>1
<1>8. CASE Len(steps) # Len(Sources) /\ ~Gathers
  <2>1. sources = <<Sources[Len(steps) + 1]>>
    BY <1>2, <1>8
  <2>2. Len(steps) + 1 \in DOMAIN Sources
    BY <1>3, <1>8
  <2>3. sources \in Seq(Range(call.sources)) /\ Len(sources) = 1
    <3>1. PICK source \in Range(call.sources) :
            source = Sources[Len(steps) + 1]
      BY <1>3, <2>2
    <3>2. <<source>> \in Seq(Range(call.sources)) /\ Len(<<source>>) = 1
      BY Words
    <3> QED
      BY <2>1, <3>1, <3>2, Zenon
  <2> HIDE DEF sources
  <2>4. sources[1] = Sources[Len(steps) + 1]
    BY <2>1
  <2> QED
    BY <1>3, <1>5, <1>8, <2>2, <2>3, <2>4
<1> QED
  BY <1>6, <1>7, <1>8

(* What may be issued next by a tool that issues one command at a time.    *)
MayFollow(run) ==
  /\ run \in MayRun
  /\ call.tool \in Scripted => Len(steps) < Len(Script(call.tool, HostProfile))
  /\ call.tool \in Paths => run \notin Routes \/ Count(Routes) < Flows
  /\ call.tool = "dns_probe_burst" =>
       \/ run = "dns_dig" /\ (steps = <<>> \/ Last(steps).run # "dns_dig")
       \/ /\ run = "pause" /\ steps # <<>> /\ Last(steps).run = "dns_dig"
          /\ Count({"dns_dig"}) < Clamp(call.number, MaxBurst)

(* Nothing is left to do for a tool that has asked all its questions.      *)
MayEnd ==
  /\ call.tool \in Paths => ~ (Count(Routes) < Flows)
  /\ call.tool = "dns_probe_burst" =>
       /\ steps # <<>> /\ Last(steps).run = "dns_dig"
       /\ ~ (Count({"dns_dig"}) < Clamp(call.number, MaxBurst))

LEMMA NextOne ==
  ASSUME IInv, call.tool # "multi_source_probe"
  PROVE  \/ Following = <<>> /\ MayEnd
         \/ \E run : /\ MayFollow(run)
                     /\ Following = <<Command(call.host, run)>>
<1> DEFINE runs == CASE ~call.proper -> <<>>
                     [] call.tool \in Paths -> NextOfPath(HostProfile)
                     [] call.tool = "dns_probe_burst" -> NextOfBurst
                     [] OTHER -> NextOfScript(HostProfile)
<1>1. Following = [i \in DOMAIN runs |-> Command(call.host, runs[i])]
  BY Zenon DEF Following, HostProfile
<1>2. /\ call \in Calls /\ steps \in Seq(Step) /\ Len(steps) \in Nat
      /\ call.tool \in Tools /\ call.proper \in BOOLEAN
      /\ ~call.proper => call.tool \in Scripted
  BY CallTyped, ToolsApart DEF IInv, Outcome
<1>3. \/ runs = <<>> /\ MayEnd
      \/ \E run : runs = <<run>> /\ MayFollow(run)
  <2>1. CASE ~call.proper
    <3>1. runs = <<>>
      BY <1>2, <2>1, ToolsApart
    <3>2. MayEnd
      BY <1>2, <2>1, ToolsApart DEF MayEnd
    <3> QED
      BY <3>1, <3>2
  <2>2. CASE call.proper /\ call.tool \in Paths
    <3>1. runs = NextOfPath(HostProfile)
      BY <2>2, ToolsApart
    <3> DEFINE hop == steps # <<>> /\ Last(steps).out \in Hop
               left == Cardinality(IssuedOf(Routes)) < Flows
    <3>2. runs = IF hop
                 THEN <<Neighbors(HostProfile, Last(steps).out = "via4")>>
                 ELSE If(left, Route(HostProfile))
      BY <3>1, Zenon DEF NextOfPath, Flows
    <3>3. MayRun = {Route(HostProfile), Neighbors(HostProfile, TRUE),
                    Neighbors(HostProfile, FALSE)}
      BY <1>2, <2>2, MayRunBy
    <3>4. CASE hop
      <4>1. PICK arp \in BOOLEAN : arp = (Last(steps).out = "via4")
        OBVIOUS
      <4>2. runs = <<Neighbors(HostProfile, arp)>>
        BY <3>2, <3>4, <4>1
      <4>3. MayFollow(Neighbors(HostProfile, arp))
        BY <2>2, <3>3, RouteWords, ToolsApart DEF MayFollow
      <4> QED
        BY <4>2, <4>3
    <3>5. CASE ~hop /\ left
      <4>1. runs = <<Route(HostProfile)>>
        BY <3>2, <3>5, Zenon DEF If
      <4>2. MayFollow(Route(HostProfile))
        BY <2>2, <3>3, <3>5, ToolsApart DEF MayFollow, Count
      <4> QED
        BY <4>1, <4>2
    <3>6. CASE ~hop /\ ~left
      <4>1. runs = <<>>
        BY <3>2, <3>6, Zenon DEF If
      <4>2. MayEnd
        BY <2>2, <3>6, ToolsApart DEF MayEnd, Count
      <4> QED
        BY <4>1, <4>2
    <3> QED
      BY <3>4, <3>5, <3>6
  <2>3. CASE call.proper /\ call.tool = "dns_probe_burst"
    <3>1. runs = NextOfBurst
      BY <2>3, ToolsApart
    <3>2. MayRun = {"dns_dig", "pause"}
      BY <1>2, <2>3, MayRunBy
    <3> DEFINE asked == steps # <<>> /\ Last(steps).run = "dns_dig"
               left == Cardinality(IssuedOf({"dns_dig"}))
                         < Clamp(call.number, MaxBurst)
    <3>3. runs = IF asked THEN If(left, "pause") ELSE <<"dns_dig">>
      BY <3>1, Zenon DEF NextOfBurst
    <3>4. CASE ~asked
      <4>1. runs = <<"dns_dig">>
        BY <3>3, <3>4
      <4>2. MayFollow("dns_dig")
        BY <2>3, <3>2, <3>4, ToolsApart DEF MayFollow
      <4> QED
        BY <4>1, <4>2
    <3>5. CASE asked /\ left
      <4>1. runs = <<"pause">>
        BY <3>3, <3>5, Zenon DEF If
      <4>2. MayFollow("pause")
        BY <2>3, <3>2, <3>5, ToolsApart DEF MayFollow, Count
      <4> QED
        BY <4>1, <4>2
    <3>6. CASE asked /\ ~left
      <4>1. runs = <<>>
        BY <3>3, <3>6, Zenon DEF If
      <4>2. MayEnd
        BY <2>3, <3>6, ToolsApart DEF MayEnd, Count
      <4> QED
        BY <4>1, <4>2
    <3> QED
      BY <3>4, <3>5, <3>6
  <2>4. CASE call.proper /\ call.tool \in Scripted
    <3> DEFINE script == Script(call.tool, HostProfile)
               stops == /\ steps # <<>>
                        /\ \/ /\ call.tool = "os_service_logs"
                              /\ Succeeded(Last(steps))
                           \/ /\ call.tool = "icinga_get_host_state"
                              /\ ~Succeeded(Last(steps))
    <3>1. runs = NextOfScript(HostProfile)
      BY <2>4, ToolsApart
    <3>2. runs = IF stops \/ Len(steps) = Len(script) THEN <<>>
                 ELSE <<script[Len(steps) + 1]>>
      BY <3>1, Zenon DEF NextOfScript
    <3>3. /\ script \in Seq(Range(script)) /\ Len(script) \in Nat
          /\ MayRun = Range(script)
      BY <1>2, <2>4, ScriptIsSeq, MayRunBy
    <3>4. Len(steps) <= Len(script)
      BY <2>4 DEF IInv, InScript
    <3> HIDE DEF script, stops
    <3>5. CASE runs = <<>>
      BY <2>4, <3>5, ToolsApart DEF MayEnd
    <3>6. CASE runs # <<>>
      <4>1. Len(steps) # Len(script) /\ runs = <<script[Len(steps) + 1]>>
        BY <3>2, <3>6, Zenon
      <4>2. Len(steps) < Len(script)
        BY <1>2, <3>3, <3>4, <4>1
      <4>3. script[Len(steps) + 1] \in Range(script)
        BY <1>2, <3>3, <4>2
      <4>4. MayFollow(script[Len(steps) + 1])
        BY <2>4, <3>3, <4>2, <4>3, ToolsApart DEF MayFollow, script
      <4> QED
        BY <4>1, <4>4
    <3> QED
      BY <3>5, <3>6
  <2> QED
    BY <1>2, <2>1, <2>2, <2>3, <2>4, ToolsApart
<1> HIDE DEF runs
<1>4. CASE runs = <<>> /\ MayEnd
  BY <1>1, <1>4
<1>5. ASSUME NEW run, runs = <<run>>, MayFollow(run)
      PROVE  Following = <<Command(call.host, run)>>
  BY <1>1, <1>5
<1> QED
  BY <1>3, <1>4, <1>5

-------------------------------------------------------------------------------
(* The commands issued *)

LEMMA StepsTyped ==
  ASSUME IInv
  PROVE  /\ steps \in Seq(Step) /\ Len(steps) \in Nat
         /\ DOMAIN steps = 1 .. Len(steps)
         /\ \A i \in DOMAIN steps : steps[i] \in Step
<1>1. steps \in Seq(Step)
  BY DEF IInv, Outcome
<1> QED
  BY <1>1

(* The counting goes by the commands, not by what comes of them.           *)
LEMMA SameIssued ==
  ASSUME DOMAIN steps' = DOMAIN steps,
         \A i \in DOMAIN steps : steps'[i].run = steps[i].run,
         NEW runs
  PROVE  IssuedOf(runs)' = IssuedOf(runs) /\ Count(runs)' = Count(runs)
<1>1. IssuedOf(runs)' = IssuedOf(runs)
  BY DEF IssuedOf
<1> QED
  BY <1>1 DEF Count

(* Whatever comes of commands, they remain those the tool has to run.      *)
LEMMA SameCommands ==
  ASSUME IInv, call' = call, steps' \in Seq(Step), Len(steps') = Len(steps),
         \A i \in DOMAIN steps : /\ steps'[i].host = steps[i].host
                                 /\ steps'[i].run = steps[i].run
  PROVE  InScript' /\ InProbe' /\ InPath' /\ InBurst'
<1>1. /\ steps \in Seq(Step) /\ Len(steps) \in Nat
      /\ DOMAIN steps = 1 .. Len(steps) /\ DOMAIN steps' = DOMAIN steps
  BY StepsTyped
<1>2. InScript'
  BY CallStays DEF IInv, InScript
<1>3. InProbe'
  BY <1>1, CallStays DEF IInv, InProbe
<1>4. InPath'
  BY <1>1, CallStays, SameIssued DEF IInv, InPath
<1>5. InBurst'
  <2>1. Count({"dns_dig"})' = Count({"dns_dig"})
    BY <1>1, SameIssued
  <2>2. steps' # <<>> => steps # <<>> /\ Last(steps)'.run = Last(steps).run
    BY <1>1 DEF Last
  <2>3. ASSUME call.tool = "dns_probe_burst",
               NEW i \in DOMAIN steps, i > 1
        PROVE  steps'[i - 1].run # steps'[i].run
    <3>1. i - 1 \in DOMAIN steps
      BY <1>1, <2>3
    <3>2. steps[i - 1].run # steps[i].run
      BY <2>3 DEF IInv, InBurst
    <3> QED
      BY <3>1, <3>2
  <2> QED
    BY <1>1, <2>1, <2>2, <2>3 DEF IInv, InBurst
<1> QED
  BY <1>2, <1>3, <1>4, <1>5

LEMMA IssuedOfFinite ==
  ASSUME IInv, NEW runs
  PROVE  /\ IssuedOf(runs) \in SUBSET (1 .. Len(steps))
         /\ IsFiniteSet(IssuedOf(runs)) /\ Count(runs) \in Nat
<1>1. IssuedOf(runs) \in SUBSET (1 .. Len(steps)) /\ Len(steps) \in Nat
  BY StepsTyped DEF IssuedOf
<1>2. IsFiniteSet(1 .. Len(steps))
  BY <1>1, FS_Interval
<1>3. IsFiniteSet(IssuedOf(runs))
  BY <1>1, <1>2, FS_Subset
<1> QED
  BY <1>1, <1>3, FS_CardinalityType DEF Count

(* One more command is one more of its kind.                               *)
LEMMA OneMore ==
  ASSUME IInv, NEW command \in Step, steps' = Append(steps, command), NEW runs
  PROVE  Count(runs)' = IF command.run \in runs THEN Count(runs) + 1
                        ELSE Count(runs)
<1> DEFINE n == Len(steps) + 1
<1>1. /\ DOMAIN steps' = DOMAIN steps \cup {n} /\ steps'[n] = command
      /\ \A i \in DOMAIN steps : steps'[i] = steps[i]
  BY StepsTyped
<1>2. n \notin IssuedOf(runs) /\ IsFiniteSet(IssuedOf(runs))
  BY StepsTyped, IssuedOfFinite
<1>3. IssuedOf(runs)' = IF command.run \in runs THEN IssuedOf(runs) \cup {n}
                        ELSE IssuedOf(runs)
  BY <1>1 DEF IssuedOf
<1>4. Cardinality(IssuedOf(runs) \cup {n}) = Cardinality(IssuedOf(runs)) + 1
  BY <1>2, FS_AddElement
<1> QED
  BY <1>3, <1>4 DEF Count

(* The first commands of a gather, or the next one.                        *)
LEMMA IssueSteps ==
  ASSUME IInv, Issue
  PROVE  /\ call' = call /\ pc' = pc /\ answer' = answer /\ pc = "running"
         /\ Awaited = {} /\ ~Broken
         /\ Following \in Seq(Step) /\ Following # <<>>
         /\ steps' \in Seq(Step)
         /\ Len(Following) \in Nat /\ Len(Following) > 0
         /\ Len(steps') = Len(steps) + Len(Following)
         /\ \A i \in DOMAIN steps : steps'[i] = steps[i]
         /\ \A i \in DOMAIN Following : steps'[Len(steps) + i] = Following[i]
         /\ \A i \in DOMAIN Following : Following[i].out = "awaited"
         /\ ~Gathers => Len(Following) = 1
<1>1. /\ call' = call /\ pc' = pc /\ answer' = answer /\ pc = "running"
      /\ Awaited = {} /\ ~Broken /\ Following # <<>>
      /\ steps' = steps \o Following
  BY Zenon DEF Issue
<1>2. /\ Following \in Seq(Step)
      /\ \A i \in DOMAIN Following : Following[i].out = "awaited"
      /\ ~Gathers => Len(Following) <= 1
  <2>1. CASE call.tool = "multi_source_probe"
    BY <2>1, NextProbe
  <2>2. CASE call.tool # "multi_source_probe"
    <3>1. PICK run : MayFollow(run) /\ Following = <<Command(call.host, run)>>
      BY <1>1, <2>2, NextOne
    <3>2. Command(call.host, run) \in Step
      BY <3>1 DEF Command, Step, MayFollow, Outs
    <3> QED
      BY <3>1, <3>2 DEF Command
  <2> QED
    BY <2>1, <2>2
<1>3. Len(Following) \in Nat /\ Len(Following) > 0
  BY <1>1, <1>2
<1>4. /\ steps' \in Seq(Step)
      /\ Len(steps') = Len(steps) + Len(Following)
      /\ \A i \in DOMAIN steps : steps'[i] = steps[i]
      /\ \A i \in DOMAIN Following : steps'[Len(steps) + i] = Following[i]
  BY <1>1, <1>2, <1>3, StepsTyped
<1>5. ~Gathers => Len(Following) = 1
  <2>1. ~Gathers => Len(Following) <= 1
    BY <1>2, Zenon
  <2>2. \A n \in Nat : n > 0 /\ n <= 1 => n = 1
    OBVIOUS
  <2> QED
    BY <1>3, <2>1, <2>2, Zenon
<1> QED
  BY <1>1, <1>2, <1>3, <1>4, <1>5, Zenon

LEMMA IssueInTurn ==
  ASSUME IInv, Issue
  PROVE  Outcome' /\ OneByOne'
<1>1. /\ steps \in Seq(Step) /\ Len(steps) \in Nat
      /\ DOMAIN steps = 1 .. Len(steps)
  BY StepsTyped
<1>2. /\ call' = call /\ pc' = pc
      /\ steps' \in Seq(Step)
      /\ Len(Following) \in Nat
      /\ Len(steps') = Len(steps) + Len(Following)
      /\ \A i \in DOMAIN steps : steps'[i] = steps[i]
      /\ Following \in Seq(Step)
  BY IssueSteps
<1>3. ASSUME NEW j \in DOMAIN steps', j \notin DOMAIN steps
      PROVE  steps'[j].out = "awaited"
  <2>1. j - Len(steps) \in DOMAIN Following
    BY <1>1, <1>2, <1>3
  <2>2. steps'[Len(steps) + (j - Len(steps))] = Following[j - Len(steps)]
    BY <2>1, IssueSteps
  <2>3. Following[j - Len(steps)].out = "awaited"
    BY <2>1, IssueSteps
  <2>4. Len(steps) + (j - Len(steps)) = j
    BY <1>1, <1>2, <1>3
  <2> QED
    BY <2>2, <2>3, <2>4
<1>4. Outcome'
  <2> SUFFICES ASSUME NEW j \in DOMAIN steps'
               PROVE  /\ steps'[j].out \in Outcomes(steps'[j].run)
                                             \cup {"awaited", "abandoned"}
                      /\ steps'[j].out = "abandoned" => pc' = "cancelled"
    BY <1>2, CallStays DEF Outcome
  <2>1. CASE j \in DOMAIN steps
    BY <1>2, <2>1 DEF IInv, Outcome
  <2>2. CASE j \notin DOMAIN steps
    BY <1>3, <2>2
  <2> QED
    BY <2>1, <2>2
<1>5. OneByOne'
  <2> SUFFICES ASSUME ~Gathers, NEW j \in DOMAIN steps',
                      steps'[j].out = "awaited" \/ Breaks(steps[j])'
               PROVE  j = Len(steps')
    BY <1>2, CallStays DEF OneByOne
  <2>1. j \notin DOMAIN steps
    <3> SUFFICES ASSUME j \in DOMAIN steps
                 PROVE  FALSE
      OBVIOUS
    <3>1. steps'[j] = steps[j]
      BY <1>2
    <3>2. steps[j].out = "awaited" \/ Breaks(steps[j])
      BY <1>2, <3>1 DEF Breaks
    <3> QED
      BY <3>2, IssueSteps DEF Awaited, Broken
  <2>2. Len(Following) = 1
    BY IssueSteps, Zenon
  <2> QED
    BY <1>1, <1>2, <2>1, <2>2
<1> QED
  BY <1>4, <1>5

LEMMA IssueProbe ==
  ASSUME IInv, Issue, call.tool = "multi_source_probe"
  PROVE  InProbe'
<1>1. /\ steps \in Seq(Step) /\ Len(steps) \in Nat
      /\ DOMAIN steps = 1 .. Len(steps)
  BY StepsTyped
<1>2. /\ call' = call /\ steps' \in Seq(Step)
      /\ Following \in Seq(Step) /\ Len(Following) \in Nat
      /\ Len(Following) > 0
      /\ Len(steps') = Len(steps) + Len(Following)
      /\ \A i \in DOMAIN steps : steps'[i] = steps[i]
      /\ \A i \in DOMAIN Following : steps'[Len(steps) + i] = Following[i]
  BY IssueSteps
<1>3. /\ Sources \in Seq(Range(call.sources)) /\ Len(Sources) \in Nat
  BY SourcesTyped DEF IInv
<1>4. Len(steps') <= Len(Sources)
  <2>1. Len(Following) \in DOMAIN Following
    BY <1>2
  <2>2. Len(steps) + Len(Following) \in DOMAIN Sources
    BY <2>1, NextProbe
  <2> QED
    BY <1>2, <1>3, <2>2
<1>5. Gathers => Len(steps') = Len(Sources)
  BY <1>2, NextProbe
<1>6. ASSUME NEW j \in DOMAIN steps'
      PROVE  steps'[j].host = Sources[j]
  <2>1. CASE j \in DOMAIN steps
    BY <1>2, <2>1 DEF IInv, InProbe
  <2>2. CASE j \notin DOMAIN steps
    <3>1. j - Len(steps) \in DOMAIN Following /\ Len(steps) + (j - Len(steps)) = j
      BY <1>1, <1>2, <2>2
    <3>2. Following[j - Len(steps)].host = Sources[Len(steps) + (j - Len(steps))]
      BY <3>1, NextProbe
    <3> QED
      BY <1>2, <3>1, <3>2
  <2> QED
    BY <2>1, <2>2
<1> QED
  BY <1>2, <1>4, <1>5, <1>6, CallStays DEF InProbe

LEMMA IssueOne ==
  ASSUME IInv, Issue, call.tool # "multi_source_probe"
  PROVE  InScript' /\ InPath' /\ InBurst'
<1>1. /\ steps \in Seq(Step) /\ Len(steps) \in Nat
      /\ DOMAIN steps = 1 .. Len(steps) /\ call \in Calls
      /\ \A i \in DOMAIN steps : steps[i] \in Step
  BY StepsTyped DEF IInv
<1>2. call' = call /\ steps' = steps \o Following /\ Following # <<>>
  BY Zenon DEF Issue
<1>3. PICK run : MayFollow(run) /\ Following = <<Command(call.host, run)>>
  BY <1>2, NextOne
<1> DEFINE command == Command(call.host, run)
<1>4. command \in Step /\ command.run = run
  BY <1>3 DEF Command, Step, MayFollow, Outs
<1> HIDE DEF command
<1>5. /\ steps' = Append(steps, command)
      /\ Len(steps') = Len(steps) + 1
      /\ \A i \in DOMAIN steps : steps'[i] = steps[i]
      /\ steps'[Len(steps) + 1] = command
      /\ DOMAIN steps' = 1 .. Len(steps) + 1
      /\ steps' # <<>> /\ Last(steps)' = command
  BY <1>1, <1>2, <1>3, <1>4 DEF command, Last
<1>6. InScript'
  <2>1. call.tool \in Scripted =>
          /\ Len(steps) < Len(Script(call.tool, HostProfile))
          /\ Script(call.tool, HostProfile)
               \in Seq(Range(Script(call.tool, HostProfile)))
    BY <1>3, ScriptIsSeq DEF MayFollow
  <2>2. call.tool \in Scripted =>
          Len(steps) + 1 <= Len(Script(call.tool, HostProfile))
    BY <1>1, <2>1
  <2> QED
    BY <1>2, <1>5, <2>2, CallStays DEF InScript
<1>7. InPath'
  <2> SUFFICES ASSUME call.tool \in Paths
               PROVE  Count(Routes)' <= Flows
    BY <1>2, CallStays DEF InPath
  <2>1. Count(Routes)' = IF run \in Routes THEN Count(Routes) + 1
                         ELSE Count(Routes)
    BY <1>4, <1>5, OneMore
  <2>2. Count(Routes) \in Nat /\ Flows \in Nat /\ Count(Routes) <= Flows
    BY <1>1, FlowsTyped, IssuedOfFinite DEF IInv, InPath
  <2>3. run \notin Routes \/ Count(Routes) < Flows
    BY <1>3 DEF MayFollow
  <2> QED
    BY <2>1, <2>2, <2>3
<1>8. InBurst'
  <2> SUFFICES ASSUME call.tool = "dns_probe_burst"
               PROVE  InBurst'
    BY <1>2 DEF InBurst
  <2> DEFINE left == Clamp(call.number, MaxBurst)
             asked == Count({"dns_dig"})
  <2>1. asked' = IF run = "dns_dig" THEN asked + 1 ELSE asked
    BY <1>4, <1>5, OneMore
  <2>2. asked \in Nat /\ left \in Nat /\ left > 0
    <3>1. asked \in Nat
      BY IssuedOfFinite
    <3>2. left \in 1 .. MaxBurst /\ MaxBurst \in Nat
      BY <1>1, CallTyped, CapsTyped, ClampBounds
    <3> HIDE DEF left, asked
    <3> QED
      BY <3>1, <3>2
  <2>3. asked <= left
    BY DEF IInv, InBurst
  <2>4. MayRun = {"dns_dig", "pause"}
    BY <1>1, MayRunBy
  <2>5. \/ run = "dns_dig" /\ (steps = <<>> \/ Last(steps).run # "dns_dig")
        \/ /\ run = "pause" /\ steps # <<>> /\ Last(steps).run = "dns_dig"
           /\ asked < left
    BY <1>3 DEF MayFollow
  <2>6. steps = <<>> => asked = 0
    <3>1. steps = <<>> => IssuedOf({"dns_dig"}) = {}
      BY DEF IssuedOf
    <3> QED
      BY <3>1, FS_EmptySet DEF Count
  <2>7. steps # <<>> => Last(steps) = steps[Len(steps)] /\ Last(steps) \in Step
    BY <1>1 DEF Last
  <2>8. steps # <<>> /\ Last(steps).run # "dns_dig" => asked < left
    <3>1. steps # <<>> => Last(steps).run \in {"dns_dig", "pause"}
      BY <2>4, <2>7 DEF Step
    <3> QED
      BY <3>1 DEF IInv, InBurst
  <2> HIDE DEF left, asked
  <2>9. asked' <= left /\ (run = "pause" => asked' < left)
    BY <2>1, <2>2, <2>3, <2>5, <2>6, <2>8
  <2>10. ASSUME NEW j \in DOMAIN steps', j > 1
         PROVE  steps'[j - 1].run # steps'[j].run
    <3>1. CASE j \in DOMAIN steps
      <4>1. j - 1 \in DOMAIN steps
        BY <1>1, <2>10, <3>1
      <4>2. steps[j - 1].run # steps[j].run
        BY <2>10, <3>1 DEF IInv, InBurst
      <4> QED
        BY <1>5, <3>1, <4>1, <4>2
    <3>2. CASE j \notin DOMAIN steps
      <4>1. j = Len(steps) + 1 /\ j - 1 \in DOMAIN steps /\ j - 1 = Len(steps)
        BY <1>1, <1>5, <2>10, <3>2
      <4>2. steps # <<>> /\ steps'[j - 1] = Last(steps) /\ steps'[j] = command
        BY <1>5, <2>7, <4>1
      <4>3. Last(steps).run # run
        BY <2>5, <4>2
      <4> QED
        BY <1>4, <4>2, <4>3
    <3> QED
      BY <3>1, <3>2
  <2> QED
    BY <1>2, <1>4, <1>5, <2>9, <2>10 DEF InBurst, left, asked
<1> QED
  BY <1>6, <1>7, <1>8

LEMMA IssueKeeps ==
  ASSUME IInv, Issue
  PROVE  IInv'
<1>1. call' = call /\ pc' = pc /\ answer' = answer /\ pc = "running"
  BY IssueSteps, Zenon
<1>2. Outcome' /\ OneByOne'
  BY IssueInTurn
<1>3. InScript' /\ InProbe' /\ InPath' /\ InBurst'
  <2>1. CASE call.tool = "multi_source_probe"
    BY <1>1, <2>1, IssueProbe, ToolsApart DEF InScript, InPath, InBurst
  <2>2. CASE call.tool # "multi_source_probe"
    BY <1>1, <2>2, IssueOne DEF InProbe
  <2> QED
    BY <2>1, <2>2
<1>4. Answers' /\ Quiet'
  BY <1>1 DEF IInv, Answers, Quiet
<1> QED
  BY <1>1, <1>2, <1>3, <1>4, Zenon DEF IInv

-------------------------------------------------------------------------------
(* The other steps *)

LEMMA OutcomesTyped ==
  ASSUME NEW run
  PROVE  Outcomes(run) \subseteq Outs \ {"awaited", "abandoned"}
BY DEF Outcomes, Outs, Hop

LEMMA FinishKeeps ==
  ASSUME IInv, NEW i \in DOMAIN steps, Finish(i)
  PROVE  IInv'
<1>1. PICK out \in Outcomes(steps[i].run) :
        steps' = [steps EXCEPT ![i].out = out]
  BY Zenon DEF Finish
<1>2. /\ call' = call /\ pc' = pc /\ answer' = answer
      /\ i \in Awaited /\ steps[i].out = "awaited"
  BY DEF Finish, Awaited
<1>3. /\ steps \in Seq(Step) /\ Len(steps) \in Nat
      /\ DOMAIN steps = 1 .. Len(steps) /\ steps[i] \in Step
  BY StepsTyped
<1>4. out \in Outs \ {"awaited", "abandoned"}
  BY OutcomesTyped
<1>5. /\ [steps[i] EXCEPT !.out = out] \in Step
      /\ [steps[i] EXCEPT !.out = out].host = steps[i].host
      /\ [steps[i] EXCEPT !.out = out].run = steps[i].run
      /\ [steps[i] EXCEPT !.out = out].out = out
  BY <1>3, <1>4 DEF Step
<1> DEFINE ended == [steps[i] EXCEPT !.out = out]
<1>6. steps' = [steps EXCEPT ![i] = ended]
  BY <1>1
<1> HIDE DEF ended
<1>7. /\ steps' \in Seq(Step) /\ Len(steps') = Len(steps)
      /\ DOMAIN steps' = DOMAIN steps /\ steps'[i] = ended
      /\ \A j \in DOMAIN steps : j # i => steps'[j] = steps[j]
  BY <1>3, <1>5, <1>6 DEF ended
<1>8. ended.host = steps[i].host /\ ended.run = steps[i].run /\ ended.out = out
  BY <1>5 DEF ended
<1>9. InScript' /\ InProbe' /\ InPath' /\ InBurst'
  <2>1. \A j \in DOMAIN steps : /\ steps'[j].host = steps[j].host
                                /\ steps'[j].run = steps[j].run
    BY <1>7, <1>8
  <2> QED
    BY <1>2, <1>7, <2>1, SameCommands
<1>10. Outcome'
  <2> SUFFICES ASSUME NEW j \in DOMAIN steps
               PROVE  /\ steps'[j].out \in Outcomes(steps'[j].run)
                                             \cup {"awaited", "abandoned"}
                      /\ steps'[j].out = "abandoned" => pc' = "cancelled"
    BY <1>2, <1>7, CallStays DEF Outcome
  <2>1. CASE j = i
    BY <1>4, <1>7, <1>8, <2>1
  <2>2. CASE j # i
    BY <1>2, <1>7, <2>2 DEF IInv, Outcome
  <2> QED
    BY <2>1, <2>2
<1>11. OneByOne'
  <2> SUFFICES ASSUME ~Gathers, NEW j \in DOMAIN steps,
                      steps'[j].out = "awaited" \/ Breaks(steps[j])'
               PROVE  j = Len(steps)
    BY <1>2, <1>7, CallStays DEF OneByOne
  <2>1. CASE j = i
    BY <1>2, <2>1 DEF IInv, OneByOne
  <2>2. CASE j # i
    <3>1. steps[j].out = "awaited" \/ Breaks(steps[j])
      BY <1>2, <1>7, <2>2 DEF Breaks
    <3> QED
      BY <3>1 DEF IInv, OneByOne
  <2> QED
    BY <2>1, <2>2
<1>12. Answers'
  BY <1>2 DEF IInv, Answers
<1>13. Quiet'
  <2>1. pc # "cancelled"
    BY <1>2 DEF IInv, Quiet
  <2>2. ASSUME Broken
        PROVE  Broken'
    <3>1. PICK j \in DOMAIN steps : Breaks(steps[j])
      BY <2>2 DEF Broken
    <3>2. j # i
      BY <1>2, <3>1 DEF Breaks
    <3>3. Breaks(steps[j])'
      BY <1>2, <1>7, <3>1, <3>2 DEF Breaks
    <3> QED
      BY <1>7, <3>3 DEF Broken
  <2> QED
    BY <1>2, <2>1, <2>2 DEF IInv, Quiet
<1> QED
  BY <1>2, <1>9, <1>10, <1>11, <1>12, <1>13, Zenon DEF IInv

LEMMA CancelKeeps ==
  ASSUME IInv, Cancel
  PROVE  IInv'
<1>1. /\ pc = "running" /\ pc' = "cancelled"
      /\ call' = call /\ answer' = answer
      /\ steps' = [i \in DOMAIN steps |->
                     IF i \in Awaited
                     THEN [steps[i] EXCEPT !.out = "abandoned"]
                     ELSE steps[i]]
  BY DEF Cancel
<1>2. /\ steps \in Seq(Step) /\ Len(steps) \in Nat
      /\ DOMAIN steps = 1 .. Len(steps)
      /\ \A i \in DOMAIN steps : steps[i] \in Step
  BY StepsTyped
<1>3. ASSUME NEW i \in DOMAIN steps
      PROVE  /\ steps'[i] \in Step
             /\ steps'[i].host = steps[i].host
             /\ steps'[i].run = steps[i].run
             /\ IF steps[i].out = "awaited" THEN steps'[i].out = "abandoned"
                ELSE steps'[i] = steps[i]
  <2>1. steps[i] \in Step
    BY <1>2
  <2>2. CASE i \in Awaited
    <3>1. steps'[i] = [steps[i] EXCEPT !.out = "abandoned"]
      BY <1>1, <2>2
    <3> QED
      BY <2>1, <2>2, <3>1 DEF Awaited, Step, Outs
  <2>3. CASE i \notin Awaited
    <3>1. steps'[i] = steps[i]
      BY <1>1, <2>3
    <3> QED
      BY <2>1, <2>3, <3>1 DEF Awaited
  <2> QED
    BY <2>2, <2>3
<1>4. /\ DOMAIN steps' = DOMAIN steps
      /\ steps' \in Seq(Step) /\ Len(steps') = Len(steps)
  <2>1. DOMAIN steps' = 1 .. Len(steps)
    BY <1>1, <1>2
  <2>2. steps' \in [1 .. Len(steps) -> Step]
    BY <1>1, <1>2, <1>3
  <2> QED
    BY <1>2, <2>1, <2>2
<1>5. InScript' /\ InProbe' /\ InPath' /\ InBurst'
  BY <1>1, <1>3, <1>4, SameCommands
<1>6. Outcome'
  <2> SUFFICES ASSUME NEW j \in DOMAIN steps
               PROVE  steps'[j].out \in Outcomes(steps'[j].run)
                                          \cup {"awaited", "abandoned"}
    BY <1>1, <1>4, CallStays DEF Outcome
  <2>1. CASE steps[j].out = "awaited"
    BY <1>3, <2>1
  <2>2. CASE steps[j].out # "awaited"
    BY <1>3, <2>2 DEF IInv, Outcome
  <2> QED
    BY <2>1, <2>2
<1>7. OneByOne'
  <2> SUFFICES ASSUME ~Gathers, NEW j \in DOMAIN steps,
                      steps'[j].out = "awaited" \/ Breaks(steps[j])'
               PROVE  j = Len(steps)
    BY <1>1, <1>4, CallStays DEF OneByOne
  <2>1. steps[j].out # "awaited" /\ steps'[j] = steps[j]
    BY <1>1, <1>3 DEF Breaks
  <2>2. Breaks(steps[j])
    BY <1>1, <2>1 DEF Breaks
  <2> QED
    BY <2>2 DEF IInv, OneByOne
<1>8. Answers'
  BY <1>1 DEF IInv, Answers
<1>9. Quiet'
  <2>1. Awaited' = {}
    BY <1>3, <1>4 DEF Awaited
  <2> QED
    BY <1>1, <2>1 DEF Quiet
<1> QED
  BY <1>1, <1>5, <1>6, <1>7, <1>8, <1>9, Zenon DEF IInv

(* What is left to do, and what is there to tell, goes by the commands and *)
(* what came of them.                                                      *)
LEMMA SameSteps ==
  ASSUME call' = call, steps' = steps
  PROVE  /\ Awaited' = Awaited /\ Broken' = Broken
         /\ Following' = Following /\ Ok' = Ok /\ Rows' = Rows
<1>1. Awaited' = Awaited
  BY DEF Awaited
<1>2. ASSUME NEW step
      PROVE  Breaks(step)' = Breaks(step) /\ Told(step)' = Told(step)
  BY DEF Breaks, Told
<1>3. Broken' = Broken
  BY DEF Broken, Breaks
<1>4. ASSUME NEW runs
      PROVE  IssuedOf(runs)' = IssuedOf(runs)
  BY DEF IssuedOf
<1>5. Sources' = Sources
  BY DEF Sources
<1>6. ASSUME NEW profile
      PROVE  /\ NextOfPath(profile)' = NextOfPath(profile)
             /\ NextOfScript(profile)' = NextOfScript(profile)
  BY <1>4 DEF NextOfPath, NextOfScript
<1>7. NextOfBurst' = NextOfBurst
  BY <1>4 DEF NextOfBurst
<1>8. NextOfProbe' = NextOfProbe
  BY <1>5 DEF NextOfProbe
<1>9. Following' = Following
  BY <1>6, <1>7, <1>8 DEF Following
<1>10. Ok' = Ok
  BY DEF Ok
<1>11. Reported' = Reported
  BY <1>4 DEF Reported
<1> DEFINE LastOf(source) ==
             SelectLastInSeq(steps, LAMBDA step : step.host = source)
<1>12. Rows' = Rows
  <2>1. Rows = IF call.tool = "multi_source_probe"
               THEN [source \in Range(Sources) |-> Told(steps[LastOf(source)])]
               ELSE [i \in Reported |-> Told(steps[i])]
    BY Zenon DEF Rows
  <2>2. Rows' = IF call'.tool = "multi_source_probe"
                THEN [source \in Range(Sources') |->
                        Told(steps[LastOf(source)])']
                ELSE [i \in Reported' |-> Told(steps[i])']
    BY Zenon DEF Rows
  <2>3. ASSUME NEW source
        PROVE  Told(steps[LastOf(source)])' = Told(steps[LastOf(source)])
    <3>1. LastOf(source)' = LastOf(source)
      BY DEF SelectLastInSeq
    <3> HIDE DEF LastOf
    <3> QED
      BY <3>1 DEF Told
  <2>4. ASSUME NEW i
        PROVE  Told(steps[i])' = Told(steps[i])
    BY DEF Told
  <2> HIDE DEF LastOf
  <2> QED
    BY <1>5, <1>11, <2>1, <2>2, <2>3, <2>4
<1> QED
  BY <1>1, <1>3, <1>9, <1>10, <1>12, Zenon

(* A step after which the commands are as they were.                       *)
LEMMA StayKeeps ==
  ASSUME IInv, Return \/ Raise \/ UNCHANGED vars
  PROVE  IInv'
<1>1. call' = call /\ steps' = steps
  BY DEF Return, Raise, vars
<1>2. /\ pc' \in {"running", "returned", "raised", "cancelled"}
      /\ (pc' = "cancelled") <=> (pc = "cancelled")
  BY DEF Return, Raise, vars, IInv
<1>3. InScript' /\ InProbe' /\ InPath' /\ InBurst'
  BY <1>1, SameCommands, StepsTyped
<1>4. Outcome'
  BY <1>1, <1>2, CallStays DEF IInv, Outcome
<1>5. OneByOne'
  BY <1>1, CallStays DEF IInv, OneByOne, Breaks
<1>6. Answers'
  <2>1. CASE Return
    <3>1. /\ pc' = "returned"
          /\ Awaited = {} /\ ~Broken /\ Following = <<>>
          /\ answer' = {[ok |-> Ok, rows |-> Rows]}
      BY <2>1, Zenon DEF Return
    <3>2. /\ Awaited' = {} /\ ~Broken' /\ Following' = <<>>
          /\ answer' = {[ok |-> Ok', rows |-> Rows']}
      BY <1>1, <3>1, SameSteps
    <3> QED
      BY <3>1, <3>2 DEF Answers
  <2>2. CASE Raise
    BY <2>2 DEF Raise, IInv, Answers
  <2>3. CASE UNCHANGED vars
    <3>1. pc' = pc /\ answer' = answer
      BY <2>3 DEF vars
    <3>2. CASE pc = "returned"
      <4>1. /\ Awaited' = {} /\ ~Broken' /\ Following' = <<>>
            /\ answer' = {[ok |-> Ok', rows |-> Rows']}
        BY <1>1, <3>1, <3>2, SameSteps DEF IInv, Answers
      <4> QED
        BY <3>1, <3>2, <4>1 DEF Answers
    <3>3. CASE pc # "returned"
      BY <3>1, <3>3 DEF IInv, Answers
    <3> QED
      BY <3>2, <3>3
  <2> QED
    BY <2>1, <2>2, <2>3
<1>7. Quiet'
  <2>1. Awaited' = Awaited /\ (Broken' <=> Broken)
    BY <1>1, SameSteps
  <2>2. pc' = "raised" => pc = "raised" \/ Broken
    BY DEF Return, Raise, vars
  <2> QED
    BY <1>2, <2>1, <2>2 DEF IInv, Quiet
<1> QED
  BY <1>1, <1>2, <1>3, <1>4, <1>5, <1>6, <1>7, Zenon DEF IInv

LEMMA InitHolds ==
  ASSUME Init
  PROVE  IInv
<1>1. call \in Calls /\ pc = "running" /\ steps = <<>> /\ answer = {}
  BY DEF Init
<1>2. Len(steps) = 0 /\ DOMAIN steps = {} /\ steps \in Seq(Step)
  BY <1>1
<1>3. Outcome /\ OneByOne
  BY <1>2 DEF Outcome, OneByOne
<1>4. InScript
  <2>1. call.tool \in Scripted =>
          Script(call.tool, HostProfile)
            \in Seq(Range(Script(call.tool, HostProfile)))
    BY ScriptIsSeq
  <2> QED
    BY <1>2, <2>1 DEF InScript
<1>5. InProbe
  BY <1>1, <1>2, SourcesTyped DEF InProbe
<1>6. ASSUME NEW runs
      PROVE  Count(runs) = 0
  <2>1. IssuedOf(runs) = {}
    BY <1>2 DEF IssuedOf
  <2> QED
    BY <2>1, FS_EmptySet DEF Count
<1>7. InPath
  BY <1>1, <1>6, FlowsTyped DEF InPath
<1>8. InBurst
  <2>1. Clamp(call.number, MaxBurst) \in 1 .. MaxBurst /\ MaxBurst \in Nat
    BY <1>1, CallTyped, CapsTyped, ClampBounds
  <2> QED
    BY <1>1, <1>2, <1>6, <2>1 DEF InBurst
<1>9. Answers /\ Quiet
  BY <1>1 DEF Answers, Quiet
<1> QED
  BY <1>1, <1>3, <1>4, <1>5, <1>7, <1>8, <1>9, Zenon DEF IInv

(* One command at a time, in the order of the tool and as often as the     *)
(* caps allow, unless they are gathered.                                   *)
THEOREM Invariance == Spec => []IInv
<1>1. Init => IInv
  BY InitHolds
<1>2. IInv /\ [Next]_vars => IInv'
  <2> SUFFICES ASSUME IInv, [Next]_vars
               PROVE  IInv'
    OBVIOUS
  <2>1. CASE Issue
    BY <2>1, IssueKeeps
  <2>2. CASE Return \/ Raise \/ UNCHANGED vars
    BY <2>2, StayKeeps
  <2>3. CASE Cancel
    BY <2>3, CancelKeeps
  <2>4. ASSUME NEW i \in DOMAIN steps, Finish(i)
        PROVE  IInv'
    BY <2>4, FinishKeeps
  <2> QED
    BY <2>1, <2>2, <2>3, <2>4, Zenon DEF Next, Proceed
<1> QED
  BY <1>1, <1>2, PTL DEF Spec

-------------------------------------------------------------------------------
(* The properties *)

(* Type correctness: every command issued has come to something it can     *)
(* come to, and an answer, if there is one, consists of truth values.      *)
THEOREM TypeCorrect == Spec => []TypeOK
<1>1. IInv => TypeOK
  <2> SUFFICES ASSUME IInv
               PROVE  TypeOK
    OBVIOUS
  <2>1. \A i \in DOMAIN steps :
          steps[i].out \in Outcomes(steps[i].run) \cup {"awaited", "abandoned"}
    BY DEF IInv, Outcome
  <2>2. (answer # {}) <=> (pc = "returned")
    BY DEF IInv, Answers
  <2>3. ASSUME NEW result \in answer
        PROVE  /\ result.ok \in BOOLEAN
               /\ \A label \in DOMAIN result.rows :
                    result.rows[label] \in BOOLEAN
    <3>1. result = [ok |-> Ok, rows |-> Rows]
      BY <2>3 DEF IInv, Answers
    <3>2. Ok \in BOOLEAN
      BY DEF Ok, Succeeded
    <3>3. ASSUME NEW step
          PROVE  Told(step) \in BOOLEAN
      <4>1. Printed(step) \in BOOLEAN /\ Succeeded(step) \in BOOLEAN
        BY DEF Printed, Succeeded
      <4>2. Told(step) = Printed(step) \/ Told(step) = Succeeded(step)
        BY Zenon DEF Told
      <4> QED
        BY <4>1, <4>2
    <3>4. \A label \in DOMAIN Rows : Rows[label] \in BOOLEAN
      BY <3>3 DEF Rows
    <3> QED
      BY <3>1, <3>2, <3>4
  <2> QED
    BY <2>1, <2>2, <2>3, Zenon DEF IInv, TypeOK
<1> QED
  BY <1>1, Invariance, PTL

(* Nothing is waited for on behalf of a call that has answered or was      *)
(* cancelled; after an exception only what was gathered with a probe.      *)
THEOREM NothingAwaited == Spec => []NothingStillAwaited
<1>1. IInv => NothingStillAwaited
  <2> SUFFICES ASSUME IInv, Awaited # {}, pc # "running"
               PROVE  /\ pc = "raised"
                      /\ call.tool = "multi_source_probe" /\ call.parallel
    BY Zenon DEF NothingStillAwaited
  <2>1. pc = "raised"
    BY DEF IInv, Quiet, Answers
  <2>2. Broken
    BY <2>1 DEF IInv, Quiet
  <2>3. PICK i \in DOMAIN steps : steps[i].out = "awaited"
    BY DEF Awaited
  <2>4. PICK j \in DOMAIN steps : Breaks(steps[j])
    BY <2>2 DEF Broken
  <2>5. i # j
    BY <2>3, <2>4 DEF Breaks
  <2>6. Gathers
    BY <2>3, <2>4, <2>5 DEF IInv, OneByOne
  <2> QED
    BY <2>1, <2>6 DEF Gathers
<1> QED
  BY <1>1, Invariance, PTL

(* A finished call has done all there was to do, as often as was wanted    *)
(* and allowed.                                                            *)
LEMMA ProbesCounted ==
  ASSUME IInv, call.tool = "multi_source_probe"
  PROVE  /\ Count({"probe"}) = Len(steps)
         /\ pc = "returned" => Len(steps) = Len(Sources)
<1>1. /\ steps \in Seq(Step) /\ Len(steps) \in Nat
      /\ DOMAIN steps = 1 .. Len(steps)
      /\ \A i \in DOMAIN steps : steps[i] \in Step
  BY StepsTyped
<1>2. IssuedOf({"probe"}) = 1 .. Len(steps)
  <2>1. MayRun = {"probe"}
    BY MayRunBy DEF IInv
  <2>2. \A i \in DOMAIN steps : steps[i].run = "probe"
    BY <1>1, <2>1 DEF Step
  <2> QED
    BY <1>1, <2>2 DEF IssuedOf
<1>3. Count({"probe"}) = Len(steps)
  <2>1. Cardinality(1 .. Len(steps)) =
          IF 1 > Len(steps) THEN 0 ELSE Len(steps) - 1 + 1
    BY <1>1, FS_Interval
  <2> QED
    BY <1>1, <1>2, <2>1 DEF Count
<1>4. pc = "returned" => Following = <<>>
  BY DEF IInv, Answers
<1> QED
  BY <1>3, <1>4, NextProbe

LEMMA OthersEnd ==
  ASSUME IInv, call.tool # "multi_source_probe", pc = "returned"
  PROVE  MayEnd
<1>1. Following = <<>>
  BY DEF IInv, Answers
<1>2. ASSUME NEW run
      PROVE  Following # <<Command(call.host, run)>>
  BY <1>1
<1> QED
  BY <1>2, NextOne

(* Whatever number is asked for, no call probes from more sources, asks    *)
(* for more routes or names, or asks twice without a pause in between than *)
(* the settings allow; and what is allowed is met in full.                 *)
THEOREM CapsKept == Spec => []WithinCaps
<1> DEFINE Met(tool, runs, wanted, limit) ==
             call.tool = tool =>
               /\ Count(runs) <= limit
               /\ pc = "returned" /\ wanted <= limit => Count(runs) >= wanted
               /\ pc = "returned" /\ wanted > limit => Count(runs) = limit
<1>1. IInv => WithinCaps
  <2> SUFFICES ASSUME IInv
               PROVE  WithinCaps
    OBVIOUS
  <2>1. /\ call.number \in Int /\ MaxSources \in Nat \ {0}
        /\ MaxFlows \in Nat \ {0} /\ MaxBurst \in Nat \ {0}
        /\ call.sources \in Seq(STRING) /\ Len(call.sources) \in Nat
    BY CallTyped, CapsTyped DEF IInv
  <2>2. Met("multi_source_probe", {"probe"}, Len(call.sources), MaxSources)
    <3> SUFFICES ASSUME call.tool = "multi_source_probe"
                 PROVE  Met("multi_source_probe", {"probe"},
                            Len(call.sources), MaxSources)
      BY Zenon
    <3>1. /\ Count({"probe"}) = Len(steps) /\ Len(steps) \in Nat
          /\ pc = "returned" => Len(steps) = Len(Sources)
          /\ Len(steps) <= Len(Sources)
      BY ProbesCounted, StepsTyped DEF IInv, InProbe
    <3>2. Len(Sources) = IF Len(call.sources) > MaxSources THEN MaxSources
                         ELSE Len(call.sources)
      BY SourcesTyped DEF IInv
    <3> QED
      BY <2>1, <3>1, <3>2
  <2>3. ASSUME call.tool \in Paths
        PROVE  /\ Count(Routes) <= Flows /\ Flows \in Nat \ {0}
               /\ Count(Routes) \in Nat
               /\ pc = "returned" => Count(Routes) = Flows
    <3>1. /\ Count(Routes) <= Flows /\ Flows \in Nat \ {0}
          /\ Count(Routes) \in Nat
      BY <2>3, FlowsTyped, IssuedOfFinite DEF IInv, InPath
    <3>2. pc = "returned" => ~ (Count(Routes) < Flows)
      BY <2>3, OthersEnd, ToolsApart DEF MayEnd
    <3> QED
      BY <3>1, <3>2
  <2>4. ASSUME call.tool = "dns_probe_burst"
        PROVE  LET left == Clamp(call.number, MaxBurst)
               IN /\ Count({"dns_dig"}) <= left /\ left \in Nat
                  /\ Count({"dns_dig"}) \in Nat
                  /\ pc = "returned" => /\ steps # <<>>
                                        /\ Count({"dns_dig"}) = left
    <3> DEFINE left == Clamp(call.number, MaxBurst)
    <3>1. /\ left \in 1 .. MaxBurst /\ Count({"dns_dig"}) \in Nat
      BY <2>1, ClampBounds, IssuedOfFinite
    <3>2. Count({"dns_dig"}) <= left
      BY <2>4 DEF IInv, InBurst
    <3>3. pc = "returned" => steps # <<>> /\ ~ (Count({"dns_dig"}) < left)
      BY <2>4, OthersEnd DEF MayEnd
    <3> HIDE DEF left
    <3>4. left \in Nat
      BY <2>1, <3>1
    <3> QED
      BY <3>1, <3>2, <3>3, <3>4 DEF left
  <2>5. Met("ecmp_path_select", Routes, call.number, MaxFlows)
    <3> SUFFICES ASSUME call.tool = "ecmp_path_select"
                 PROVE  Met("ecmp_path_select", Routes, call.number, MaxFlows)
      BY Zenon
    <3>1. call.tool \in Paths /\ Flows = Clamp(call.number, MaxFlows)
      BY DEF Paths, Flows
    <3>2. /\ Clamp(call.number, MaxFlows) \in 1 .. MaxFlows
          /\ call.number <= MaxFlows =>
               Clamp(call.number, MaxFlows) >= call.number
          /\ call.number > MaxFlows => Clamp(call.number, MaxFlows) = MaxFlows
      BY <2>1, ClampBounds
    <3> QED
      BY <2>1, <2>3, <3>1, <3>2
  <2>6. Met("dns_probe_burst", {"dns_dig"}, call.number, MaxBurst)
    <3> SUFFICES ASSUME call.tool = "dns_probe_burst"
                 PROVE  Met("dns_probe_burst", {"dns_dig"}, call.number,
                            MaxBurst)
      BY Zenon
    <3>1. /\ Clamp(call.number, MaxBurst) \in 1 .. MaxBurst
          /\ call.number <= MaxBurst =>
               Clamp(call.number, MaxBurst) >= call.number
          /\ call.number > MaxBurst => Clamp(call.number, MaxBurst) = MaxBurst
      BY <2>1, ClampBounds
    <3> QED
      BY <2>1, <2>4, <3>1
  <2>7. call.tool = "dns_probe_burst" =>
          \A i \in DOMAIN steps : i > 1 => steps[i - 1].run # steps[i].run
    BY DEF IInv, InBurst
  <2>8. pc = "returned" /\ call.tool \in Paths \cup {"dns_probe_burst"} =>
          steps # <<>>
    <3>1. CASE call.tool = "dns_probe_burst"
      BY <2>4, <3>1, ToolsApart
    <3>2. CASE call.tool \in Paths /\ pc = "returned"
      <4>1. Count(Routes) # 0
        BY <2>3, <3>2
      <4>2. steps = <<>> => IssuedOf(Routes) = {}
        BY DEF IssuedOf
      <4> QED
        BY <4>1, <4>2, FS_EmptySet DEF Count
    <3> QED
      BY <3>1, <3>2
  <2> QED
    BY <2>2, <2>5, <2>6, <2>7, <2>8, Zenon DEF WithinCaps, Count
<1> QED
  BY <1>1, Invariance, PTL

(* What a finished command of an answer may have come to.                  *)
LEMMA EndedAs ==
  ASSUME IInv, pc = "returned", NEW i \in DOMAIN steps
  PROVE  /\ steps[i].out \in Outcomes(steps[i].run) \ {"raised"}
         /\ call.tool = "multi_source_probe" => steps[i].out # "error"
<1>1. /\ steps[i].out \in Outcomes(steps[i].run) \cup {"awaited", "abandoned"}
      /\ steps[i].out # "abandoned"
  BY DEF IInv, Outcome
<1>2. steps[i].out # "awaited"
  BY DEF IInv, Answers, Awaited
<1>3. ~Breaks(steps[i])
  BY DEF IInv, Answers, Broken
<1> QED
  BY <1>1, <1>2, <1>3 DEF Breaks

(* What dict(pairs) says of a source is what its last probe came to.       *)
LEMMA ProbeRow ==
  ASSUME IInv, pc = "returned", call.tool = "multi_source_probe",
         NEW i \in DOMAIN steps,
         \A j \in DOMAIN steps : j > i => steps[j].host # steps[i].host
  PROVE  /\ steps[i].host \in DOMAIN Rows
         /\ Rows[steps[i].host] = Succeeded(steps[i])
<1> DEFINE host == steps[i].host
           LastOf(source) ==
             SelectLastInSeq(steps, LAMBDA step : step.host = source)
           theirs == {k \in 1 .. Len(steps) : steps[k].host = host}
<1>1. /\ Len(steps) \in Nat /\ DOMAIN steps = 1 .. Len(steps)
  BY StepsTyped
<1>2. LastOf(host) = IF theirs # {} THEN Max(theirs) ELSE 0
  BY Zenon DEF SelectLastInSeq
<1>3. i \in theirs /\ \A k \in theirs : k <= i
  BY <1>1
<1>4. theirs \in SUBSET (1 .. Len(steps)) /\ theirs # {}
  BY <1>3
<1>5. Max(theirs) = i
  <2>1. Max(theirs) \in theirs /\ \A k \in theirs : k <= Max(theirs)
    BY <1>1, <1>4, MaxIsGreatest
  <2> HIDE DEF theirs
  <2>2. Max(theirs) \in Nat /\ i \in Nat
    <3>1. Max(theirs) \in 1 .. Len(steps)
      BY <1>4, <2>1, Zenon
    <3> QED
      BY <1>1, <3>1
  <2>3. i <= Max(theirs) /\ Max(theirs) <= i
    BY <1>3, <2>1
  <2> QED
    BY <2>2, <2>3
<1>6. host \in Range(Sources)
  <2>1. host = Sources[i]
    BY DEF IInv, InProbe
  <2>2. i \in DOMAIN Sources
    BY <1>1, SourcesTyped DEF IInv, InProbe
  <2> QED
    BY <2>1, <2>2 DEF Range
<1>7. Rows = [source \in Range(Sources) |-> Told(steps[LastOf(source)])]
  BY Zenon DEF Rows
<1>8. call.tool \notin Paths
  BY ToolsApart
<1>9. Told(steps[i]) = Succeeded(steps[i])
  BY <1>8 DEF Told, Paths
<1> HIDE DEF LastOf, theirs
<1>10. LastOf(host) = i
  BY <1>2, <1>4, <1>5
<1> HIDE DEF host
<1>11. host \in DOMAIN Rows /\ Rows[host] = Told(steps[LastOf(host)])
  BY <1>6, <1>7
<1> QED
  BY <1>9, <1>10, <1>11 DEF host

(* What any other tool says of a command is what the command came to, if a *)
(* route counts as found when something was printed.                       *)
LEMMA OtherRow ==
  ASSUME IInv, pc = "returned", call.tool # "multi_source_probe",
         NEW i \in DOMAIN steps
  PROVE  /\ \/ i \in DOMAIN Rows
            \/ steps[i].run \in {"arp", "ndp", "ip neigh", "ip -6 neigh"}
            \/ call.tool = "path_explain"
            \/ steps[i].out = "ok"
         /\ i \in DOMAIN Rows =>
              \/ Rows[i] = Succeeded(steps[i])
              \/ steps[i].run \in Routes /\ Rows[i] = Printed(steps[i])
<1>1. DOMAIN Rows = Reported /\ \A k \in Reported : Rows[k] = Told(steps[k])
  BY DEF Rows
<1>2. steps[i] \in Step /\ call \in Calls
  BY StepsTyped DEF IInv
<1>3. steps[i].run \in MayRun
  BY <1>2 DEF Step
<1>4. CASE call.tool \in {"ndp_state", "arp_state"}
  <2>1. call.tool \in Scripted /\ call.tool \notin Plain
    BY <1>4 DEF Scripted, Plain, Requests
  <2>2. Script(call.tool, HostProfile) =
          <<Neighbors(HostProfile, call.tool = "arp_state")>>
    BY <1>4, <2>1 DEF Script
  <2>3. MayRun = Range(Script(call.tool, HostProfile))
    BY <1>2, <2>1, MayRunBy
  <2>4. PICK arp \in BOOLEAN : arp = (call.tool = "arp_state")
    OBVIOUS
  <2>5. Range(<<Neighbors(HostProfile, arp)>>) = {Neighbors(HostProfile, arp)}
    BY DEF Range
  <2>6. steps[i].run = Neighbors(HostProfile, arp)
    BY <1>3, <2>2, <2>3, <2>4, <2>5
  <2>7. i \notin Reported
    BY <1>4 DEF Reported, Paths
  <2> QED
    BY <1>1, <2>6, <2>7, RouteWords
<1>8. CASE call.tool = "path_explain"
  <2>1. Reported = {}
    BY <1>8 DEF Reported
  <2> QED
    BY <1>1, <1>8, <2>1
<1>5. CASE call.tool = "ecmp_path_select"
  <2>1. Reported = IssuedOf(Routes)
    BY <1>5 DEF Reported, Paths
  <2>2. \/ steps[i].run \in Routes
        \/ steps[i].run \in {"arp", "ndp", "ip neigh", "ip -6 neigh"}
    <3>1. MayRun = {Route(HostProfile), Neighbors(HostProfile, TRUE),
                    Neighbors(HostProfile, FALSE)}
      BY <1>2, <1>5, MayRunBy DEF Paths
    <3>2. /\ Route(HostProfile) \in Routes
          /\ Neighbors(HostProfile, TRUE)
               \in {"arp", "ndp", "ip neigh", "ip -6 neigh"}
          /\ Neighbors(HostProfile, FALSE)
               \in {"arp", "ndp", "ip neigh", "ip -6 neigh"}
      BY RouteWords
    <3> QED
      BY <1>3, <3>1, <3>2, Zenon
  <2>3. Told(steps[i]) = Printed(steps[i])
    BY <1>5, Zenon DEF Told
  <2>4. i \in Reported <=> steps[i].run \in Routes
    BY <2>1 DEF IssuedOf
  <2> QED
    BY <1>1, <2>2, <2>3, <2>4
<1>6. CASE call.tool = "dns_probe_burst"
  <2>1. Reported = IssuedOf({"dns_dig"}) /\ call.tool \notin Paths
    BY <1>6 DEF Reported, Paths
  <2>2. Told(steps[i]) = Succeeded(steps[i])
    BY <2>1 DEF Told, Paths
  <2>3. steps[i].run \in {"dns_dig", "pause"}
    BY <1>2, <1>3, <1>6, MayRunBy
  <2>4. steps[i].run = "pause" => steps[i].out = "ok"
    BY EndedAs DEF Outcomes, Requests
  <2>5. steps[i].run = "dns_dig" => i \in Reported
    BY <2>1 DEF IssuedOf
  <2> QED
    BY <1>1, <2>2, <2>3, <2>4, <2>5
<1>7. CASE call.tool \notin {"ndp_state", "arp_state", "dns_probe_burst"}
                              \cup Paths
  <2>1. Reported = DOMAIN steps
    BY <1>7 DEF Reported, Paths
  <2>2. Told(steps[i]) = Succeeded(steps[i])
    BY <1>7 DEF Told, Paths
  <2> QED
    BY <1>1, <2>1, <2>2
<1> QED
  BY <1>4, <1>5, <1>6, <1>7, <1>8 DEF Paths

(* An answer says of every command that failed that it failed, and of none *)
(* that succeeded, but for neighbor tables that could not be read, a path  *)
(* that is explained, a flow's route printed by a failing command, and a   *)
(* source that is given twice.                                             *)
THEOREM AnswersTrue == Spec => []AnswerIsTrue
<1>1. IInv => AnswerIsTrue
  <2> SUFFICES ASSUME IInv, NEW result \in answer, NEW i \in DOMAIN steps
               PROVE
        LET probe == call.tool = "multi_source_probe"
            label == IF probe THEN steps[i].host ELSE i
            says == label \in DOMAIN result.rows
            overwritten == \E j \in DOMAIN steps :
                             probe /\ j > i /\ steps[j].host = steps[i].host
        IN /\ steps[i].out \notin {"ok", "silent", "via4", "via6"} =>
                \/ says /\ ~result.rows[label]
                \/ steps[i].run \in {"arp", "ndp", "ip neigh", "ip -6 neigh"}
                \/ call.tool = "path_explain"
                \/ steps[i].run \in Routes /\ steps[i].out = "failed"
                \/ overwritten
           /\ steps[i].out \in {"ok", "via4", "via6"} /\ says =>
                result.rows[label] \/ overwritten
    BY Zenon DEF AnswerIsTrue
  <2>1. pc = "returned" /\ result.rows = Rows
    BY DEF IInv, Answers
  <2>2. /\ steps[i].out \in Outs
        /\ Succeeded(steps[i]) <=>
             steps[i].out \in {"ok", "silent", "via4", "via6"}
        /\ Printed(steps[i]) <=>
             steps[i].out \in {"ok", "failed", "via4", "via6"}
    BY StepsTyped DEF Step, Succeeded, Printed, Hop
  <2>3. CASE call.tool = "multi_source_probe"
    <3>1. CASE \E j \in DOMAIN steps : j > i /\ steps[j].host = steps[i].host
      BY <2>3, <3>1
    <3>2. CASE \A j \in DOMAIN steps : j > i => steps[j].host # steps[i].host
      <4>1. /\ steps[i].host \in DOMAIN Rows
            /\ Rows[steps[i].host] = Succeeded(steps[i])
        BY <2>1, <2>3, <3>2, ProbeRow
      <4> QED
        BY <2>1, <2>2, <2>3, <4>1
    <3> QED
      BY <3>1, <3>2
  <2>4. CASE call.tool # "multi_source_probe"
    <3>1. /\ \/ i \in DOMAIN Rows
             \/ steps[i].run \in {"arp", "ndp", "ip neigh", "ip -6 neigh"}
             \/ call.tool = "path_explain"
             \/ steps[i].out = "ok"
          /\ i \in DOMAIN Rows =>
               \/ Rows[i] = Succeeded(steps[i])
               \/ steps[i].run \in Routes /\ Rows[i] = Printed(steps[i])
      BY <2>1, <2>4, OtherRow
    <3> QED
      BY <2>1, <2>2, <2>4, <3>1
  <2> QED
    BY <2>3, <2>4
<1> QED
  BY <1>1, Invariance, PTL

(* The hosts file describes hosts of the three systems, each as run by its *)
(* own services and firewall, and no two of them with the same alias.      *)
OwnSystems(hosts) ==
  /\ \A entry \in Range(hosts) :
       LET os == Default(entry.os, "linux")
       IN /\ os \in {"linux", "freebsd", "openbsd"}
          /\ entry.init_system \in {None, DefaultInitSystem(os)}
          /\ entry.firewall \in {None, DefaultFirewall(os)}
  /\ \A entry1, entry2 \in Range(hosts) :
       entry1.aliases \cap entry2.aliases # {} => entry1 = entry2

(* What a host of this system cannot run.                                  *)
Foreign(os) ==
  LET Linux == {"systemctl", "journalctl", "nft", "ss", "ip neigh",
                "ip -6 neigh", "ip -6 route get"}
      FreeBSD == {"service", "sockstat", "route get"}
      OpenBSD == {"rcctl", "netstat"}
      Either == {"pfctl -sr", "pfctl -s Tables", "pflog", "arp", "ndp"}
  IN [linux |-> FreeBSD \cup OpenBSD \cup Either,
      freebsd |-> Linux \cup OpenBSD,
      openbsd |-> (Linux \cup FreeBSD) \ {"ip -6 route get"}][os]

(* What such a host can do, and only that, is what its profile says.       *)
LEMMA ProfileOfSystem ==
  ASSUME NEW entry, NEW os \in {"linux", "freebsd", "openbsd"},
         os = Default(entry.os, "linux"),
         entry.init_system \in {None, DefaultInitSystem(os)},
         entry.firewall \in {None, DefaultFirewall(os)}
  PROVE  LET profile == Profile(entry)
         IN /\ profile.os_family = os
            /\ SupportsSystemd(profile) <=> os = "linux"
            /\ SupportsService(profile) <=> os = "freebsd"
            /\ SupportsRcctl(profile) <=> os = "openbsd"
            /\ SupportsNft(profile) <=> os = "linux"
            /\ SupportsPf(profile) <=> os \in {"freebsd", "openbsd"}
<1> DEFINE profile == Profile(entry)
<1>1. /\ profile.os_family = os
      /\ profile.init_system = DefaultInitSystem(os)
      /\ profile.firewall = DefaultFirewall(os)
  BY DEF Profile, Default
<1> HIDE DEF profile
<1>2. /\ SupportsSystemd(profile) <=> os = "linux"
      /\ SupportsService(profile) <=> os = "freebsd"
      /\ SupportsRcctl(profile) <=> os = "openbsd"
  BY <1>1 DEF SupportsSystemd, SupportsService, SupportsRcctl,
              DefaultInitSystem
<1>3. /\ SupportsNft(profile) <=> os = "linux"
      /\ SupportsPf(profile) <=> os \in {"freebsd", "openbsd"}
  BY <1>1 DEF SupportsNft, SupportsPf, DefaultFirewall
<1> QED
  BY <1>1, <1>2, <1>3 DEF profile

LEMMA ForeignWords ==
  /\ Foreign("linux") = {"service", "sockstat", "route get", "rcctl", "netstat",
                         "pfctl -sr", "pfctl -s Tables", "pflog", "arp", "ndp"}
  /\ Foreign("freebsd") = {"systemctl", "journalctl", "nft", "ss", "ip neigh",
                           "ip -6 neigh", "ip -6 route get", "rcctl", "netstat"}
  /\ Foreign("openbsd") = {"systemctl", "journalctl", "nft", "ss", "ip neigh",
                           "ip -6 neigh", "service", "sockstat", "route get"}
<1>1. Foreign("linux") = {"service", "sockstat", "route get", "rcctl", "netstat",
                          "pfctl -sr", "pfctl -s Tables", "pflog", "arp", "ndp"}
  BY DEF Foreign
<1>2. Foreign("freebsd") = {"systemctl", "journalctl", "nft", "ss", "ip neigh",
                            "ip -6 neigh", "ip -6 route get", "rcctl",
                            "netstat"}
  BY DEF Foreign
<1>3. Foreign("openbsd") = {"systemctl", "journalctl", "nft", "ss", "ip neigh",
                            "ip -6 neigh", "service", "sockstat", "route get"}
  BY DEF Foreign
<1> QED
  BY <1>1, <1>2, <1>3, Zenon

LEMMA NativeWords ==
  ASSUME NEW os, NEW run,
         \/ /\ os = "linux"
            /\ run \in {"systemctl", "journalctl", "nft", "ss", "ip neigh",
                       "ip -6 neigh", "ip -6 route get"}
         \/ /\ os = "freebsd"
            /\ run \in {"service", "sockstat", "route get", "pfctl -sr",
                       "pfctl -s Tables", "pflog", "arp", "ndp"}
         \/ /\ os = "openbsd"
            /\ run \in {"rcctl", "netstat", "ip -6 route get", "pfctl -sr",
                       "pfctl -s Tables", "pflog", "arp", "ndp"}
         \/ /\ os \in {"linux", "freebsd", "openbsd"}
            /\ run \in Plain \cup {"icinga hosts", "icinga services", "tail",
                                  "grep", "probe", "dns_dig", "pause"}
  PROVE  run \notin Foreign(os)
<1>1. CASE os = "linux"
  <2>1. run \notin Foreign("linux")
    BY <1>1, ForeignWords DEF Plain, Requests
  <2> QED
    BY <1>1, <2>1
<1>2. CASE os = "freebsd"
  <2>1. run \notin Foreign("freebsd")
    BY <1>2, ForeignWords DEF Plain, Requests
  <2> QED
    BY <1>2, <2>1
<1>3. CASE os = "openbsd"
  <2>1. run \notin Foreign("openbsd")
    BY <1>3, ForeignWords DEF Plain, Requests
  <2> QED
    BY <1>3, <2>1
<1> QED
  BY <1>1, <1>2, <1>3

LEMMA RangeWords ==
  ASSUME NEW a, NEW b
  PROVE  Range(<<a>>) = {a} /\ Range(<<a, b>>) = {a, b}
<1>1. Range(<<a>>) = {a}
  BY DEF Range
<1>2. Range(<<a, b>>) = {a, b}
  <2>1. DOMAIN <<a, b>> = {1, 2} /\ <<a, b>>[1] = a /\ <<a, b>>[2] = b
    OBVIOUS
  <2> QED
    BY <2>1 DEF Range
<1> QED
  BY <1>1, <1>2

LEMMA ScriptSuits ==
  ASSUME NEW tool \in Scripted, NEW profile,
         NEW os \in {"linux", "freebsd", "openbsd"},
         profile.os_family = os,
         SupportsSystemd(profile) <=> os = "linux",
         SupportsService(profile) <=> os = "freebsd",
         SupportsRcctl(profile) <=> os = "openbsd",
         SupportsNft(profile) <=> os = "linux",
         SupportsPf(profile) <=> os \in {"freebsd", "openbsd"}
  PROVE  \A run \in Range(Script(tool, profile)) : run \notin Foreign(os)
<1> DEFINE script == Script(tool, profile)
<1>1. ASSUME NEW supported \in BOOLEAN, NEW word, NEW run,
             run \in Range(If(supported, word))
      PROVE  supported /\ run = word
  <2>1. CASE supported
    BY <1>1, <2>1 DEF If, Range
  <2>2. CASE ~supported
    BY <1>1, <2>2 DEF If, Range
  <2> QED
    BY <2>1, <2>2
<1>14. /\ SupportsSystemd(profile) \in BOOLEAN
       /\ SupportsRcctl(profile) \in BOOLEAN
       /\ SupportsPf(profile) \in BOOLEAN
       /\ SupportsNft(profile) \in BOOLEAN
  BY DEF SupportsSystemd, SupportsRcctl, SupportsPf, SupportsNft
<1>2. CASE tool \in Plain
  <2>1. script = <<tool>>
    BY <1>2 DEF Script, Plain, Requests
  <2>2. Range(<<tool>>) = {tool}
    BY RangeWords
  <2>3. tool \notin Foreign(os)
    BY <1>2, NativeWords
  <2> QED
    BY <2>1, <2>2, <2>3
<1>3. CASE tool = "icinga_get_host_state"
  <2>1. script = <<"icinga hosts", "icinga services">>
    BY <1>3 DEF Script, Plain, Requests
  <2>2. Range(<<"icinga hosts", "icinga services">>) =
          {"icinga hosts", "icinga services"}
    BY RangeWords
  <2>3. "icinga hosts" \notin Foreign(os) /\ "icinga services" \notin Foreign(os)
    BY NativeWords
  <2>4. Range(script) = {"icinga hosts", "icinga services"}
    BY <2>1, <2>2, Zenon
  <2> QED
    BY <2>3, <2>4
<1>4. CASE tool \in {"os_systemd_status", "vault_agent_status"}
  <2>1. script = If(SupportsSystemd(profile), "systemctl")
    BY <1>4 DEF Script, Plain, Requests
  <2>2. os = "linux" => "systemctl" \notin Foreign(os)
    BY NativeWords
  <2> QED
    BY <1>1, <1>14, <2>1, <2>2
<1>5. CASE tool \in {"os_journalctl", "service_restart_history"}
  <2>1. script = If(SupportsSystemd(profile), "journalctl")
    BY <1>5 DEF Script, Plain, Requests
  <2>2. os = "linux" => "journalctl" \notin Foreign(os)
    BY NativeWords
  <2> QED
    BY <1>1, <1>14, <2>1, <2>2
<1>6. CASE tool = "os_rcctl_check"
  <2>1. script = If(SupportsRcctl(profile), "rcctl")
    BY <1>6 DEF Script, Plain, Requests
  <2>2. os = "openbsd" => "rcctl" \notin Foreign(os)
    BY NativeWords
  <2> QED
    BY <1>1, <1>14, <2>1, <2>2
<1>7. CASE tool = "os_service_status"
  <2>1. script = ServiceStatus(profile)
    BY <1>7 DEF Script, Plain, Requests
  <2>2. script = CASE os = "freebsd" -> <<"service">>
                   [] os = "openbsd" -> <<"rcctl">>
                   [] OTHER -> <<"systemctl">>
    BY <2>1 DEF ServiceStatus, If
  <2>3. \A word : Range(<<word>>) = {word}
    BY RangeWords
  <2>4. /\ os = "freebsd" => "service" \notin Foreign(os)
        /\ os = "openbsd" => "rcctl" \notin Foreign(os)
        /\ os = "linux" => "systemctl" \notin Foreign(os)
    BY NativeWords
  <2> QED
    BY <2>2, <2>3, <2>4
<1>8. CASE tool = "os_service_logs"
  <2>1. script = ServiceLogs(profile)
    BY <1>8 DEF Script, Plain, Requests
  <2>2. script = IF os = "linux" THEN <<"journalctl">> ELSE <<"tail", "grep">>
    BY <2>1 DEF ServiceLogs
  <2>3. /\ Range(<<"journalctl">>) = {"journalctl"}
        /\ Range(<<"tail", "grep">>) = {"tail", "grep"}
    BY RangeWords
  <2>4. /\ os = "linux" => "journalctl" \notin Foreign(os)
        /\ "tail" \notin Foreign(os) /\ "grep" \notin Foreign(os)
    BY NativeWords
  <2> QED
    BY <2>2, <2>3, <2>4
<1>9. CASE tool = "pf_log_tail"
  <2>1. script = If(SupportsPf(profile), "pflog")
    BY <1>9 DEF Script, Plain, Requests
  <2>2. os \in {"freebsd", "openbsd"} => "pflog" \notin Foreign(os)
    BY NativeWords
  <2> QED
    BY <1>1, <1>14, <2>1, <2>2
<1>10. CASE tool = "nft_log_tail"
  <2>1. script = If(SupportsNft(profile), "journalctl")
    BY <1>10 DEF Script, Plain, Requests
  <2>2. os = "linux" => "journalctl" \notin Foreign(os)
    BY NativeWords
  <2> QED
    BY <1>1, <1>14, <2>1, <2>2
<1>11. CASE tool = "firewall_state"
  <2>1. script = Firewall(profile)
    BY <1>11 DEF Script, Plain, Requests
  <2>2. script = IF os = "linux" THEN <<>> \o <<"nft">>
                 ELSE <<"pfctl -sr", "pfctl -s Tables">> \o <<>>
    BY <2>1 DEF Firewall, If
  <2>3. /\ <<>> \o <<"nft">> = <<"nft">>
        /\ <<"pfctl -sr", "pfctl -s Tables">> \o <<>> =
             <<"pfctl -sr", "pfctl -s Tables">>
    OBVIOUS
  <2>4. /\ Range(<<"nft">>) = {"nft"}
        /\ Range(<<"pfctl -sr", "pfctl -s Tables">>) =
             {"pfctl -sr", "pfctl -s Tables"}
    BY RangeWords
  <2>5. /\ os = "linux" => "nft" \notin Foreign(os)
        /\ os # "linux" => /\ "pfctl -sr" \notin Foreign(os)
                           /\ "pfctl -s Tables" \notin Foreign(os)
    BY NativeWords
  <2> QED
    BY <2>2, <2>3, <2>4, <2>5
<1>12. CASE tool \in {"ndp_state", "arp_state"}
  <2>1. PICK arp \in BOOLEAN : arp = (tool = "arp_state")
    OBVIOUS
  <2>2. script = <<Neighbors(profile, arp)>>
    BY <1>12, <2>1 DEF Script, Plain, Requests
  <2>3. Range(<<Neighbors(profile, arp)>>) = {Neighbors(profile, arp)}
    BY RangeWords
  <2>4. Neighbors(profile, arp)
          \in IF os = "linux" THEN {"ip neigh", "ip -6 neigh"}
             ELSE {"arp", "ndp"}
    BY DEF Neighbors, BSD
  <2>5. Neighbors(profile, arp) \notin Foreign(os)
    BY <2>4, NativeWords
  <2> QED
    BY <2>2, <2>3, <2>5
<1>13. CASE tool = "socket_listeners"
  <2>1. script = <<Listeners(profile)>>
    BY <1>13 DEF Script, Plain, Requests
  <2>2. Range(<<Listeners(profile)>>) = {Listeners(profile)}
    BY RangeWords
  <2>3. Listeners(profile) = CASE os = "freebsd" -> "sockstat"
                               [] os = "openbsd" -> "netstat"
                               [] OTHER -> "ss"
    BY DEF Listeners
  <2>4. Listeners(profile) \notin Foreign(os)
    BY <2>3, NativeWords
  <2> QED
    BY <2>1, <2>2, <2>4
<1> HIDE DEF script
<1> QED
  BY <1>2, <1>3, <1>4, <1>5, <1>6, <1>7, <1>8, <1>9, <1>10, <1>11, <1>12,
     <1>13, Zenon DEF Scripted, script

LEMMA MayRunSuits ==
  ASSUME IInv, NEW os \in {"linux", "freebsd", "openbsd"},
         call.tool # "multi_source_probe",
         HostProfile.os_family = os,
         SupportsSystemd(HostProfile) <=> os = "linux",
         SupportsService(HostProfile) <=> os = "freebsd",
         SupportsRcctl(HostProfile) <=> os = "openbsd",
         SupportsNft(HostProfile) <=> os = "linux",
         SupportsPf(HostProfile) <=> os \in {"freebsd", "openbsd"}
  PROVE  \A run \in MayRun : run \notin Foreign(os)
<1>1. call \in Calls /\ call.tool \in Tools
  BY CallTyped DEF IInv
<1>2. CASE call.tool \in Scripted
  <2>1. MayRun = Range(Script(call.tool, HostProfile))
    BY <1>1, <1>2, MayRunBy
  <2>2. \A run \in Range(Script(call.tool, HostProfile)) : run \notin Foreign(os)
    BY <1>2, ScriptSuits
  <2> QED
    BY <2>1, <2>2
<1>3. CASE call.tool = "dns_probe_burst"
  <2>1. MayRun = {"dns_dig", "pause"}
    BY <1>1, <1>3, MayRunBy
  <2> QED
    BY <2>1, NativeWords
<1>4. CASE call.tool \in Paths
  <2>1. MayRun = {Route(HostProfile), Neighbors(HostProfile, TRUE),
                  Neighbors(HostProfile, FALSE)}
    BY <1>1, <1>4, MayRunBy
  <2>2. Route(HostProfile) \notin Foreign(os)
    <3>1. Route(HostProfile) = IF os = "freebsd" THEN "route get"
                               ELSE "ip -6 route get"
      BY DEF Route
    <3> QED
      BY <3>1, NativeWords
  <2>3. ASSUME NEW arp \in BOOLEAN
        PROVE  Neighbors(HostProfile, arp) \notin Foreign(os)
    <3>1. Neighbors(HostProfile, arp)
            \in IF os = "linux" THEN {"ip neigh", "ip -6 neigh"}
               ELSE {"arp", "ndp"}
      BY DEF Neighbors, BSD
    <3> QED
      BY <3>1, NativeWords
  <2>4. /\ Neighbors(HostProfile, TRUE) \notin Foreign(os)
        /\ Neighbors(HostProfile, FALSE) \notin Foreign(os)
    BY <2>3
  <2> QED
    BY <2>1, <2>2, <2>4, Zenon
<1> QED
  BY <1>1, <1>2, <1>3, <1>4, ToolsApart

(* On a host that the hosts file describes, by whatever name it is called, *)
(* a tool runs only what the host's system has, whatever the file says, if *)
(* it describes hosts of the three systems, each as run by its own         *)
(* services and firewall, and uses no alias twice.                         *)
THEOREM CommandsSuit ==
  ASSUME OwnSystems(Inventory)
  PROVE  Spec => []CommandsSuitHost
<1> DEFINE named == {entry \in Range(Inventory) : call.host = entry.name}
           aliased == {entry \in Range(Inventory) : call.host \in entry.aliases}
           byName == {i \in DOMAIN Inventory : call.host = Inventory[i].name}
           byAlias == {i \in DOMAIN Inventory :
                         call.host \in Inventory[i].aliases}
<1>1. /\ Inventory \in Seq(HostEntry)
      /\ \A i, j \in DOMAIN Inventory :
           Inventory[i].name = Inventory[j].name => i = j
  BY InventoryAssumption, Zenon DEF HostsFile
<1>2. ASSUME NEW entry
      PROVE  entry \in Range(Inventory) <=>
               \E i \in DOMAIN Inventory : entry = Inventory[i]
  BY Zenon DEF Range
<1>3. ASSUME NEW entry \in IF named # {} THEN named ELSE aliased
      PROVE  HostProfile = Profile(entry)
  <2>1. CASE /\ byName # {} /\ Min(byName) \in byName
             /\ HostProfile = Profile(Inventory[Min(byName)])
    <3>1. PICK i \in byName : HostProfile = Profile(Inventory[i])
      BY <2>1
    <3>2. Inventory[i] \in named
      BY <1>2, <3>1
    <3>3. entry = Inventory[i]
      BY <1>1, <1>2, <1>3, <3>1, <3>2
    <3> QED
      BY <3>1, <3>3
  <2>2. CASE /\ byName = {} /\ byAlias # {} /\ Min(byAlias) \in byAlias
             /\ HostProfile = Profile(Inventory[Min(byAlias)])
    <3>1. PICK i \in byAlias : HostProfile = Profile(Inventory[i])
      BY <2>2
    <3>2. named = {}
      BY <1>2, <2>2
    <3>3. /\ entry \in Range(Inventory) /\ call.host \in entry.aliases
          /\ Inventory[i] \in Range(Inventory)
          /\ call.host \in Inventory[i].aliases
      BY <1>2, <1>3, <3>1, <3>2
    <3>4. entry = Inventory[i]
      BY <3>3, Zenon DEF OwnSystems
    <3> QED
      BY <3>1, <3>4
  <2>3. CASE byName = {} /\ byAlias = {}
    <3>1. named = {} /\ aliased = {}
      BY <1>2, <2>3
    <3> QED
      BY <1>3, <3>1
  <2> QED
    BY <1>1, <2>1, <2>2, <2>3, ResolveFinds DEF HostProfile
<1>4. IInv => CommandsSuitHost
  <2> SUFFICES ASSUME IInv,
                      NEW entry \in IF named # {} THEN named ELSE aliased,
                      NEW i \in DOMAIN steps
               PROVE  steps[i].run \notin Foreign(Default(entry.os, "linux"))
    BY Zenon DEF CommandsSuitHost, Foreign
  <2> DEFINE os == Default(entry.os, "linux")
  <2>1. steps[i].run \in MayRun /\ call \in Calls
    BY StepsTyped DEF Step, IInv
  <2>2. entry \in Range(Inventory)
    OBVIOUS
  <2>3. /\ os \in {"linux", "freebsd", "openbsd"}
        /\ entry.init_system \in {None, DefaultInitSystem(os)}
        /\ entry.firewall \in {None, DefaultFirewall(os)}
    BY <2>2, Zenon DEF OwnSystems
  <2>4. HostProfile = Profile(entry)
    BY <1>3
  <2> HIDE DEF named, aliased
  <2>5. CASE call.tool = "multi_source_probe"
    <3>1. MayRun = {"probe"}
      BY <2>1, <2>5, MayRunBy
    <3>2. steps[i].run = "probe"
      BY <2>1, <3>1
    <3> QED
      BY <2>3, <3>2, NativeWords
  <2>6. CASE call.tool # "multi_source_probe"
    <3>1. PICK system \in {"linux", "freebsd", "openbsd"} : system = os
      BY <2>3
    <3>2. /\ HostProfile.os_family = system
          /\ SupportsSystemd(HostProfile) <=> system = "linux"
          /\ SupportsService(HostProfile) <=> system = "freebsd"
          /\ SupportsRcctl(HostProfile) <=> system = "openbsd"
          /\ SupportsNft(HostProfile) <=> system = "linux"
          /\ SupportsPf(HostProfile) <=> system \in {"freebsd", "openbsd"}
      BY <2>3, <2>4, <3>1, ProfileOfSystem
    <3>3. \A run \in MayRun : run \notin Foreign(system)
      BY <2>6, <3>2, MayRunSuits
    <3> QED
      BY <2>1, <3>1, <3>3
  <2> QED
    BY <2>5, <2>6
<1> QED
  BY <1>4, Invariance, PTL

===============================================================================
