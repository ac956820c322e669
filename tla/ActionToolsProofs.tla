-------------------------- MODULE ActionToolsProofs --------------------------
(***************************************************************************)
(* What holds of ActionTools for all settings, hosts files, authorizations *)
(* and names that callers may come with.                                   *)
(***************************************************************************)
EXTENDS ActionTools, HostProfilesProofs

(* No reason to refuse: what Objects lists, and nothing of it is the case. *)
Accepts(class, host, service, lists, payload, secret, now) ==
  /\ secret
  /\ payload.given /\ payload.complete /\ payload.signature = "genuine"
  /\ payload.class = class
  /\ payload.expiry \notin {Garbled, Infinite}
  /\ payload.expiry \in Int => ~Expired(payload.expiry, now)
  /\ ~Outside(host, lists.hosts)
  /\ ~Outside(service, lists.services)

Verdicts == {Reasons[i] : i \in DOMAIN Reasons} \cup {"accepted", "disabled"}

Call ==
  [pc : {"idle", "waiting", "ended"}, tool : Tools \cup {None}, host : Hosts,
   service : Services, ttl : Ttls, payload : Payloads \cup {None},
   verdict : Verdicts \cup {"none"}, at : Time]

(* What a verdict on the call says of the authorization when it was looked *)
(* at.                                                                     *)
VerdictTrue ==
  /\ call.verdict = "accepted" =>
       /\ Enabled(call.tool)
       /\ Accepts(ActionClass(call.tool), call.host, call.service,
                  AllowLists(call.tool), call.payload, settings.secret, call.at)
  /\ call.verdict = "expired" =>
       call.payload.expiry \in Int /\ Expired(call.payload.expiry, call.at)

(* Where a call is: not made, or refused or accepted; if it waits, for     *)
(* what it can do.                                                         *)
InOrder ==
  /\ call.pc = "idle" <=> call.verdict = "none"
  /\ call.pc # "idle" => call.tool \in Tools /\ call.payload \in Payloads
  /\ call.pc = "waiting" =>
       /\ call.verdict = "accepted"
       /\ call.tool \notin GuardTools
       /\ call.tool \in Restarts => Runs(call.tool, call.host, call.service)

(* An effect is that of the call, and the call was accepted.               *)
EffectOfCall ==
  effect # None =>
    /\ call.pc = "ended"
    /\ call.verdict = "accepted"
    /\ \/ /\ call.tool \in Restarts
          /\ Runs(call.tool, call.host, call.service)
          /\ effect = Restart(call.tool, call.host, call.service)
       \/ /\ call.tool = Acknowledgement
          /\ effect = Acknowledge(call.host, call.service)
       \/ /\ call.tool \in GuardTools
          /\ call.tool \in Decisions \/ GuardTtl(call.ttl) > 0
          /\ effect = ChangeGuard(call.tool, call.host, call.service, call.ttl)

(* The inductive invariant.  A call that waits carries the verdict it was  *)
(* given, and the effect comes from the call alone: so what the gate has   *)
(* seen still holds when the effect comes, however late.                   *)
IInv ==
  /\ clock \in Time
  /\ settings \in Settings
  /\ call \in Call
  /\ call.at <= clock
  /\ VerdictTrue
  /\ InOrder
  /\ EffectOfCall

-------------------------------------------------------------------------------
(* The verdict *)

(* The first reason found is the verdict, and it is the case.              *)
LEMMA VerdictIsFirst ==
  ASSUME NEW class, NEW host, NEW service, NEW lists, NEW payload, NEW secret,
         NEW now
  PROVE  LET verdict == Verdict(class, host, service, lists, payload, secret,
                                now)
             objects == Objects(class, host, service, lists, payload, secret,
                                now)
         IN \/ /\ verdict = "accepted"
               /\ \A i \in DOMAIN Reasons : ~objects[Reasons[i]]
            \/ \E i \in DOMAIN Reasons :
                 verdict = Reasons[i] /\ objects[Reasons[i]]
<1> DEFINE objects == Objects(class, host, service, lists, payload, secret,
                              now)
           found == {i \in DOMAIN Reasons : objects[Reasons[i]]}
           verdict == Verdict(class, host, service, lists, payload, secret, now)
<1>1. DOMAIN Reasons \subseteq Nat
  BY DEF Reasons
<1>2. verdict = IF found = {} THEN "accepted" ELSE Reasons[Min(found)]
  BY DEF Verdict
<1>3. found # {} => Min(found) \in found
  BY <1>1, MinIsLeast
<1> QED
  BY <1>2, <1>3

LEMMA VerdictSound ==
  ASSUME NEW class, NEW host, NEW service, NEW lists, NEW payload, NEW secret,
         NEW now
  PROVE  LET verdict == Verdict(class, host, service, lists, payload, secret,
                                now)
         IN /\ verdict \in Verdicts \ {"disabled"}
            /\ verdict = "accepted" =>
                 Accepts(class, host, service, lists, payload, secret, now)
            /\ verdict = "expired" =>
                 payload.expiry \in Int /\ Expired(payload.expiry, now)
<1> DEFINE objects == Objects(class, host, service, lists, payload, secret,
                              now)
           verdict == Verdict(class, host, service, lists, payload, secret, now)
<1>1. \/ /\ verdict = "accepted"
         /\ \A i \in DOMAIN Reasons : ~objects[Reasons[i]]
      \/ \E i \in DOMAIN Reasons : verdict = Reasons[i] /\ objects[Reasons[i]]
  BY VerdictIsFirst
<1>2. /\ \A i \in DOMAIN Reasons :
           Reasons[i] \notin {"accepted", "disabled", "none"}
      /\ DOMAIN Reasons = 1 .. 11
  BY DEF Reasons
<1>3. verdict \in Verdicts \ {"disabled"}
  BY <1>1, <1>2 DEF Verdicts
<1>4. ASSUME verdict = "accepted"
      PROVE  Accepts(class, host, service, lists, payload, secret, now)
  <2>1. \A i \in DOMAIN Reasons : ~objects[Reasons[i]]
    BY <1>1, <1>2, <1>4
  <2>2. /\ ~objects["missing_secret"] /\ ~objects["missing_authorization"]
        /\ ~objects["malformed_authorization"]
        /\ ~objects["action_class_mismatch"] /\ ~objects["invalid_expiry"]
        /\ ~objects["overflow"] /\ ~objects["expired"]
        /\ ~objects["type_error"]
        /\ ~objects["invalid_signature"] /\ ~objects["host_not_allowed"]
        /\ ~objects["service_not_allowed"]
    BY <1>2, <2>1 DEF Reasons
  <2> QED
    BY <2>2 DEF Objects, Accepts
<1>5. ASSUME verdict = "expired"
      PROVE  payload.expiry \in Int /\ Expired(payload.expiry, now)
  <2>1. objects["expired"]
    BY <1>1, <1>5
  <2> QED
    BY <2>1 DEF Objects
<1> QED
  BY <1>3, <1>4, <1>5

-------------------------------------------------------------------------------
(* The invariant *)

LEMMA VerdictWords ==
  /\ "none" \notin Verdicts
  /\ "accepted" \in Verdicts /\ "disabled" \in Verdicts
  /\ "disabled" # "accepted" /\ "disabled" # "expired"
BY DEF Verdicts, Reasons

LEMMA NamedStays ==
  ASSUME NEW tool, NEW host, NEW service
  PROVE  /\ NamedHost(tool, NamedHost(tool, host)) = NamedHost(tool, host)
         /\ NamedService(tool, NamedService(tool, service)) =
              NamedService(tool, service)
         /\ tool \notin GuardTools => /\ NamedHost(tool, host) = host
                                     /\ NamedService(tool, service) = service
BY DEF NamedHost, NamedService, GuardTools

LEMMA ClockIsNat ==
  ASSUME clock \in Time
  PROVE  clock \in Nat /\ clock <= MaxTime
<1>1. MaxTime \in Nat
  BY ToolsAssumption, Zenon
<1> QED
  BY <1>1 DEF Time

(* Whatever a call is answered at first, the answer is true.               *)
LEMMA AnswerTrue ==
  ASSUME IInv,
         NEW tool \in Tools, NEW host \in Hosts, NEW service \in Services,
         NEW ttl \in TtlsFor(tool), NEW payload \in Payloads,
         NEW pc \in {"waiting", "ended"}, NEW verdict \in Verdicts,
         call' = Asked(tool, host, service, ttl, payload, pc, verdict),
         UNCHANGED <<clock, settings>>,
         IF Enabled(tool)
         THEN verdict = VerdictOn(tool, host, service, payload)
         ELSE verdict = "disabled"
  PROVE  /\ call' \in Call
         /\ call'.at <= clock'
         /\ VerdictTrue'
<1> DEFINE h == NamedHost(tool, host)
           n == NamedService(tool, service)
<1>1. h \in Hosts /\ n \in Services /\ ttl \in Ttls
  <2>1. "" \in Hosts /\ "" \in Services /\ 0 \in Ttls
    BY ToolsAssumption, Zenon
  <2> QED
    BY <2>1, Zenon DEF NamedHost, NamedService, TtlsFor
<1>2. /\ call'.pc = pc /\ call'.tool = tool /\ call'.host = h
      /\ call'.service = n /\ call'.ttl = ttl /\ call'.payload = payload
      /\ call'.verdict = verdict /\ call'.at = clock
  BY DEF Asked
<1>3. call' \in Call
  BY <1>1 DEF Asked, Call, IInv
<1>4. call'.at <= clock'
  <2>1. clock \in Nat
    BY ClockIsNat, Zenon DEF IInv
  <2> QED
    BY <1>2, <2>1
<1>5. VerdictTrue'
  <2> DEFINE v == Verdict(ActionClass(tool), h, n, AllowLists(tool), payload,
                          settings.secret, clock)
  <2>1. /\ v = "accepted" =>
             Accepts(ActionClass(tool), h, n, AllowLists(tool), payload,
                     settings.secret, clock)
        /\ v = "expired" =>
             payload.expiry \in Int /\ Expired(payload.expiry, clock)
    BY VerdictSound
  <2>2. /\ verdict = "accepted" => Enabled(tool) /\ v = "accepted"
        /\ verdict = "expired" => v = "expired"
    BY VerdictWords DEF VerdictOn
  <2>3. /\ Enabled(call.tool)' = Enabled(tool)
        /\ AllowLists(call.tool)' = AllowLists(tool)
        /\ ActionClass(call.tool)' = ActionClass(tool)
    BY <1>2 DEF Enabled, AllowLists, ActionClass
  <2> HIDE DEF h, n, v
  <2>4. verdict = "accepted" =>
          /\ Enabled(call.tool)'
          /\ Accepts(ActionClass(call.tool)', call'.host, call'.service,
                     AllowLists(call.tool)', call'.payload, settings'.secret,
                     call'.at)
    BY <1>2, <2>1, <2>2, <2>3
  <2>5. verdict = "expired" =>
          call'.payload.expiry \in Int /\ Expired(call'.payload.expiry, call'.at)
    BY <1>2, <2>1, <2>2
  <2> QED
    BY <1>2, <2>4, <2>5 DEF VerdictTrue
<1> QED
  BY <1>3, <1>4, <1>5

(* A call that has not ended has had no effect.                            *)
LEMMA NoEffectYet ==
  ASSUME IInv, call.pc # "ended"
  PROVE  effect = None
BY DEF IInv, EffectOfCall

(* A guard tool's call passes the gate and uses the store, or not.         *)
LEMMA UseStoreKeeps ==
  ASSUME IInv, NEW tool \in Tools, NEW host \in Hosts,
         NEW service \in Services, NEW payload \in Payloads,
         NEW ttl \in TtlsFor(tool), UseStore(tool, host, service, ttl, payload)
  PROVE  IInv'
<1>1. /\ tool \in GuardTools /\ call.pc = "idle" /\ Enabled(tool)
      /\ VerdictOn(tool, host, service, payload) = "accepted"
      /\ call' = Asked(tool, host, service, ttl, payload, "ended", "accepted")
      /\ UNCHANGED <<clock, settings>>
  BY Zenon DEF UseStore, Passes
<1>2. /\ call' \in Call /\ call'.at <= clock' /\ VerdictTrue'
  BY <1>1, AnswerTrue, VerdictWords
<1>3. /\ call'.pc = "ended" /\ call'.tool = tool /\ call'.payload = payload
      /\ call'.verdict = "accepted" /\ call'.host = NamedHost(tool, host)
      /\ call'.service = NamedService(tool, service) /\ call'.ttl = ttl
  BY <1>1 DEF Asked
<1>4. InOrder'
  BY <1>3 DEF InOrder
<1>5. EffectOfCall'
  <2>1. CASE effect' = effect
    BY <1>1, <2>1, NoEffectYet DEF EffectOfCall
  <2>2. CASE /\ tool \in Decisions \/ GuardTtl(ttl) > 0
             /\ effect' = ChangeGuard(tool, host, service, ttl)
    <3>1. /\ tool \in Decisions \/ GuardTtl(ttl) > 0
          /\ effect' = ChangeGuard(tool, host, service, ttl)
      BY <2>2
    <3>2. ChangeGuard(tool, host, service, ttl) =
            ChangeGuard(tool, call'.host, call'.service, ttl)
      BY <1>3, NamedStays DEF ChangeGuard
    <3>3. /\ GuardTtl(call.ttl)' = GuardTtl(ttl)
          /\ ChangeGuard(call.tool, call.host, call.service, call.ttl)' =
               ChangeGuard(tool, call'.host, call'.service, ttl)
      BY <1>1, <1>3 DEF GuardTtl, ChangeGuard
    <3>4. /\ call'.tool \in Decisions \/ GuardTtl(call.ttl)' > 0
          /\ effect' = ChangeGuard(call.tool, call.host, call.service, call.ttl)'
      BY <1>3, <3>1, <3>2, <3>3
    <3> QED
      BY <1>1, <1>3, <3>4 DEF EffectOfCall
  <2> QED
    BY <2>1, <2>2, Zenon DEF UseStore
<1> QED
  BY <1>1, <1>2, <1>4, <1>5, Zenon DEF IInv

(* The first answer of any other tool has no effect as yet.                *)
LEMMA AskKeeps ==
  ASSUME IInv, NEW tool \in Tools, NEW host \in Hosts,
         NEW service \in Services, NEW payload \in Payloads,
         NEW ttl \in TtlsFor(tool),
         \/ Refuse(tool, host, service, ttl, payload)
         \/ Decline(tool, host, service, ttl, payload)
         \/ Submit(tool, host, service, ttl, payload)
  PROVE  IInv'
<1>1. PICK pc \in {"waiting", "ended"}, verdict \in Verdicts :
        /\ call' = Asked(tool, host, service, ttl, payload, pc, verdict)
        /\ IF Enabled(tool)
           THEN verdict = VerdictOn(tool, host, service, payload)
           ELSE verdict = "disabled"
        /\ pc = "waiting" =>
             /\ verdict = "accepted"
             /\ tool \notin GuardTools
             /\ tool \in Restarts => Runs(tool, host, service)
  <2>1. CASE Refuse(tool, host, service, ttl, payload)
    <3> DEFINE verdict == IF Enabled(tool)
                          THEN VerdictOn(tool, host, service, payload)
                          ELSE "disabled"
    <3>1. verdict \in Verdicts
      BY VerdictSound, VerdictWords DEF VerdictOn
    <3>2. call' = Asked(tool, host, service, ttl, payload, "ended", verdict)
      BY <2>1 DEF Refuse
    <3> QED
      BY <3>1, <3>2
  <2>2. CASE Decline(tool, host, service, ttl, payload)
    BY <2>2, VerdictWords DEF Decline, Passes
  <2>3. CASE Submit(tool, host, service, ttl, payload)
    BY <2>3, VerdictWords DEF Submit, Passes
  <2> QED
    BY <2>1, <2>2, <2>3
<1>2. call.pc = "idle" /\ UNCHANGED <<clock, settings, effect>>
  BY Zenon DEF Refuse, Decline, Submit, Passes
<1>3. /\ call' \in Call /\ call'.at <= clock' /\ VerdictTrue'
  BY <1>1, <1>2, AnswerTrue
<1>4. /\ call'.pc = pc /\ call'.tool = tool /\ call'.payload = payload
      /\ call'.verdict = verdict /\ call'.host = NamedHost(tool, host)
      /\ call'.service = NamedService(tool, service)
  BY <1>1 DEF Asked
<1>5. InOrder'
  <2>1. pc # "idle" /\ verdict # "none"
    BY VerdictWords
  <2>2. pc = "waiting" /\ tool \in Restarts =>
          Runs(call'.tool, call'.host, call'.service)
    BY <1>1, <1>4, NamedStays
  <2> QED
    BY <1>1, <1>4, <2>1, <2>2 DEF InOrder, Runs
<1>6. EffectOfCall'
  BY <1>2, NoEffectYet DEF EffectOfCall
<1> QED
  BY <1>2, <1>3, <1>5, <1>6, Zenon DEF IInv

(* A call that waited ends, with its effect or without.                    *)
LEMMA EndKeeps ==
  ASSUME IInv, TakeEffect \/ GiveUp
  PROVE  IInv'
<1>1. /\ call.pc = "waiting" /\ call' = [call EXCEPT !.pc = "ended"]
      /\ UNCHANGED <<clock, settings>>
  BY Zenon DEF TakeEffect, GiveUp
<1>2. call \in Call
  BY Zenon DEF IInv
<1>3. /\ call' \in Call
      /\ call'.pc = "ended" /\ call'.tool = call.tool
      /\ call'.host = call.host /\ call'.service = call.service
      /\ call'.ttl = call.ttl
      /\ call'.payload = call.payload /\ call'.verdict = call.verdict
      /\ call'.at = call.at
  BY <1>1, <1>2 DEF Call
<1>4. /\ call.verdict = "accepted" /\ call.tool \notin GuardTools
      /\ call.tool \in Tools /\ call.payload \in Payloads
      /\ call.tool \in Restarts => Runs(call.tool, call.host, call.service)
  BY <1>1 DEF IInv, InOrder
<1>5. call'.at <= clock'
  BY <1>1, <1>3 DEF IInv
<1>6. VerdictTrue'
  <2>1. /\ Enabled(call.tool)' = Enabled(call.tool)
        /\ AllowLists(call.tool)' = AllowLists(call.tool)
        /\ ActionClass(call.tool)' = ActionClass(call.tool)
    BY <1>1, <1>3 DEF Enabled, AllowLists, ActionClass
  <2>2. VerdictTrue
    BY Zenon DEF IInv
  <2> QED
    BY <1>1, <1>3, <2>1, <2>2 DEF VerdictTrue
<1>7. InOrder'
  BY <1>3, <1>4 DEF InOrder
<1>8. EffectOfCall'
  <2>1. CASE TakeEffect
    <3>1. CASE call.tool \in Restarts
      <4>1. effect' = Restart(call'.tool, call'.host, call'.service)
        BY <1>3, <2>1, <3>1 DEF TakeEffect
      <4>2. /\ call'.tool \in Restarts
            /\ Runs(call'.tool, call'.host, call'.service)
        BY <1>3, <1>4, <3>1
      <4> QED
        BY <1>3, <1>4, <4>1, <4>2 DEF EffectOfCall, Runs, Restart
    <3>2. CASE call.tool \notin Restarts
      <4>1. call.tool = Acknowledgement
        BY <1>4, <3>2 DEF Tools
      <4>2. effect' = Acknowledge(call'.host, call'.service)
        BY <1>3, <2>1, <3>2 DEF TakeEffect
      <4> QED
        BY <1>3, <1>4, <4>1, <4>2 DEF EffectOfCall, Acknowledge
    <3> QED
      BY <3>1, <3>2
  <2>2. CASE GiveUp
    BY <1>1, <2>2, NoEffectYet DEF GiveUp, EffectOfCall
  <2> QED
    BY <2>1, <2>2
<1> QED
  BY <1>1, <1>3, <1>5, <1>6, <1>7, <1>8, Zenon DEF IInv

(* A step after which call, settings and effect are as they were.          *)
LEMMA WaitKeeps ==
  ASSUME IInv, UNCHANGED <<settings, call, effect>>,
         clock' = clock \/ Tick
  PROVE  IInv'
<1>1. clock' \in Time /\ call'.at <= clock'
  <2>1. clock \in Nat /\ call.at \in Nat /\ MaxTime \in Nat
    <3>1. MaxTime \in Nat
      BY ToolsAssumption, Zenon
    <3>2. clock \in Time /\ call.at \in Time
      BY DEF IInv, Call
    <3> QED
      BY <3>1, <3>2 DEF Time
  <2>2. clock \in Time /\ call.at <= clock
    BY DEF IInv
  <2> QED
    BY <2>1, <2>2 DEF Tick, Time
<1>2. VerdictTrue'
  BY DEF IInv, VerdictTrue, Enabled, AllowLists
<1>3. InOrder'
  BY DEF IInv, InOrder
<1>4. EffectOfCall'
  BY DEF IInv, EffectOfCall, ChangeGuard, GuardTtl
<1> QED
  BY <1>1, <1>2, <1>3, <1>4 DEF IInv

(* However late an effect comes, it is that of the call that was accepted. *)
THEOREM Invariance == Spec => []IInv
<1>1. Init => IInv
  <2> SUFFICES ASSUME Init
               PROVE  IInv
    OBVIOUS
  <2>1. /\ clock = 0 /\ settings \in Settings /\ effect = None
        /\ call = [pc |-> "idle", tool |-> None, host |-> "", service |-> "",
                   ttl |-> 0, payload |-> None, verdict |-> "none", at |-> 0]
    BY DEF Init
  <2>2. 0 \in Time /\ 0 <= 0
    <3>1. MaxTime \in Nat
      BY ToolsAssumption, Zenon
    <3> QED
      BY <3>1 DEF Time
  <2>3. call \in Call
    <3>1. "" \in Hosts /\ "" \in Services /\ 0 \in Ttls
      BY ToolsAssumption, Zenon
    <3> QED
      BY <2>1, <2>2, <3>1 DEF Call
  <2>4. VerdictTrue /\ InOrder /\ EffectOfCall
    BY <2>1 DEF VerdictTrue, InOrder, EffectOfCall
  <2>5. clock \in Time /\ call.at <= clock
    BY <2>1, <2>2, Zenon
  <2> QED
    BY <2>1, <2>3, <2>4, <2>5, Zenon DEF IInv
<1>2. IInv /\ [Next]_vars => IInv'
  <2> SUFFICES ASSUME IInv, [Next]_vars
               PROVE  IInv'
    OBVIOUS
  <2>1. ASSUME NEW tool \in Tools, NEW host \in Hosts,
               NEW service \in Services, NEW payload \in Payloads,
               NEW ttl \in TtlsFor(tool),
               \/ Refuse(tool, host, service, ttl, payload)
               \/ UseStore(tool, host, service, ttl, payload)
               \/ Decline(tool, host, service, ttl, payload)
               \/ Submit(tool, host, service, ttl, payload)
        PROVE  IInv'
    BY <2>1, AskKeeps, UseStoreKeeps, Zenon
  <2>2. CASE TakeEffect \/ GiveUp
    BY <2>2, EndKeeps
  <2>3. CASE Tick
    BY <2>3, WaitKeeps DEF Tick
  <2>4. CASE UNCHANGED vars
    BY <2>4, WaitKeeps DEF vars
  <2> QED
    BY <2>1, <2>2, <2>3, <2>4, Zenon DEF Next
<1> QED
  BY <1>1, <1>2, PTL DEF Spec

-------------------------------------------------------------------------------
(* Where an effect goes *)

(* A name finds a host of the file, or, undescribed, itself.               *)
LEMMA ResolveInFile ==
  ASSUME NEW host
  PROVE  LET profile == Resolve(Inventory, host)
         IN \/ \E i \in DOMAIN Inventory : profile = Profile(Inventory[i])
            \/ profile = Unknown(host)
<1>1. Inventory \in Seq(HostEntry)
  BY ToolsAssumption, Zenon DEF HostsFile
<1> QED
  BY <1>1, ResolveFinds

LEMMA ResolveToName ==
  ASSUME NEW host
  PROVE  Resolve(Inventory, host).name
           \in {entry.name : entry \in Range(Inventory)} \cup {host}
<1>1. CASE Resolve(Inventory, host) = Unknown(host)
  BY <1>1 DEF Unknown, Profile
<1>2. ASSUME NEW i \in DOMAIN Inventory,
             Resolve(Inventory, host) = Profile(Inventory[i])
      PROVE  Resolve(Inventory, host).name = Inventory[i].name
  BY <1>2 DEF Profile
<1> QED
  BY <1>1, <1>2, ResolveInFile DEF Range

LEMMA ManagerIsProgram ==
  ASSUME NEW tool, NEW profile
  PROVE  Manager(tool, profile) \in {"systemctl", "service", "rcctl", None}
BY DEF Manager

(* Type correctness: a call names a tool and is told the verdict on it,    *)
(* and an effect concerns a host and a service the call could have named.  *)
THEOREM TypeCorrect == Spec => []TypeOK
<1>1. IInv => TypeOK
  <2> SUFFICES ASSUME IInv
               PROVE  TypeOK
    OBVIOUS
  <2>1. /\ clock \in Time /\ settings \in Settings /\ call \in Call
        /\ call.at <= clock /\ InOrder /\ EffectOfCall
    BY DEF IInv
  <2>2. /\ call.pc \in {"idle", "waiting", "ended"}
        /\ call.host \in Hosts /\ call.service \in Services
        /\ call.ttl \in Ttls
        /\ call.at \in Time /\ call.verdict \in Verdicts \cup {"none"}
    BY <2>1 DEF Call
  <2>3. call.at \in 0 .. clock
    <3>1. MaxTime \in Nat
      BY ToolsAssumption, Zenon
    <3> QED
      BY <2>1, <2>2, <3>1 DEF Time
  <2>4. call.pc # "idle" =>
          /\ call.tool \in Tools /\ call.payload \in Payloads
          /\ call.verdict \in Verdicts
    BY <2>1, <2>2 DEF InOrder
  <2>5. ASSUME effect # None
        PROVE  /\ effect.host \in Hosts
               /\ effect.service \in Services
               /\ effect.on \in {entry.name : entry \in Range(Inventory)}
                                 \cup Hosts
               /\ effect.by \in {"systemctl", "rcctl", "service", "icinga",
                                 "store"}
               /\ effect.ttl \in Int
    <3>1. CASE /\ call.tool \in Restarts
               /\ Runs(call.tool, call.host, call.service)
               /\ effect = Restart(call.tool, call.host, call.service)
      <4> DEFINE profile == Resolve(Inventory, call.host)
      <4>1. /\ effect.host = call.host
            /\ effect.service = SafeName[call.service]
            /\ effect.on = profile.name /\ effect.ttl = 0
            /\ effect.by = Manager(call.tool, profile)
        BY <3>1 DEF Restart
      <4>2. SafeName[call.service] \in Services
        BY <2>2, <3>1, StripAssumption, Zenon DEF Runs
      <4>3. profile.name
              \in {entry.name : entry \in Range(Inventory)} \cup Hosts
        BY <2>2, ResolveToName
      <4>4. effect.by \in {"systemctl", "rcctl", "service"}
        BY <3>1, <4>1, ManagerIsProgram DEF Runs
      <4> QED
        BY <2>2, <4>1, <4>2, <4>3, <4>4
    <3>2. CASE effect = Acknowledge(call.host, call.service)
      BY <2>2, <3>2 DEF Acknowledge
    <3>3. CASE effect = ChangeGuard(call.tool, call.host, call.service,
                                    call.ttl)
      <4>2. call.ttl \in Int /\ settings.ttl \in Int
        <5>1. Ttls \subseteq Int /\ \A s \in Settings : s.ttl \in Int
          BY ToolsAssumption, Zenon
        <5> QED
          BY <2>1, <2>2, <5>1
      <4>3. NamedHost(call.tool, call.host) \in Hosts
        BY <2>2, ToolsAssumption, Zenon DEF NamedHost
      <4>4. NamedService(call.tool, call.service) \in Services
        BY <2>2, ToolsAssumption, Zenon DEF NamedService
      <4> QED
        BY <3>3, <4>2, <4>3, <4>4 DEF ChangeGuard, GuardTtl
    <3> QED
      BY <2>1, <2>5, <3>1, <3>2, <3>3 DEF EffectOfCall
  <2> QED
    BY <2>1, <2>2, <2>3, <2>4, <2>5, Zenon DEF TypeOK, Verdicts
<1> QED
  BY <1>1, Invariance, PTL

-------------------------------------------------------------------------------
(* What the gate promises *)

(* What has been brought about passed the gate, which was looked at then.  *)
LEMMA EffectWasAccepted ==
  ASSUME IInv, effect # None
  PROVE  /\ call.tool \in Tools /\ settings \in Settings
         /\ Enabled(call.tool)
         /\ Accepts(ActionClass(call.tool), call.host, call.service,
                    AllowLists(call.tool), call.payload, settings.secret,
                    call.at)
<1>1. call.pc = "ended" /\ call.verdict = "accepted"
  BY DEF IInv, EffectOfCall
<1>2. InOrder /\ VerdictTrue
  BY DEF IInv
<1> QED
  BY <1>1, <1>2, Zenon DEF IInv, InOrder, VerdictTrue

(* Nothing is restarted, acknowledged, prepared or decided unless the      *)
(* switch for that kind of tool is on and a complete authorization of the  *)
(* tool's own class was signed with the configured secret.                 *)
THEOREM EffectSigned == Spec => []EffectIsSigned
<1>1. IInv => EffectIsSigned
  <2> SUFFICES ASSUME IInv, effect # None
               PROVE  EffectIsSigned
    BY DEF EffectIsSigned
  <2>1. /\ Enabled(call.tool)
        /\ Accepts(ActionClass(call.tool), call.host, call.service,
                   AllowLists(call.tool), call.payload, settings.secret,
                   call.at)
    BY EffectWasAccepted
  <2>2. IF call.tool \in GuardTools THEN settings.guards ELSE settings.actions
    BY <2>1, Zenon DEF Enabled
  <2>3. /\ settings.secret
        /\ call.payload.given /\ call.payload.complete
        /\ call.payload.signature = "genuine"
    BY <2>1, Zenon DEF Accepts
  <2>4. call.payload.class = ActionClass(call.tool)
    BY <2>1, Zenon DEF Accepts
  <2>5. ActionClass(call.tool) =
          CASE call.tool \in Restarts -> "restart_service"
            [] call.tool = Acknowledgement -> "acknowledge_icinga"
            [] OTHER -> "noop_rollback_guard"
    <3>1. call.tool \in Restarts \cup GuardTools \cup {Acknowledgement}
      BY EffectWasAccepted DEF Tools
    <3>2. Acknowledgement \notin Restarts \cup GuardTools
      BY DEF Acknowledgement, Restarts, GuardTools, Decisions
    <3>3. Restarts \cap GuardTools = {}
      BY DEF Restarts, GuardTools, Decisions
    <3> QED
      BY <3>1, <3>2, <3>3 DEF ActionClass
  <2> QED
    BY <2>2, <2>3, <2>4, <2>5, Zenon DEF EffectIsSigned
<1> QED
  BY <1>1, Invariance, PTL

(* A name on a list stands for the host that a caller reaches by it.       *)
LEMMA ReachesWhatItStandsFor ==
  ASSUME NEW host
  PROVE  Resolve(Inventory, host).name \in StandsFor(host)
<1> DEFINE profile == Resolve(Inventory, host)
           byName == {i \in DOMAIN Inventory : host = Inventory[i].name}
           byAlias == {i \in DOMAIN Inventory : host \in Inventory[i].aliases}
           named == {entry \in Range(Inventory) : host = entry.name}
           aliased == {entry \in Range(Inventory) : host \in entry.aliases}
<1>1. Inventory \in Seq(HostEntry)
  BY ToolsAssumption, Zenon DEF HostsFile
<1>2. \A i \in DOMAIN Inventory : Inventory[i] \in Range(Inventory)
  BY Zenon DEF Range
<1>3. \A entry \in Range(Inventory) :
        \E i \in DOMAIN Inventory : entry = Inventory[i]
  BY Zenon DEF Range
<1>4. StandsFor(host) =
        CASE named # {} -> {host}
          [] named = {} /\ aliased # {} -> {entry.name : entry \in aliased}
          [] OTHER -> {host}
  BY Zenon DEF StandsFor
<1>5. \A i \in DOMAIN Inventory : profile = Profile(Inventory[i]) =>
        profile.name = Inventory[i].name
  BY DEF Profile
<1>6. \/ /\ byName # {} /\ Min(byName) \in byName
         /\ profile = Profile(Inventory[Min(byName)])
      \/ /\ byName = {} /\ byAlias # {} /\ Min(byAlias) \in byAlias
         /\ profile = Profile(Inventory[Min(byAlias)])
      \/ byName = {} /\ byAlias = {} /\ profile = Unknown(host)
  BY <1>1, ResolveFinds
<1> HIDE DEF profile
<1>7. ASSUME NEW i \in byName, profile = Profile(Inventory[i])
      PROVE  profile.name = host /\ Inventory[i] \in named
  BY <1>2, <1>5, <1>7
<1>8. ASSUME NEW i \in byAlias, profile = Profile(Inventory[i])
      PROVE  Inventory[i] \in aliased /\ profile.name = Inventory[i].name
  BY <1>2, <1>5, <1>8
<1>9. byName = {} => named = {}
  BY <1>3
<1>10. profile = Unknown(host) => profile.name = host
  BY DEF Unknown, Profile
<1>11. byAlias = {} => aliased = {}
  BY <1>3
<1> HIDE DEF byName, byAlias, named, aliased
<1>12. CASE byName # {} /\ profile = Profile(Inventory[Min(byName)])
             /\ Min(byName) \in byName
  <2>1. profile.name = host /\ named # {}
    BY <1>7, <1>12
  <2> QED
    BY <1>4, <2>1 DEF profile
<1>13. CASE byName = {} /\ profile = Profile(Inventory[Min(byAlias)])
             /\ Min(byAlias) \in byAlias
  <2>1. PICK entry \in aliased : profile.name = entry.name
    BY <1>8, <1>13
  <2>2. named = {} /\ aliased # {}
    BY <1>9, <1>13, <2>1
  <2>3. StandsFor(host) = {other.name : other \in aliased}
    BY <1>4, <2>2
  <2> QED
    BY <2>1, <2>3 DEF profile
<1>14. CASE byName = {} /\ byAlias = {} /\ profile = Unknown(host)
  <2>1. named = {} /\ aliased = {} /\ profile.name = host
    BY <1>9, <1>10, <1>11, <1>14
  <2> QED
    BY <1>4, <2>1 DEF profile
<1> QED
  BY <1>6, <1>12, <1>13, <1>14

(* The service really restarted is within the allow list that was applied  *)
(* before its name was stripped, and the host really reached is one that a *)
(* name on the list of hosts stands for, although the list was applied to  *)
(* the caller's name for it; an acknowledgement and a guard are within     *)
(* their lists by the names they were given.                               *)
THEOREM EffectWithin == Spec => []EffectWithinLists
<1>1. IInv => EffectWithinLists
  <2> SUFFICES ASSUME IInv, effect # None
               PROVE  EffectWithinLists
    BY DEF EffectWithinLists
  <2> DEFINE lists == IF call.tool = Acknowledgement THEN settings.ack
                      ELSE settings.action
             AnyName(list) == list = {} \/ "*" \in list
             ServiceWithin ==
               \/ AnyName(lists.services)
               \/ effect.service \in lists.services \cup {""}
             HostWithin ==
               \/ AnyName(lists.hosts)
               \/ IF call.tool \in Restarts
                  THEN \/ call.host = ""
                       \/ \E name \in lists.hosts :
                            effect.on \in StandsFor(name)
                  ELSE effect.on \in lists.hosts \cup {""}
             Names(list, name) == AnyName(list) \/ name \in list \cup {""}
  <2>1. settings \in Settings /\ call.service \in Services
    BY DEF IInv, Call
  <2>2. Names(lists.hosts, call.host) /\ Names(lists.services, call.service)
    <3>1. /\ ~Outside(call.host, AllowLists(call.tool).hosts)
          /\ ~Outside(call.service, AllowLists(call.tool).services)
      BY EffectWasAccepted, Zenon DEF Accepts
    <3>2. AllowLists(call.tool) = lists
      BY DEF AllowLists
    <3> HIDE DEF lists
    <3> QED
      BY <3>1, <3>2 DEF Outside
  <2> SUFFICES ServiceWithin /\ HostWithin
    BY DEF EffectWithinLists
  <2>3. CASE /\ call.tool \in Restarts
             /\ Runs(call.tool, call.host, call.service)
             /\ effect = Restart(call.tool, call.host, call.service)
    <3>1. /\ effect.on = Resolve(Inventory, call.host).name
          /\ effect.service = SafeName[call.service]
          /\ SafeName[call.service] # Unsafe
      BY <2>3 DEF Restart, Runs
    <3>2. call.service # ""
      BY <3>1, StripAssumption, Zenon
    <3>3. lists = settings.action
      BY <2>3 DEF Restarts, Acknowledgement
    <3>4. call.service \in lists.services => SafeName[call.service] = call.service
      <4>1. call.service \in settings.action.services =>
              SafeName[call.service] \in {call.service, Unsafe}
        BY <2>1, StripAssumption, Zenon
      <4> QED
        BY <3>1, <3>3, <4>1
    <3> HIDE DEF lists
    <3>5. ServiceWithin
      BY <2>2, <3>1, <3>2, <3>4
    <3>6. effect.on \in StandsFor(call.host)
      BY <3>1, ReachesWhatItStandsFor, Zenon
    <3>7. HostWithin
      BY <2>2, <2>3, <3>6
    <3> QED
      BY <3>5, <3>7
  <2>4. CASE /\ call.tool = Acknowledgement
             /\ effect = Acknowledge(call.host, call.service)
    <3>1. effect.on = call.host /\ effect.service = call.service
      BY <2>4 DEF Acknowledge
    <3>2. call.tool \notin Restarts
      BY <2>4 DEF Acknowledgement, Restarts
    <3> HIDE DEF lists
    <3> QED
      BY <2>2, <3>1, <3>2
  <2>5. CASE /\ call.tool \in GuardTools
             /\ effect = ChangeGuard(call.tool, call.host, call.service,
                                     call.ttl)
    <3>1. /\ effect.on = NamedHost(call.tool, call.host)
          /\ effect.service = NamedService(call.tool, call.service)
      BY <2>5 DEF ChangeGuard
    <3>2. /\ effect.on \in {"", call.host}
          /\ effect.service \in {"", call.service}
      BY <3>1, Zenon DEF NamedHost, NamedService
    <3>3. call.tool \notin Restarts
      BY <2>5 DEF GuardTools, Decisions, Restarts
    <3> HIDE DEF lists
    <3> QED
      BY <2>2, <3>2, <3>3
  <2> HIDE DEF ServiceWithin, HostWithin
  <2> QED
    BY <2>3, <2>4, <2>5, Zenon DEF IInv, EffectOfCall
<1> QED
  BY <1>1, Invariance, PTL

(* Rounding to whole seconds.                                              *)
LEMMA Seconds ==
  ASSUME NEW a \in Int, NEW b \in Int
  PROVE  /\ Second(a) < Second(b) => a < b
         /\ ~ (Second(a) < Second(b)) => b < a + TicksPerSecond
<1>1. TicksPerSecond \in Nat /\ TicksPerSecond > 0
  BY TicksAssumption
<1>2. /\ Second(a) \in Int /\ Second(b) \in Int
      /\ TicksPerSecond * Second(a) <= a
      /\ a < TicksPerSecond * Second(a) + TicksPerSecond
      /\ TicksPerSecond * Second(b) <= b
      /\ b < TicksPerSecond * Second(b) + TicksPerSecond
  BY <1>1 DEF Second
<1> QED
  BY <1>1, <1>2

(* The comparison of whole seconds errs by less than a second, and to the  *)
(* caller's advantage.                                                     *)
THEOREM ExpiryExact == Spec => []ExpiryWithinASecond
<1>1. IInv => ExpiryWithinASecond
  <2> SUFFICES ASSUME IInv
               PROVE  ExpiryWithinASecond
    OBVIOUS
  <2>1. VerdictTrue /\ InOrder /\ call.at \in Int
    <3>1. MaxTime \in Nat
      BY ToolsAssumption, Zenon
    <3> QED
      BY <3>1 DEF IInv, Call, Time
  <2>2. ASSUME call.verdict = "accepted"
        PROVE  call.at < call.payload.expiry + TicksPerSecond
    <3>1. call.payload \in Payloads
      BY <2>1, <2>2 DEF InOrder
    <3>2. /\ call.payload.expiry \notin {Garbled, Infinite}
          /\ call.payload.expiry \in Int =>
               ~Expired(call.payload.expiry, call.at)
      BY <2>1, <2>2, Zenon DEF VerdictTrue, Accepts
    <3>3. call.payload.expiry \in Int
      BY <3>1, <3>2, ToolsAssumption, Zenon
    <3> QED
      BY <2>1, <3>2, <3>3, Seconds DEF Expired
  <2>3. ASSUME call.verdict = "expired"
        PROVE  call.at > call.payload.expiry
    <3>1. /\ call.payload.expiry \in Int
          /\ Expired(call.payload.expiry, call.at)
      BY <2>1, <2>3, Zenon DEF VerdictTrue
    <3> QED
      BY <2>1, <3>1, Seconds DEF Expired
  <2> QED
    BY <2>2, <2>3 DEF ExpiryWithinASecond
<1> QED
  BY <1>1, Invariance, PTL

-------------------------------------------------------------------------------
(* The right host in the right words *)

(* The hosts file does not describe a host as run by the services of       *)
(* another system: a FreeBSD host with systemd has two restart commands,   *)
(* of which os_service_restart would pick the one for FreeBSD and          *)
(* os_systemd_restart the other.                                           *)
OwnServices(hosts) ==
  \A entry \in Range(hosts) :
    entry.init_system
      \in {None, DefaultInitSystem(Default(entry.os, "linux"))}

OwnCommand(entry) ==
  CASE entry.os = "openbsd" -> "rcctl"
    [] entry.os = "freebsd" -> "service"
    [] OTHER -> "systemctl"

LEMMA ManagerIsOwn ==
  ASSUME NEW entry \in HostEntry, NEW tool \in Restarts,
         entry.init_system
           \in {None, DefaultInitSystem(Default(entry.os, "linux"))},
         Manager(tool, Profile(entry)) # None
  PROVE  Manager(tool, Profile(entry)) = OwnCommand(entry)
<1> DEFINE profile == Profile(entry)
           os == Default(entry.os, "linux")
<1>1. profile.os_family = os /\ profile.init_system = DefaultInitSystem(os)
  BY DEF Profile, Default
<1>2. /\ os = "openbsd" <=> entry.os = "openbsd"
      /\ os = "freebsd" <=> entry.os = "freebsd"
  BY NoneAssumption DEF Default
<1> HIDE DEF profile, os
<1>3. /\ SupportsSystemd(profile) <=> os \notin {"openbsd", "freebsd"}
      /\ SupportsRcctl(profile) <=> os = "openbsd"
      /\ SupportsService(profile) <=> os = "freebsd"
  BY <1>1 DEF SupportsSystemd, SupportsRcctl, SupportsService,
              DefaultInitSystem
<1>4. Manager(tool, profile) = IF os \in {"openbsd", "freebsd"}
                               THEN Manager(tool, profile) ELSE "systemctl"
  BY <1>3 DEF Manager
<1>5. os = "openbsd" => Manager(tool, profile) \in {"rcctl", None}
  BY <1>3 DEF Manager
<1>6. os = "freebsd" => Manager(tool, profile) \in {"service", None}
  BY <1>3 DEF Manager
<1> QED
  BY <1>2, <1>4, <1>5, <1>6 DEF OwnCommand, profile

(* A restart reaches the host that bears the name the caller gave, or else *)
(* one that has it among its aliases, and speaks to it in the words of its *)
(* own system, whatever the hosts file says, if only it does not have a    *)
(* host run by the services of another system.  A guard is prepared for    *)
(* the time asked for, or else for the configured one, and never for none. *)
THEOREM EffectAsked ==
  ASSUME OwnServices(Inventory)
  PROVE  Spec => []EffectAsAsked
<1> DEFINE called == {entry \in Range(Inventory) :
                        effect.host \in {entry.name} \cup entry.aliases}
           named == {entry \in called : effect.host = entry.name}
           on == {entry \in called : effect.on = entry.name}
<1>1. ASSUME IInv, effect # None, call.tool \in Restarts
      PROVE  /\ IF named # {} THEN on \subseteq named ELSE on \subseteq called
             /\ called # {} => on # {}
             /\ \A entry \in on : effect.by = OwnCommand(entry)
             /\ called = {} => /\ effect.on = effect.host
                              /\ effect.by = "systemctl"
  <2> DEFINE host == call.host
             profile == Resolve(Inventory, host)
             byName == {i \in DOMAIN Inventory : host = Inventory[i].name}
             byAlias == {i \in DOMAIN Inventory : host \in Inventory[i].aliases}
  <2>1. /\ effect = Restart(call.tool, call.host, call.service)
        /\ Manager(call.tool, profile) # None
    <3>1. Acknowledgement \notin Restarts /\ Restarts \cap GuardTools = {}
      BY DEF Acknowledgement, Restarts, GuardTools, Decisions
    <3> QED
      BY <1>1, <3>1, Zenon DEF IInv, EffectOfCall, Runs
  <2>2. /\ effect.host = host /\ effect.on = profile.name
        /\ effect.by = Manager(call.tool, profile)
    BY <2>1 DEF Restart
  <2>3. /\ Inventory \in Seq(HostEntry)
        /\ \A i, j \in DOMAIN Inventory :
             Inventory[i].name = Inventory[j].name => i = j
    BY ToolsAssumption, Zenon DEF HostsFile
  <2>4. \A i \in DOMAIN Inventory : Inventory[i] \in HostEntry
    BY <2>3
  <2>5. ASSUME NEW entry
        PROVE  entry \in Range(Inventory) <=>
                 \E i \in DOMAIN Inventory : entry = Inventory[i]
    BY Zenon DEF Range
  <2> HIDE DEF host, profile
  <2>6. ASSUME NEW i \in byName \cup byAlias, profile = Profile(Inventory[i])
        PROVE  /\ on = {Inventory[i]}
               /\ effect.by = OwnCommand(Inventory[i])
    <3>1. i \in DOMAIN Inventory /\ effect.on = Inventory[i].name
      BY <2>2, <2>6 DEF Profile
    <3>2. Inventory[i] \in called
      BY <2>2, <2>5, <2>6
    <3>3. \A entry \in on : entry = Inventory[i]
      BY <2>3, <2>5, <3>1
    <3>4. on = {Inventory[i]}
      BY <3>1, <3>2, <3>3
    <3>5. Inventory[i].init_system
            \in {None, DefaultInitSystem(Default(Inventory[i].os, "linux"))}
      BY <2>5, <3>1, Zenon DEF OwnServices
    <3>6. effect.by = OwnCommand(Inventory[i])
      BY <1>1, <2>1, <2>2, <2>4, <2>6, <3>1, <3>5, ManagerIsOwn
    <3> QED
      BY <3>4, <3>6
  <2>7. CASE /\ byName # {} /\ Min(byName) \in byName
             /\ profile = Profile(Inventory[Min(byName)])
    <3>1. PICK i \in byName : i = Min(byName)
      BY <2>7
    <3>2. on = {Inventory[i]} /\ effect.by = OwnCommand(Inventory[i])
      BY <2>6, <2>7, <3>1
    <3>3. Inventory[i] \in named
      BY <2>2, <2>5, <3>1
    <3> QED
      BY <3>2, <3>3
  <2>8. CASE /\ byName = {} /\ byAlias # {} /\ Min(byAlias) \in byAlias
             /\ profile = Profile(Inventory[Min(byAlias)])
    <3>1. PICK i \in byAlias : i = Min(byAlias)
      BY <2>8
    <3>2. on = {Inventory[i]} /\ effect.by = OwnCommand(Inventory[i])
      BY <2>6, <2>8, <3>1
    <3>3. named = {}
      BY <2>2, <2>5, <2>8
    <3>4. on \subseteq called
      OBVIOUS
    <3> QED
      BY <3>2, <3>3, <3>4
  <2>9. CASE byName = {} /\ byAlias = {} /\ profile = Unknown(host)
    <3>1. called = {}
      BY <2>2, <2>5, <2>9
    <3>2. on = {} /\ named = {}
      BY <3>1
    <3>3. effect.on = host
      BY <2>2, <2>9 DEF Unknown, Profile
    <3>4. SupportsSystemd(profile) /\ ~SupportsService(profile)
          /\ ~SupportsRcctl(profile)
      BY <2>9 DEF Unknown, Profile, Default, DefaultInitSystem,
                  SupportsSystemd, SupportsService, SupportsRcctl
    <3>5. effect.by = "systemctl"
      BY <2>2, <3>4 DEF Manager
    <3> QED
      BY <2>2, <3>1, <3>2, <3>3, <3>5
  <2> QED
    BY <2>3, <2>7, <2>8, <2>9, ResolveFinds DEF host, profile
<1>2. ASSUME IInv, effect # None, call.tool = "prepare_commit_confirm"
      PROVE  /\ effect.ttl = IF call.ttl > 0 THEN call.ttl ELSE settings.ttl
             /\ effect.ttl > 0
  <2>1. call.tool \in GuardTools /\ call.tool \notin Decisions
    BY <1>2 DEF GuardTools, Decisions
  <2>2. call.tool \notin Restarts /\ call.tool # Acknowledgement
    BY <1>2 DEF Restarts, Acknowledgement
  <2>3. /\ GuardTtl(call.ttl) > 0
        /\ effect = ChangeGuard(call.tool, call.host, call.service, call.ttl)
    BY <1>2, <2>1, <2>2, Zenon DEF IInv, EffectOfCall
  <2> QED
    BY <2>1, <2>3 DEF ChangeGuard, GuardTtl
<1>3. IInv => EffectAsAsked
  <2> SUFFICES ASSUME IInv, effect # None
               PROVE  EffectAsAsked
    BY DEF EffectAsAsked
  <2>1. CASE call.tool \in Restarts
    <3>1. call.tool # "prepare_commit_confirm"
      BY <2>1 DEF Restarts
    <3>2. /\ IF named # {} THEN on \subseteq named ELSE on \subseteq called
          /\ called # {} => on # {}
          /\ \A entry \in on : effect.by = OwnCommand(entry)
          /\ called = {} => /\ effect.on = effect.host
                           /\ effect.by = "systemctl"
      BY <1>1, <2>1
    <3> QED
      BY <2>1, <3>1, <3>2 DEF EffectAsAsked, OwnCommand
  <2>2. CASE call.tool = "prepare_commit_confirm"
    <3>1. call.tool \notin Restarts
      BY <2>2 DEF Restarts
    <3> QED
      BY <1>2, <2>2, <3>1, Zenon DEF EffectAsAsked
  <2>3. CASE /\ call.tool \notin Restarts
             /\ call.tool # "prepare_commit_confirm"
    BY <2>3, Zenon DEF EffectAsAsked
  <2> QED
    BY <2>1, <2>2, <2>3
<1> QED
  BY <1>3, Invariance, PTL

===============================================================================
