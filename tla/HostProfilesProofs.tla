-------------------------- MODULE HostProfilesProofs --------------------------
(***************************************************************************)
(* Which profile a name finds, for every hosts file, and what a least      *)
(* index is, on which that and other searches of the program rest.         *)
(***************************************************************************)
EXTENDS HostProfiles, WellFoundedInduction, TLAPS

(* A set of natural numbers that is not empty has a least one.             *)
LEMMA MinIsLeast ==
  ASSUME NEW I \in SUBSET Nat, I # {}
  PROVE  Min(I) \in I /\ \A j \in I : Min(I) <= j
<1>1. PICK i \in I : \A j \in I : ~ (<<j, i>> \in OpToRel(<, Nat))
  BY NatLessThanWellFounded, WFMin
<1>2. \A j \in Nat : j < i => <<j, i>> \in OpToRel(<, Nat)
  BY DEF OpToRel
<1>3. \A j \in I : i <= j
  <2> SUFFICES ASSUME NEW j \in I
               PROVE  i <= j
    OBVIOUS
  <2>1. ~ (j < i)
    BY <1>1, <1>2, Zenon
  <2> QED
    BY <2>1
<1> QED
  BY <1>3 DEF Min

(* Likewise a greatest, if there is a bound.                               *)
LEMMA MaxIsGreatest ==
  ASSUME NEW n \in Nat, NEW I \in SUBSET (1 .. n), I # {}
  PROVE  Max(I) \in I /\ \A j \in I : j <= Max(I)
<1> DEFINE J == {n - i : i \in I}
<1>1. J \in SUBSET Nat /\ J # {}
  <2>1. \A i \in I : n - i \in Nat
    OBVIOUS
  <2> QED
    BY <2>1
<1>2. Min(J) \in J /\ \A j \in J : Min(J) <= j
  BY <1>1, MinIsLeast
<1>3. PICK m \in I : n - m = Min(J)
  BY <1>2
<1>4. \A j \in I : j <= m
  <2> SUFFICES ASSUME NEW j \in I
               PROVE  j <= m
    OBVIOUS
  <2>1. n - j \in J
    OBVIOUS
  <2>2. n - m <= n - j
    BY <1>2, <1>3, <2>1
  <2> QED
    BY <2>2
<1> HIDE DEF J
<1>5. \E x \in I : \A y \in I : x >= y
  BY <1>4
<1> QED
  BY <1>5 DEF Max

(* A name finds the first host that bears it; without one, the first that  *)
(* has it among its aliases; else nobody has described the host.           *)
LEMMA ResolveFinds ==
  ASSUME NEW S, NEW hosts \in Seq(S), NEW host
  PROVE  LET named == {i \in DOMAIN hosts : host = hosts[i].name}
             aliased == {i \in DOMAIN hosts : host \in hosts[i].aliases}
         IN \/ /\ named # {}
               /\ Min(named) \in named
               /\ Resolve(hosts, host) = Profile(hosts[Min(named)])
            \/ /\ named = {} /\ aliased # {}
               /\ Min(aliased) \in aliased
               /\ Resolve(hosts, host) = Profile(hosts[Min(aliased)])
            \/ /\ named = {} /\ aliased = {}
               /\ Resolve(hosts, host) = Unknown(host)
<1> DEFINE named == {i \in DOMAIN hosts : host = hosts[i].name}
           aliased == {i \in DOMAIN hosts : host \in hosts[i].aliases}
           first == SelectInSeq(hosts, LAMBDA entry : host = entry.name)
           second ==
             SelectInSeq(hosts, LAMBDA entry : host \in entry.aliases)
<1>1. DOMAIN hosts = 1 .. Len(hosts) /\ Len(hosts) \in Nat
  OBVIOUS
<1>2. named \in SUBSET Nat /\ aliased \in SUBSET Nat
  BY <1>1
<1>3. first = IF named # {} THEN Min(named) ELSE 0
  BY <1>1 DEF SelectInSeq
<1>4. second = IF aliased # {} THEN Min(aliased) ELSE 0
  BY <1>1 DEF SelectInSeq
<1>5. Resolve(hosts, host) =
        IF first # 0 THEN Profile(hosts[first])
        ELSE IF second # 0 THEN Profile(hosts[second])
        ELSE Unknown(host)
  BY Zenon DEF Resolve
<1>6. 0 \notin named /\ 0 \notin aliased
  BY <1>1
<1> HIDE DEF named, aliased, first, second
<1>7. /\ named # {} => Min(named) \in named /\ Min(named) # 0
      /\ aliased # {} => Min(aliased) \in aliased /\ Min(aliased) # 0
  BY <1>2, <1>6, MinIsLeast
<1>8. \/ named # {} /\ Resolve(hosts, host) = Profile(hosts[Min(named)])
      \/ /\ named = {} /\ aliased # {}
         /\ Resolve(hosts, host) = Profile(hosts[Min(aliased)])
      \/ named = {} /\ aliased = {} /\ Resolve(hosts, host) = Unknown(host)
  BY <1>3, <1>4, <1>5, <1>7
<1> QED
  BY <1>7, <1>8 DEF named, aliased

===============================================================================
