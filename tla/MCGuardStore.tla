----------------------------- MODULE MCGuardStore -----------------------------
(* Instances of GuardStore small enough for TLC.                           *)
EXTENDS GuardStore

OneGuard == {1}
TwoGuards == {1, 2}

(* A refused TTL, one that may run out within the bound on time, and one   *)
(* whose expiry lies beyond every date.                                    *)
SomeTtls == {0, 1, 9}

===============================================================================
