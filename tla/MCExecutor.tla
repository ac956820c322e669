------------------------------ MODULE MCExecutor ------------------------------
(* Instances of Executor small enough for TLC.                             *)
EXTENDS Executor

CONSTANTS r1, r2, r3, l1

ThreeRemote == {r1, r2, r3}
ThreeRemoteOneLocal == {r1, r2, r3, l1}
OneLocal == {l1}
NoLocal == {}

===============================================================================
