--------------------------- MODULE MCRouterSnapshots ---------------------------
(* Instances of RouterSnapshots small enough for TLC.                      *)
EXTENDS RouterSnapshots, TLC

CONSTANTS s1, s2, s3, s4

FourSnapshots == {s1, s2, s3, s4}

TwoRouters == <<"cr1-nl1", "rtr">>

(* Snapshot ids are interchangeable.                                       *)
Symmetry == Permutations(FourSnapshots)

===============================================================================
