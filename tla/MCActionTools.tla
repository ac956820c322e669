----------------------------- MODULE MCActionTools -----------------------------
(* An instance of ActionTools small enough for TLC.                        *)
EXTENDS ActionTools

SomeHosts == {"", "noc", "rtr", "edge", "lab"}

(* "rtr" is an alias of the first host and the name of the second; nobody  *)
(* has described "lab".                                                    *)
SomeInventory ==
  LET Entry(name, os, aliases) ==
        [name |-> name, os |-> os, init_system |-> None, firewall |-> None,
         aliases |-> aliases]
  IN <<Entry("noc", None, {"rtr"}), Entry("rtr", "openbsd", {}),
       Entry("fw", "freebsd", {"edge"})>>

SomeServices == {"", "nginx", " nginx", "a b"}

Stripped ==
  [service \in SomeServices |->
     IF service \in {"nginx", " nginx"} THEN "nginx" ELSE Unsafe]

(* None, an impossible one and one that differs from the default.           *)
SomeTtls == {-1, 0, 2}

(* Allow lists that are empty, that name something, and that allow any.    *)
SomeLists ==
  {[action |-> [hosts |-> {}, services |-> {}],
    ack |-> [hosts |-> {"*"}, services |-> {"*"}]],
   [action |-> [hosts |-> {"rtr", "edge"}, services |-> {"nginx"}],
    ack |-> [hosts |-> {"*"}, services |-> {"a b"}]],
   [action |-> [hosts |-> {"noc"}, services |-> {"nginx", "*"}],
    ack |-> [hosts |-> {"rtr"}, services |-> {}]]}

SomeSettings ==
  {[actions |-> flags[1], guards |-> flags[2], secret |-> flags[3],
    ttl |-> IF flags[1] THEN 1 ELSE 0,
    action |-> lists.action, ack |-> lists.ack] :
     flags \in {<<TRUE, TRUE, TRUE>>, <<TRUE, FALSE, TRUE>>,
               <<FALSE, TRUE, TRUE>>, <<TRUE, TRUE, FALSE>>},
     lists \in SomeLists}

(* Authorizations as their holders have them, with every kind of expiry,   *)
(* and such as are missing altogether, incomplete, altered after they were *)
(* signed, or with a signature that is no text of an HMAC.                 *)
SomePayloads ==
  LET Signed(class, expiry) ==
        [given |-> TRUE, complete |-> TRUE, signature |-> "genuine",
         class |-> class, expiry |-> expiry]
      Some == Signed("restart_service", 2)
  IN {Signed("acknowledge_icinga", 2), Signed("noop_rollback_guard", 1)}
       \cup {Signed("restart_service", expiry) :
               expiry \in {1, 2, Garbled, Infinite}}
       \cup {[Some EXCEPT !.given = FALSE], [Some EXCEPT !.complete = FALSE],
             [Some EXCEPT !.signature = "wrong"],
             [Some EXCEPT !.signature = "not_ascii"]}

===============================================================================
