------------------------------- MODULE ActionAuth -------------------------------
(***************************************************************************)
(* validate_signed_authorization of hyrule_mcp/action_auth.py: the reasons *)
(* for which a request with a signed authorization is refused, and the     *)
(* order in which they are looked for.  Time is in ticks, finer than the   *)
(* whole seconds in which the code compares.                               *)
(***************************************************************************)
EXTENDS Integers, Sequences, FiniteSetsExt

CONSTANTS
  TicksPerSecond,
  Garbled,  \* an expiry that is no number, or no text of an integer
  Infinite  \* the expiry float("inf")

ASSUME TicksAssumption == TicksPerSecond \in Nat \ {0}

(* int(t) of a time that is not negative.                                  *)
Second(t) == t \div TicksPerSecond

(* host_allow and service_allow: the empty list and "*" allow any name,    *)
(* and a name that is not given is not looked up.                          *)
Outside(name, allowed) ==
  /\ name # ""
  /\ allowed # {}
  /\ "*" \notin allowed
  /\ name \notin allowed

(* In the order of the code.  "overflow" is the OverflowError of int(inf)  *)
(* and "type_error" the TypeError of hmac.compare_digest, which wants      *)
(* ASCII; they leave the tool as exceptions.                               *)
Reasons ==
  <<"missing_secret", "missing_authorization", "malformed_authorization",
    "action_class_mismatch", "invalid_expiry", "overflow", "expired",
    "type_error", "invalid_signature", "host_not_allowed",
    "service_not_allowed">>

(* Whether an authorization that ends at this time has expired.            *)
ExpiredAtTheEnd(expiry, now) == Second(expiry) <= Second(now)

ExpiredRoundingUp(expiry, now) == Second(expiry) + 1 < Second(now)

Expired(expiry, now) == Second(expiry) < Second(now)

(* A payload tells whether it was given at all, has all required fields,   *)
(* its class and expiry, and whether its signature is "genuine", the HMAC  *)
(* of the rest under the configured secret, or else "wrong" or even        *)
(* "not_ascii".  lists are the allow lists of the tool.                    *)
Objects(class, host, service, lists, payload, secret, now) ==
  [missing_secret |-> ~secret,
   missing_authorization |-> ~payload.given,
   malformed_authorization |-> ~payload.complete,
   action_class_mismatch |-> payload.class # class,
   invalid_expiry |-> payload.expiry = Garbled,
   overflow |-> payload.expiry = Infinite,
   expired |-> payload.expiry \in Int /\ Expired(payload.expiry, now),
   type_error |-> payload.signature = "not_ascii",
   invalid_signature |-> payload.signature # "genuine",
   host_not_allowed |-> Outside(host, lists.hosts),
   service_not_allowed |-> Outside(service, lists.services)]

Verdict(class, host, service, lists, payload, secret, now) ==
  LET objects == Objects(class, host, service, lists, payload, secret, now)
      found == {i \in DOMAIN Reasons : objects[Reasons[i]]}
  IN IF found = {} THEN "accepted" ELSE Reasons[Min(found)]

===============================================================================
