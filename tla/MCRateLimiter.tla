--------------------------- MODULE MCRateLimiter ---------------------------
(***************************************************************************)
(* TLC instances of RateLimiter: requests of one user from one address,    *)
(* creating tasks or calling anything else.                                *)
(***************************************************************************)
EXTENDS RateLimiter

CONSTANTS r1, r2, r3

MCKeys == {"user:task_create", "user:general", "ip:general"}

\* Two requests of one group and one of another, at the same address.
ConcurrentKeysOf ==
  [r \in InFlight |-> IF r = r3 THEN <<"user:general", "ip:general">>
                      ELSE <<"user:task_create", "ip:general">>]

MCLimit == [k \in MCKeys |-> IF k = "ip:general" THEN 3 ELSE 2]

=============================================================================
