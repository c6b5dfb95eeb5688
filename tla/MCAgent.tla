------------------------------ MODULE MCAgent ------------------------------
(* Small instances of Agent.                                               *)
EXTENDS Agent

Reply(status, inactive, isSettled, cadence, offer) ==
    [status |-> status, inactive |-> inactive, settled |-> isSettled,
     cadence |-> cadence, offer |-> offer]

Stored    == Reply(201, FALSE, TRUE, 0, "none")
Skipped   == Reply(422, FALSE, TRUE, 0, "none")
Refused   == Reply(422, FALSE, FALSE, 0, "none")
Proxy     == Reply(502, FALSE, FALSE, 0, "none")
Rejected  == Reply(401, FALSE, FALSE, 0, "none")
Forbidden == Reply(403, FALSE, FALSE, 0, "none")
Inactive  == Reply(403, TRUE, FALSE, 0, "none")
Portal    == Reply(200, FALSE, FALSE, 0, "none")

Moves(u)  == Reply(201, FALSE, TRUE, 0, u)
States(c) == Reply(201, FALSE, TRUE, c, "none")

\* Two hosts of one domain, each written as an origin and as the endpoint, a
\* host of another domain, and a destination that is not HTTPS.
MCUrls == {"a.io", "a.io/push", "b.io", "b.io/push", "c.net", "c.net/push", "http:b.io"}
MCValid == MCUrls \ {"http:b.io"}
MCEndpoint == [u \in MCUrls |->
    CASE u \in {"a.io", "a.io/push"} -> "a.io/push"
      [] u \in {"b.io", "b.io/push"} -> "b.io/push"
      [] u \in {"c.net", "c.net/push"} -> "c.net/push"
      [] OTHER -> u]
MCRegistrable == [u \in MCUrls |-> IF u \in {"c.net", "c.net/push"} THEN "c.net" ELSE "io"]

OneUrl == {"a.io/push"}
OneEndpoint == [u \in OneUrl |-> u]
OneConfig == {"a.io/push"}
MovedConfigs == {"a.io", "c.net/push"}

Settling == {Stored, Skipped, Lost}
Decisive == Settling \cup {Proxy}
WithPortal == Decisive \cup {Portal}
Failing == {Stored, Skipped, Refused, Proxy, Rejected, Forbidden, Inactive, Lost}
Moving == {Moves(u) : u \in MCUrls} \cup {Lost, Proxy}
Stating == {States(c) : c \in 0..5} \cup {Lost}
Every == Failing \cup Stating

NoFaults == {}
DiskFaults == {"add", "take", "remove", "jobs", "age", "read"}
LoopFaults == {"collect", "save"}
============================================================================
