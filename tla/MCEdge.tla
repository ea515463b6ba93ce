------------------------------- MODULE MCEdge -------------------------------
(***************************************************************************)
(* Instance of Edge for TLC.  A step of the clock is 30 seconds scaled so  *)
(* that lockouts of 2, 4 and 6 steps meet a reset of 5.                    *)
(***************************************************************************)
EXTENDS Edge

CONSTANTS a1, r1, r2, r3, l1, l2

MCPeer == [a \in Addrs |-> a1]

Flat(n) == [window |-> 2, attempts |-> n, lockout |-> 1, multiplier |-> 1,
            maxLockout |-> 256, reset |-> 8]

MCLimits == [k \in {"upgrade", "conn", "auth"} |->
               CASE k = "upgrade" -> Flat(3)
                 [] k = "conn" -> Flat(2)
                 [] k = "auth" -> [window |-> 2, attempts |-> 1, lockout |-> 2,
                                   multiplier |-> 2, maxLockout |-> 6, reset |-> 5]]

\* Handshakes over a long time; requests with one link and no connection, and
\* with two of which one is evicted; and a kill or a trip among connections.
MCLoads == {
  [start |-> 2, tries |-> 3, requests |-> {}, links |-> {}, anomalies |-> 2],
  [start |-> 8, tries |-> 6, requests |-> {r1, r2, r3}, links |-> {l1}, anomalies |-> 2],
  [start |-> 8, tries |-> 6, requests |-> {r1, r2}, links |-> {l1, l2}, anomalies |-> 0],
  [start |-> 8, tries |-> 4, requests |-> {r1}, links |-> {}, anomalies |-> 2]}
=============================================================================
