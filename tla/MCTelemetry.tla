---------------------------- MODULE MCTelemetry ----------------------------
(* An instance for TLC of what requests leave behind and are counted by:   *)
(* Uptime and NetMetrics (heartbeats) and RateLimiter (logins).  They      *)
(* share nothing but the clock, so a behaviour takes the steps of one of   *)
(* them.                                                                   *)
EXTENDS Uptime, NetMetrics, RateLimiter, TLC

CONSTANTS
  n1, b1, b2, eth0, c1, c2, k1, k2, a1, a2,
  LastBeat,     \* bound: last instant of the steps of Uptime
  LastReading   \* bound: last instant of the steps of NetMetrics

VARIABLE part

uptimeOnly == <<lastSeen, up, beat, credited, newest, ideal, rewound, quick>>
netOnly == <<events, zeroAt, resets, collected, carrier, cached, table, origin, rated, unrated, alarms>>
limiterOnly == <<hits, lastSweep, attempt, admitted, latest, late>>
vars == <<now, uptimeOnly, netOnly, limiterOnly, part>>

Init ==
  /\ UptimeInit /\ NetInit /\ LimiterInit
  /\ part \in {"uptime", "net", "limiter"}

Next ==
  \/ part = "uptime" /\ UptimeNext /\ now' <= LastBeat /\ UNCHANGED <<netOnly, limiterOnly, part>>
  \/ part = "net" /\ NetNext /\ now' <= LastReading /\ UNCHANGED <<uptimeOnly, limiterOnly, part>>
  \/ part = "limiter" /\ LimiterNext /\ UNCHANGED <<uptimeOnly, netOnly, part>>

Spec == Init /\ [][Next]_vars

(* Requests being served have no identity, nor have clients.               *)
Interchangeable ==
  Permutations(Beats) \cup Permutations(Carriers) \cup Permutations(Attempts)
  \cup Permutations(Keys)
=============================================================================
