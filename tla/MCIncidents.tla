---------------------------- MODULE MCIncidents ----------------------------
(***************************************************************************)
(* Instances of Incidents for TLC.  One unit of the clock is the shortest  *)
(* interval a run tells apart.  A TTL of 0 makes the very next instant too *)
(* late, which puts silence and abandonment inside a run of two instants.  *)
(***************************************************************************)
EXTENDS Incidents, TLC

CONSTANTS h1, h2

HandlerSymmetry == Permutations({h1, h2})

hb(m, s) == [mem |-> m, svc |-> [c \in Containers |-> s]]

MemoryHeartbeats == {hb("low", "active"), hb("high", "active")}
\* Every memory band and every container state occurs.
ClockHeartbeats == {hb("low", "active"), hb("high", "absent"), hb("mid", "stopped")}

AllOrNothing == {{}, Severities}
=============================================================================
