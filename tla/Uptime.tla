------------------------------- MODULE Uptime -------------------------------
(***************************************************************************)
(* Uptime rollups (pkg/store/uptime.go): every heartbeat credits the time  *)
(* since the node's previous one to a row per node and UTC day.            *)
(*                                                                         *)
(* RecordHeartbeat gets its instant from the caller, before it takes       *)
(* uptime.mu, and books what it credits after the mutex is released:       *)
(* heartbeats of one node can overtake each other at both places, and a    *)
(* failing or dying process loses what was not yet booked.                 *)
(*                                                                         *)
(* The clock counts ticks, several to a second; a day is DayTicks long.    *)
(* total_secs and up_secs always grow by the same number; up stands for    *)
(* both.                                                                   *)
(***************************************************************************)
EXTENDS Clock, FiniteSets, Functions

CONSTANTS
  Fleet,             \* nodes
  Beats,             \* heartbeats the server can be serving at once
  NotSeen,
  TicksPerSec,
  OnlineWindow,      \* onlineWindow in ticks: a longer gap is time offline
  DayTicks

ASSUME UptimeAssumption ==
  /\ IsFiniteSet(Fleet) /\ IsFiniteSet(Beats)
  /\ NotSeen \notin Int /\ NotSeen \notin Fleet
  /\ {TicksPerSec, OnlineWindow, DayTicks} \subseteq Nat \ {0}

VARIABLES
  lastSeen,     \* uptimeTracker.lastSeen, in memory
  up,           \* node_uptime_daily: seconds per node and day, 0 where there is no row
  beat,         \* heartbeats being served
  credited,     \* history: seconds ever booked for a node
  newest,       \* history: when the newest heartbeat of a node arrived
  ideal,        \* history: ticks online up to each instant, had the tracker been
                \* told of every heartbeat the moment it arrived
  rewound,      \* history: ticks by which overtaken heartbeats set lastSeen back
  quick         \* history: credits for less than a second, rounded up to one

uptimeVars == <<now, lastSeen, up, beat, credited, newest, ideal, rewound, quick>>

Day(t) == t \div DayTicks
Days == 0 .. Day(MaxTime)

NoBeat == [pc |-> "idle", node |-> NotSeen, at |-> 0, secs |-> 0]

\* Bug: the gap of a node that was offline is credited too.
CreditsAnyGap(d) == d > 0
Credits(d) == d > 0 /\ d <= OnlineWindow

Seconds(d) == IF d < TicksPerSec THEN 1 ELSE d \div TicksPerSec

(* What a tracker that never mistakes the order knows at this arrival.     *)
IdealAt(n) ==
  ideal[n][now] + IF newest[n] # NotSeen /\ now - newest[n] <= OnlineWindow
                  THEN now - newest[n] ELSE 0

-----------------------------------------------------------------------------
(* Ingest calls with time.Now().                                           *)
BeatArrives(b, n) ==
  /\ beat[b].pc = "idle"
  /\ beat' = [beat EXCEPT ![b] = [NoBeat EXCEPT !.pc = "arrived", !.node = n, !.at = now]]
  /\ newest' = [newest EXCEPT ![n] = now]
  /\ ideal' = [ideal EXCEPT ![n][now] = IdealAt(n)]
  /\ UNCHANGED <<now, lastSeen, up, credited, rewound, quick>>

Delta(b) == beat[b].at - lastSeen[beat[b].node]

(* The critical section and the decision on what it read.                  *)
RecordHeartbeat(b) ==
  LET n == beat[b].node
      d == IF lastSeen[n] = NotSeen THEN 0 ELSE Delta(b) IN
  /\ beat[b].pc = "arrived"
  /\ lastSeen' = [lastSeen EXCEPT ![n] = beat[b].at]
  /\ beat' = [beat EXCEPT ![b] = IF Credits(d)
                THEN [@ EXCEPT !.pc = "book", !.secs = Seconds(d)] ELSE NoBeat]
  /\ rewound' = [rewound EXCEPT ![n] = IF d < 0 THEN @ - d ELSE @]
  /\ quick' = [quick EXCEPT ![n] = IF Credits(d) /\ d < TicksPerSec THEN @ + 1 ELSE @]
  /\ UNCHANGED <<now, up, credited, newest, ideal>>

(* One transaction, on the day of the heartbeat however much of the        *)
(* credited time lies before midnight.                                     *)
upsertUptime(b) ==
  /\ beat[b].pc = "book"
  /\ up' = [up EXCEPT ![beat[b].node][Day(beat[b].at)] = @ + beat[b].secs]
  /\ credited' = [credited EXCEPT ![beat[b].node] = @ + beat[b].secs]
  /\ beat' = [beat EXCEPT ![b] = NoBeat]
  /\ UNCHANGED <<now, lastSeen, newest, ideal, rewound, quick>>

upsertUptimeFails(b) ==
  /\ beat[b].pc = "book"
  /\ beat' = [beat EXCEPT ![b] = NoBeat]
  /\ UNCHANGED <<now, lastSeen, up, credited, newest, ideal, rewound, quick>>

(* A new process starts with an empty tracker.                             *)
UptimeRestart ==
  /\ lastSeen' = [n \in Fleet |-> NotSeen]
  /\ beat' = [b \in Beats |-> NoBeat]
  /\ UNCHANGED <<now, up, credited, newest, ideal, rewound, quick>>

UptimePasses ==
  /\ Passes
  /\ ideal' = [n \in Fleet |-> [ideal[n] EXCEPT ![now + 1] = ideal[n][now]]]
  /\ UNCHANGED <<lastSeen, up, beat, credited, newest, rewound, quick>>

UptimeInit ==
  /\ ClockInit
  /\ lastSeen = [n \in Fleet |-> NotSeen]
  /\ up = [n \in Fleet |-> [d \in Days |-> 0]]
  /\ beat = [b \in Beats |-> NoBeat]
  /\ credited = [n \in Fleet |-> 0]
  /\ newest = [n \in Fleet |-> NotSeen]
  /\ ideal = [n \in Fleet |-> [t \in Instants |-> 0]]
  /\ rewound = [n \in Fleet |-> 0]
  /\ quick = [n \in Fleet |-> 0]

UptimeNext ==
  \/ \E b \in Beats :
       \/ \E n \in Fleet : BeatArrives(b, n)
       \/ RecordHeartbeat(b) \/ upsertUptime(b) \/ upsertUptimeFails(b)
  \/ UptimeRestart
  \/ UptimePasses

UptimeSpec == UptimeInit /\ [][UptimeNext]_uptimeVars

-----------------------------------------------------------------------------
(* The queries of the status page, at the instant they are asked.          *)
ClampDays(k) == IF k < 1 THEN 1 ELSE IF k > 90 THEN 90 ELSE k

\* Bug: one day too far back.
CutoffTooFar(k) == Day(now) - ClampDays(k)
Cutoff(k) == Day(now) - ClampDays(k) + 1

NodeUptime(n, k) == SumFunctionOnSet(up[n], {d \in Days : d >= Cutoff(k)})

(* Only nodes with a row in the window.                                    *)
AllNodesUptime(k) ==
  [n \in {m \in Fleet : \E d \in Days : d >= Cutoff(k) /\ up[m][d] > 0} |-> NodeUptime(n, k)]

(* The last k days ending today, one bucket each, 0 where there is no row. *)
Buckets(k) == Day(now) - ClampDays(k) + 1 .. Day(now)
NodeUptimeDaily(n, k) == [d \in Buckets(k) |-> IF d \in Days THEN up[n][d] ELSE 0]
FleetUptimeDaily(k) ==
  [d \in Buckets(k) |-> IF d \in Days THEN SumFunctionOnSet([n \in Fleet |-> up[n][d]], Fleet) ELSE 0]

-----------------------------------------------------------------------------
Credit == [Fleet -> Nat]

UptimeTypeOK ==
  /\ now \in Instants
  /\ lastSeen \in [Fleet -> Instants \cup {NotSeen}]
  /\ up \in [Fleet -> [Days -> Nat]]
  /\ beat \in [Beats -> [pc : {"idle", "arrived", "book"}, node : Fleet \cup {NotSeen},
                         at : Instants, secs : Nat]]
  /\ \A b \in Beats : beat[b].pc # "idle" => beat[b].node \in Fleet /\ beat[b].at <= now
  /\ newest \in [Fleet -> Instants \cup {NotSeen}]
  /\ ideal \in [Fleet -> [Instants -> Nat]]
  /\ {credited, rewound, quick} \subseteq Credit

(* A node's credit in all.                                                 *)
TotalBounded ==
  \A n \in Fleet :
    TicksPerSec * credited[n] <= ideal[n][now] + rewound[n] + (TicksPerSec - 1) * quick[n]

(* A day's row holds at most one window more than the day, credited after  *)
(* midnight for the time before it.                                        *)
DayBounded ==
  \A n \in Fleet, d \in Days :
    TicksPerSec * up[n][d]
      < DayTicks + OnlineWindow + rewound[n] + (TicksPerSec - 1) * quick[n]

(* Whatever overtakes what, fails or restarts, no node is credited more    *)
(* than the time it was online, and no day more than it has (and one       *)
(* window), except for what RecordHeartbeat itself gives away: an          *)
(* overtaken heartbeat sets lastSeen back and lets that stretch be         *)
(* credited again, and a credit below a second is rounded up.              *)
CreditBounded == TotalBounded /\ DayBounded

(* The status page's drill-downs add up to its totals: a node's buckets to *)
(* its summary, the fleet's buckets to the summaries of the nodes listed;  *)
(* while all days fit into the longest window, that is what was credited.  *)
DrilldownAgrees ==
  /\ Day(now) < 90 => \A n \in Fleet : NodeUptime(n, 90) = credited[n]
  /\ \A k \in 0 .. Day(MaxTime) + 1 :
       /\ \A n \in Fleet : SumFunctionOnSet(NodeUptimeDaily(n, k), Buckets(k)) = NodeUptime(n, k)
       /\ SumFunction(FleetUptimeDaily(k)) = SumFunction(AllNodesUptime(k))
=============================================================================
