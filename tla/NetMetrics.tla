----------------------------- MODULE NetMetrics -----------------------------
(***************************************************************************)
(* Interface counters (pkg/store/netmetrics.go): an agent reads counters   *)
(* that only grow, wrap or start again (pkg/collector/net.go), the server  *)
(* turns two readings of one interface into a rate and raises an incident  *)
(* over a threshold.                                                       *)
(*                                                                         *)
(* RecordNetworkSamples runs under p.mu as a whole; the heartbeats that    *)
(* bring the readings overlap, and their order on the agent's clock need   *)
(* not be the order they are recorded in.  The clock counts seconds.  Each *)
(* field of a sample is treated alike; bytes and packets, which raise      *)
(* nothing, are left out.                                                  *)
(***************************************************************************)
EXTENDS Clock, FiniteSetsExt, Functions

CONSTANTS
  Ifaces,
  Carriers,            \* heartbeats the server can be serving at once
  NoSample,
  Moving,              \* the counters that count anything
  KernelMod,           \* the kernel's counters wrap here: 2^32 on some cards, else 2^64
  ServerMod,           \* 2^64
  ErrorLimit,          \* NetworkErrorIncidentThreshold, per second
  DropLimit,           \* NetworkDropIncidentThreshold
  SampleRetention,     \* rawRetentionSecs
  BucketSecs,          \* bucket of NetworkSeries
  MaxEvents,           \* bound: events one counter counts
  MaxResets,           \* bound: resets of an interface
  MaxHeartbeats        \* bound: heartbeats with readings

Counters == {"rxErrors", "txErrors", "rxDrops", "txDrops"}

ASSUME NetMetricsAssumption ==
  /\ Moving \subseteq Counters
  /\ {KernelMod, ServerMod, BucketSecs} \subseteq Nat \ {0} /\ KernelMod <= ServerMod
  /\ {ErrorLimit, DropLimit} \subseteq Nat \ {0}
  /\ {SampleRetention, MaxEvents, MaxResets, MaxHeartbeats} \subseteq Nat

Events == 0 .. MaxEvents
Readings == [Counters -> 0 .. KernelMod - 1]
Samples == [ts : Instants, read : Readings,
            events : [Counters -> Events], resets : 0 .. MaxResets]

ASSUME NoSampleAssumption == NoSample \notin Samples

VARIABLES
  events,       \* history: what each counter has counted since the agent's machine was built
  zeroAt,       \* events when the counters last started from 0
  resets,       \* history: how often they did
  collected,    \* heartbeats with readings so far
  carrier,      \* heartbeats being served: readings, then rates
  cached,       \* networkRateTracker.last, in memory
  table,        \* network_samples
  origin,       \* history: the first reading this process cached
  rated,        \* history: events between two readings some rate was computed from
  unrated,      \* history: events between two readings with no time between them
  alarms        \* history: incidents raised, with what was true of the interface

netVars == <<now, events, zeroAt, resets, collected, carrier, cached, table, origin, rated, unrated, alarms>>

Reading(i) == [c \in Counters |-> (events[i][c] - zeroAt[i][c]) % KernelMod]

Sample(i) == [ts |-> now, read |-> Reading(i), events |-> events[i], resets |-> resets[i]]

Row(s) == [ts |-> s.ts, read |-> s.read]

NoRate == [window |-> 0, diff |-> [c \in Counters |-> 0], clean |-> {}, true |-> {}]
NoCarrier == [pc |-> "idle", sample |-> NoSample, rate |-> [i \in Ifaces |-> NoRate]]

(* Of uint64: a smaller reading is taken for a wrap at 2^64, whatever the  *)
(* kernel's counter wraps at, and for one event less than that.            *)
diffUint64(new, old) == IF new >= old THEN new - old ELSE (ServerMod - 1 - old) + new

Grown(old, new, c) == new.events[c] - old.events[c]

(* No reset and no wrap between the two readings.                          *)
Clean(old, new) ==
  {c \in Counters : old.resets = new.resets /\ new.read[c] - old.read[c] = Grown(old, new, c)}

Limit(c) == IF c \in {"rxErrors", "txErrors"} THEN ErrorLimit ELSE DropLimit

\* Bug: readings of the same second make a rate, too.
HasWindowOrNone(old, new) == old # NoSample /\ new.ts >= old.ts
HasWindow(old, new) == old # NoSample /\ new.ts > old.ts

(* The division by the window is left to the comparison with a threshold.  *)
RateOf(old, new) ==
  IF HasWindow(old, new)
  THEN [window |-> new.ts - old.ts,
        diff |-> [c \in Counters |-> diffUint64(new.read[c], old.read[c])],
        clean |-> Clean(old, new),
        true |-> {c \in Counters : Grown(old, new, c) >= Limit(c) * (new.ts - old.ts)}]
  ELSE NoRate

Between(old, new, c) == old.events[c] + 1 .. new.events[c]

-----------------------------------------------------------------------------
(* The agent's machine.                                                    *)
CounterCounts(i, c) ==
  /\ c \in Moving /\ events[i][c] < MaxEvents
  /\ events' = [events EXCEPT ![i][c] = @ + 1]
  /\ UNCHANGED <<now, zeroAt, resets, collected, carrier, cached, table, origin, rated, unrated, alarms>>

CountersReset(i) ==
  /\ zeroAt[i] # events[i] /\ resets[i] < MaxResets
  /\ zeroAt' = [zeroAt EXCEPT ![i] = events[i]]
  /\ resets' = [resets EXCEPT ![i] = @ + 1]
  /\ UNCHANGED <<now, events, collected, carrier, cached, table, origin, rated, unrated, alarms>>

CollectNetworkInterfaces(h) ==
  /\ carrier[h].pc = "idle" /\ collected < MaxHeartbeats
  /\ collected' = collected + 1
  /\ carrier' = [carrier EXCEPT ![h] = [NoCarrier EXCEPT !.pc = "carried",
                                          !.sample = [i \in Ifaces |-> Sample(i)]]]
  /\ UNCHANGED <<now, events, zeroAt, resets, cached, table, origin, rated, unrated, alarms>>

-----------------------------------------------------------------------------
\* Bug: a reading that could not be stored is cached all the same.
RecordFailsCached(h) ==
  /\ carrier[h].pc = "carried"
  /\ cached' = carrier[h].sample
  /\ origin' = [i \in Ifaces |-> IF cached[i] = NoSample THEN carrier[h].sample[i] ELSE origin[i]]
  /\ carrier' = [carrier EXCEPT ![h] = NoCarrier]
  /\ UNCHANGED <<now, events, zeroAt, resets, collected, table, rated, unrated, alarms>>
(* RecordNetworkSamples.  Begin or Prepare fails: no rates, and the cache  *)
(* keeps the older reading.                                                *)
RecordFails(h) ==
  /\ carrier[h].pc = "carried"
  /\ carrier' = [carrier EXCEPT ![h] = NoCarrier]
  /\ UNCHANGED <<now, events, zeroAt, resets, collected, cached, table, origin, rated, unrated, alarms>>

(* The cache and the rates do not depend on what the INSERTs and the       *)
(* COMMIT do: an INSERT that fails is logged, a COMMIT that fails loses    *)
(* the rows and skips the retention.                                       *)
RecordNetworkSamples(h) ==
  LET new == carrier[h].sample IN
  /\ carrier[h].pc = "carried"
  /\ carrier' = [carrier EXCEPT ![h] =
                   [pc |-> "rates", sample |-> NoSample,
                    rate |-> [i \in Ifaces |-> RateOf(cached[i], new[i])]]]
  /\ cached' = new
  /\ origin' = [i \in Ifaces |-> IF cached[i] = NoSample THEN new[i] ELSE origin[i]]
  /\ rated' = [i \in Ifaces |-> [c \in Counters |-> rated[i][c] \cup
                 IF HasWindow(cached[i], new[i]) THEN Between(cached[i], new[i], c) ELSE {}]]
  /\ unrated' = [i \in Ifaces |-> [c \in Counters |-> unrated[i][c] \cup
                   IF cached[i] # NoSample /\ new[i].ts = cached[i].ts
                   THEN Between(cached[i], new[i], c) ELSE {}]]
  /\ \/ \E stored \in SUBSET Ifaces :
          table' = [i \in Ifaces |->
                      {r \in table[i] \cup (IF i \in stored THEN {Row(new[i])} ELSE {}) :
                         r.ts >= now - SampleRetention}]
     \/ UNCHANGED table
  /\ UNCHANGED <<now, events, zeroAt, resets, collected, alarms>>

(* CreateIncident per interface and kind; what it does is Incidents'.      *)
Kinds == {"errors", "drops"}
OfKind(k) == IF k = "errors" THEN {"rxErrors", "txErrors"} ELSE {"rxDrops", "txDrops"}

Over(r) == {c \in Counters : r.diff[c] > 0 /\ r.diff[c] >= Limit(c) * r.window}

Alarm(r, i, k) ==
  LET over == Over(r) \cap OfKind(k) IN
    [iface |-> i, kind |-> k, raised |-> over # {}, right |-> over \cap r.clean \subseteq r.true]

EvaluateNetworkAlerts(h) ==
  /\ carrier[h].pc = "rates"
  /\ alarms' = alarms \cup
       {a \in {Alarm(carrier[h].rate[i], i, k) : i \in Ifaces, k \in Kinds} : a.raised}
  /\ carrier' = [carrier EXCEPT ![h] = NoCarrier]
  /\ UNCHANGED <<now, events, zeroAt, resets, collected, cached, table, origin, rated, unrated>>

NetRestart ==
  /\ cached' = [i \in Ifaces |-> NoSample]
  /\ origin' = [i \in Ifaces |-> NoSample]
  /\ carrier' = [h \in Carriers |-> NoCarrier]
  /\ UNCHANGED <<now, events, zeroAt, resets, collected, table, rated, unrated, alarms>>

NetPasses ==
  /\ Passes
  /\ UNCHANGED <<events, zeroAt, resets, collected, carrier, cached, table, origin, rated, unrated, alarms>>

NetInit ==
  /\ ClockInit
  /\ events = [i \in Ifaces |-> [c \in Counters |-> 0]]
  /\ zeroAt = events
  /\ resets = [i \in Ifaces |-> 0]
  /\ collected = 0
  /\ carrier = [h \in Carriers |-> NoCarrier]
  /\ cached = [i \in Ifaces |-> NoSample]
  /\ table = [i \in Ifaces |-> {}]
  /\ origin = [i \in Ifaces |-> NoSample]
  /\ rated = [i \in Ifaces |-> [c \in Counters |-> {}]]
  /\ unrated = rated
  /\ alarms = {}

NetNext ==
  \/ \E i \in Ifaces : CountersReset(i) \/ \E c \in Counters : CounterCounts(i, c)
  \/ \E h \in Carriers :
       \/ CollectNetworkInterfaces(h)
       \/ RecordFails(h) \/ RecordNetworkSamples(h) \/ EvaluateNetworkAlerts(h)
  \/ NetRestart
  \/ NetPasses

NetSpec == NetInit /\ [][NetNext]_netVars

-----------------------------------------------------------------------------
(* NetworkSeries: one point per bucket of the last w seconds; rates are    *)
(* left undivided by the bucket, which is the same for every point.        *)
InSeries(i, w, b) == {r \in table[i] : r.ts >= now - w /\ r.ts \div BucketSecs = b}
SeriesBuckets(i, w) == {r.ts \div BucketSecs : r \in {q \in table[i] : q.ts >= now - w}}

Read(S, c) == {r.read[c] : r \in S}

\* Bug: the counter itself, not what it grew by.
NetworkSeriesOfCounters(i, w) ==
  [b \in SeriesBuckets(i, w) |->
     [rxErrors |-> Max(Read(InSeries(i, w, b), "rxErrors")), rxDrops |-> Max(Read(InSeries(i, w, b), "rxDrops"))]]
(* rx_drops is taken from the smallest reading of tx_drops.                *)
NetworkSeries(i, w) ==
  [b \in SeriesBuckets(i, w) |->
     [rxErrors |-> Max(Read(InSeries(i, w, b), "rxErrors")) - Min(Read(InSeries(i, w, b), "rxErrors")),
      rxDrops |-> Max(Read(InSeries(i, w, b), "rxDrops")) - Min(Read(InSeries(i, w, b), "txDrops"))]]

-----------------------------------------------------------------------------
Rates == [window : Instants, diff : [Counters -> Nat], clean : SUBSET Counters,
          true : SUBSET Counters]

NetTypeOK ==
  /\ now \in Instants
  /\ events \in [Ifaces -> [Counters -> Events]] /\ zeroAt \in [Ifaces -> [Counters -> Events]]
  /\ resets \in [Ifaces -> 0 .. MaxResets] /\ collected \in 0 .. MaxHeartbeats
  /\ \A h \in Carriers :
       /\ carrier[h].pc \in {"idle", "carried", "rates"}
       /\ carrier[h].pc = "carried" => \A i \in Ifaces : carrier[h].sample[i] \in Samples
       /\ \A i \in Ifaces : carrier[h].rate[i] \in Rates
  /\ \A i \in Ifaces : cached[i] \in Samples \cup {NoSample} /\ origin[i] \in Samples \cup {NoSample}
  /\ \A i \in Ifaces : table[i] \subseteq [ts : Instants, read : Readings]
  /\ rated \in [Ifaces -> [Counters -> SUBSET Events]] /\ unrated \in [Ifaces -> [Counters -> SUBSET Events]]

(* No incident is raised over a counter that did not reset or wrap between *)
(* the two readings unless it really counted that fast: not when           *)
(* heartbeats overtake each other, nor when they fall into one second,     *)
(* fail to be stored or meet a new process.                                *)
AlarmsRight == \A a \in alarms : a.right

(* What a counter counted between the first and the latest cached reading  *)
(* of a process is in some rate, whichever statements failed, except       *)
(* between two readings of one second (the cache "must not be poisoned").  *)
EveryEventRated ==
  \A i \in Ifaces, c \in Counters :
    cached[i] # NoSample =>
      Between(origin[i], cached[i], c) \subseteq rated[i][c] \cup unrated[i][c]

(* While an interface has neither reset nor wrapped, the traffic series    *)
(* never shows more errors than there were, whichever rows are missing.    *)
SeriesNotInflated ==
  \A i \in Ifaces, w \in Instants :
    resets[i] = 0 /\ events[i]["rxErrors"] < KernelMod =>
      LET s == NetworkSeries(i, w) IN
        SumFunction([b \in DOMAIN s |-> s[b].rxErrors]) <= events[i]["rxErrors"]
=============================================================================
