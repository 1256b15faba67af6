SPECIFICATION Spec
SYMMETRY Interchangeable
CONSTANTS
  n1 = n1
  b1 = b1
  b2 = b2
  eth0 = eth0
  c1 = c1
  c2 = c2
  k1 = k1
  k2 = k2
  a1 = a1
  a2 = a2
  MaxTime = 5
  LastBeat = 4
  LastReading = 3
  NotSeen = NotSeen
  Fleet = {n1}
  Beats = {b1, b2}
  TicksPerSec = 2
  OnlineWindow = 3
  DayTicks = 2
  NoSample = NoSample
  Ifaces = {eth0}
  Carriers = {c1, c2}
  Moving = {"rxErrors"}
  KernelMod = 2
  ServerMod = 4
  ErrorLimit = 1
  DropLimit = 2
  SampleRetention = 1
  BucketSecs = 2
  MaxEvents = 2
  MaxResets = 1
  MaxHeartbeats = 3
  NoKey = NoKey
  Keys = {k1, k2}
  Attempts = {a1, a2}
  HitLimit = 1
  HitWindow = 2
  SweepEv = 2
  MaxLag = 2
INVARIANTS
  DrilldownAgrees SeriesNotInflated
  CreditBounded AlarmsRight EveryEventRated WindowBounded
PROPERTIES DenialJustified
