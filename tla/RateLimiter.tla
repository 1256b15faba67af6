---------------------------- MODULE RateLimiter ----------------------------
(***************************************************************************)
(* The sliding-window limiter before the login and register handlers       *)
(* (pkg/store/ratelimit.go, authMw in cmd/server/main.go).                 *)
(*                                                                         *)
(* Allow reads the clock before it takes r.mu, so calls may be decided in  *)
(* another order than the one their instants have.  A login that succeeds  *)
(* clears its key in a step of its own.                                    *)
(***************************************************************************)
EXTENDS Clock, Sequences, SequencesExt, Functions

CONSTANTS
  Keys,              \* clients
  Attempts,          \* requests the server can be serving at once
  NoKey,
  HitLimit,          \* Limit
  HitWindow,         \* Window
  SweepEv,
  MaxLag             \* bound: how long a request waits for r.mu

ASSUME LimiterAssumption ==
  /\ NoKey \notin Keys
  /\ {HitLimit, HitWindow, SweepEv} \subseteq Nat \ {0}
  /\ MaxLag \in Nat /\ MaxLag <= (SweepEv - 1) * HitWindow

VARIABLES
  hits,         \* per key the instants in the order they were appended; <<>>: no entry
  lastSweep,
  attempt,      \* requests being served
  admitted,     \* history: how many calls of each instant were let through since Reset
  latest,       \* history: the latest instant a call was decided with
  late          \* history: calls let through with an earlier instant than that

limiterVars == <<now, hits, lastSweep, attempt, admitted, latest, late>>

NoAttempt == [pc |-> "idle", key |-> NoKey, at |-> 0]
NoneAdmitted == [t \in Instants |-> 0]

Idle(k, since) == hits[k] = <<>> \/ Last(hits[k]) < since

(* The opportunistic sweep at the head of Allow.                           *)
Swept(at) ==
  IF at - lastSweep > HitWindow
  THEN [k \in Keys |-> IF Idle(k, at - HitWindow * SweepEv) THEN <<>> ELSE hits[k]]
  ELSE hits

\* Bug: one more than the limit.
RoomOffByOne(keep) == Len(keep) <= HitLimit
Room(keep) == Len(keep) < HitLimit

(* The loop that appends to keep every hit after the cutoff.               *)
After(s, cutoff) ==
  LET keep[i \in 0 .. Len(s)] ==
        IF i = 0 THEN <<>>
        ELSE IF s[i] > cutoff THEN Append(keep[i - 1], s[i]) ELSE keep[i - 1] IN
  keep[Len(s)]

Kept(k, at) == After(Swept(at)[k], at - HitWindow)

-----------------------------------------------------------------------------
AttemptArrives(a, k) ==
  /\ attempt[a].pc = "idle"
  /\ attempt' = [attempt EXCEPT ![a] = [pc |-> "waiting", key |-> k, at |-> now]]
  /\ UNCHANGED <<now, hits, lastSweep, admitted, latest, late>>

Decided(a, verdict) ==
  /\ attempt[a].pc = "waiting"
  /\ lastSweep' = IF attempt[a].at - lastSweep > HitWindow THEN attempt[a].at ELSE lastSweep
  /\ latest' = IF attempt[a].at > latest THEN attempt[a].at ELSE latest
  /\ attempt' = [attempt EXCEPT ![a].pc = verdict]
  /\ UNCHANGED now

(* Allow returns true: next is called.                                     *)
Allow(a) ==
  LET k == attempt[a].key
      at == attempt[a].at IN
  /\ Decided(a, "allowed")
  /\ Room(Kept(k, at))
  /\ hits' = [Swept(at) EXCEPT ![k] = Append(Kept(k, at), at)]
  /\ admitted' = [admitted EXCEPT ![k][at] = @ + 1]
  /\ late' = [late EXCEPT ![k] = IF at < latest THEN @ + 1 ELSE @]

\* Bug: a call that is turned away counts as a hit.
DenyCounted(a) ==
  LET k == attempt[a].key
      at == attempt[a].at IN
  /\ Decided(a, "denied")
  /\ ~Room(Kept(k, at))
  /\ hits' = [Swept(at) EXCEPT ![k] = Append(Kept(k, at), at)]
  /\ UNCHANGED <<admitted, late>>
(* Allow returns false: 429.                                               *)
Deny(a) ==
  LET k == attempt[a].key
      at == attempt[a].at IN
  /\ Decided(a, "denied")
  /\ ~Room(Kept(k, at))
  /\ hits' = [Swept(at) EXCEPT ![k] = Kept(k, at)]
  /\ UNCHANGED <<admitted, late>>

(* Bad body, bad credentials, a taken name: the hit stays.                 *)
AttemptFails(a) ==
  /\ attempt[a].pc \in {"allowed", "denied"}
  /\ attempt' = [attempt EXCEPT ![a] = NoAttempt]
  /\ UNCHANGED <<now, hits, lastSweep, admitted, latest, late>>

(* The handler succeeds and clears the key, other attempts' hits included. *)
Reset(a) ==
  LET k == attempt[a].key IN
  /\ attempt[a].pc = "allowed"
  /\ hits' = [hits EXCEPT ![k] = <<>>]
  /\ admitted' = [admitted EXCEPT ![k] = NoneAdmitted]
  /\ late' = [late EXCEPT ![k] = 0]
  /\ attempt' = [attempt EXCEPT ![a] = NoAttempt]
  /\ UNCHANGED <<now, lastSweep, latest>>

LimiterPasses ==
  /\ Passes
  /\ \A a \in Attempts : attempt[a].pc = "waiting" => now - attempt[a].at < MaxLag
  /\ UNCHANGED <<hits, lastSweep, attempt, admitted, latest, late>>

LimiterInit ==
  /\ ClockInit
  /\ hits = [k \in Keys |-> <<>>]
  /\ lastSweep = 0
  /\ attempt = [a \in Attempts |-> NoAttempt]
  /\ admitted = [k \in Keys |-> NoneAdmitted]
  /\ latest = 0
  /\ late = [k \in Keys |-> 0]

LimiterNext ==
  \/ \E a \in Attempts :
       \/ \E k \in Keys : AttemptArrives(a, k)
       \/ Allow(a) \/ Deny(a) \/ AttemptFails(a) \/ Reset(a)
  \/ LimiterPasses

LimiterSpec == LimiterInit /\ [][LimiterNext]_limiterVars

-----------------------------------------------------------------------------
LimiterTypeOK ==
  /\ now \in Instants
  /\ hits \in [Keys -> Seq(Instants)]
  /\ \A k \in Keys : Len(hits[k]) <= HitLimit
  /\ lastSweep \in Instants /\ latest \in Instants
  /\ attempt \in [Attempts -> [pc : {"idle", "waiting", "allowed", "denied"},
                               key : Keys \cup {NoKey}, at : Instants]]
  /\ \A a \in Attempts : attempt[a].pc # "idle" => attempt[a].key \in Keys
  /\ admitted \in [Keys -> [Instants -> Nat]]
  /\ late \in [Keys -> Nat]

InWindow(t) == {s \in Instants : s > t - HitWindow /\ s <= t}

(* In no window is a client let through more often than the limit, beyond  *)
(* one call for each that was decided after a younger one; the sweep takes *)
(* away nothing that still counts.                                         *)
WindowBounded ==
  \A k \in Keys, t \in Instants :
    SumFunctionOnSet(admitted[k], InWindow(t)) <= HitLimit + late[k]

(* A client is turned away only for calls that were let through within the *)
(* window: turning it away does not keep it locked out.                    *)
DenialJustified ==
  [][\A a \in Attempts :
       attempt[a].pc = "waiting" /\ attempt'[a].pc = "denied" =>
         SumFunctionOnSet(admitted[attempt[a].key],
                          {s \in Instants : s > attempt[a].at - HitWindow}) >= HitLimit]_limiterVars

=============================================================================
