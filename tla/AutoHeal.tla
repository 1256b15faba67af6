------------------------------ MODULE AutoHeal ------------------------------
(***************************************************************************)
(* Auto-heal: the server answers a heartbeat with a restart command for    *)
(* every stopped service (pkg/store/autoheal.go), and the agent's loop     *)
(* (cmd/agent/main.go) passes each command through its target's breaker    *)
(* (pkg/autoheal/cooldown.go), built with the strategy of the target's     *)
(* class (pkg/policy/policy.go), before it runs the restart.               *)
(*                                                                         *)
(* The loop is one goroutine and a breaker is used by it alone.  Restarts  *)
(* of one target are at least an instant apart (every cooldown is          *)
(* positive), so a window of timestamps is a set.                          *)
(***************************************************************************)
EXTENDS Clock, FiniteSets

CONSTANTS
  Targets,       \* services the agent watches, each its own breaker key
  NoTarget,
  Cooldown, BurstLimit, BurstWindow, OpenFor,    \* [Targets -> Nat]: StrategyFor
  MayRestart     \* whether the agent may be restarted

ASSUME StrategyAssumption ==
  /\ NoTarget \notin Targets
  /\ Cooldown \in [Targets -> Nat \ {0}] /\ BurstLimit \in [Targets -> Nat \ {0}]
  /\ BurstWindow \in [Targets -> Nat \ {0}] /\ OpenFor \in [Targets -> Nat \ {0}]
  /\ \A k \in Targets : OpenFor[k] <= BurstWindow[k]
  /\ MayRestart \in BOOLEAN

VARIABLES
  active,     \* services that are running
  breaker,    \* [last, failures, crashes, until] of each target; 0: no entry
  agent,      \* [pc, todo, target]: the loop over the commands received
  failed      \* history: when restarts ended in an error, since the agent started

healVars == <<now, active, breaker, agent, failed>>

NewBreaker == [last |-> 0, failures |-> {}, crashes |-> {}, until |-> 0]
IdleAgent == [pc |-> "idle", todo |-> {}, target |-> NoTarget]

Outcomes == {"ok", "error", "down"}

-----------------------------------------------------------------------------
(* The breaker of target k, at the instant now.                            *)

Recent(k, times) == {t \in times : t > now - BurstWindow[k]}

Purged(k) == [breaker[k] EXCEPT !.failures = Recent(k, @), !.crashes = Recent(k, @)]

IsOpen(k) == breaker[k].until # 0 /\ now < breaker[k].until
CoolingDown(k) == breaker[k].last # 0 /\ now - breaker[k].last < Cooldown[k]

Allowed(k) == ~IsOpen(k) /\ ~CoolingDown(k)

AfterAllow(k) ==
  IF IsOpen(k) THEN Purged(k)
  ELSE [Purged(k) EXCEPT !.until = 0, !.last = IF CoolingDown(k) THEN @ ELSE now]

\* Bug: every attempt counts towards the burst, failed or not.
RecordCountsAll(k, b, outcome) ==
  LET failures == Recent(k, b.failures \cup {now}) IN
  IF Cardinality(failures) >= BurstLimit[k]
  THEN [b EXCEPT !.last = now, !.until = now + OpenFor[k], !.failures = {}]
  ELSE [b EXCEPT !.last = now, !.failures = failures]
\* Bug: one failure too many before the circuit opens.
RecordOffByOne(k, b, outcome) ==
  LET failures == Recent(k, b.failures \cup IF outcome = "ok" THEN {} ELSE {now}) IN
  IF Cardinality(failures) > BurstLimit[k]
  THEN [b EXCEPT !.last = now, !.until = now + OpenFor[k], !.failures = {}]
  ELSE [b EXCEPT !.last = now, !.failures = failures]
Record(k, b, outcome) ==
  LET failures == Recent(k, b.failures \cup IF outcome = "ok" THEN {} ELSE {now}) IN
  IF Cardinality(failures) >= BurstLimit[k]
  THEN [b EXCEPT !.last = now, !.until = now + OpenFor[k], !.failures = {}]
  ELSE [b EXCEPT !.last = now, !.failures = failures]

RecordCrash(k, b) ==
  LET crashes == Recent(k, b.crashes) \cup {now} IN
  IF Cardinality(crashes) >= BurstLimit[k]
  THEN [b EXCEPT !.until = now + OpenFor[k], !.crashes = {}]
  ELSE [b EXCEPT !.crashes = crashes]

-----------------------------------------------------------------------------
(* The agent's loop.  EvaluateAutoHeal answers with the services that were *)
(* inactive in the very heartbeat; the answer may be lost.                 *)
Heartbeat ==
  /\ agent.pc = "idle"
  /\ \E todo \in {Targets \ active, {}} :
       agent' = [IdleAgent EXCEPT !.pc = "command", !.todo = todo]
  /\ UNCHANGED <<now, active, breaker, failed>>

Decide(k) ==
  /\ agent.pc = "command" /\ k \in agent.todo
  /\ breaker' = [breaker EXCEPT ![k] = AfterAllow(k)]
  /\ agent' = [agent EXCEPT !.todo = @ \ {k},
                            !.pc = IF Allowed(k) THEN "execute" ELSE "command",
                            !.target = IF Allowed(k) THEN k ELSE NoTarget]
  /\ UNCHANGED <<now, active, failed>>

(* ExecuteCommand returns: "down" when the live check saw the container    *)
(* exit again, "ok" also when the check could not look.                    *)
Execute(outcome) ==
  /\ agent.pc = "execute"
  /\ LET k == agent.target
         recorded == Record(k, breaker[k], outcome) IN
       /\ breaker' = [breaker EXCEPT ![k] = IF outcome = "down" THEN RecordCrash(k, recorded)
                                            ELSE recorded]
       /\ \/ outcome = "ok" /\ active' \in {active \cup {k}, active \ {k}}
          \/ outcome = "error" /\ UNCHANGED active
          \/ outcome = "down" /\ active' = active \ {k}
       /\ failed' = [failed EXCEPT ![k] = IF outcome = "ok" THEN @ ELSE @ \cup {now}]
  /\ agent' = [agent EXCEPT !.pc = "command", !.target = NoTarget]
  /\ UNCHANGED now

Sleep ==
  /\ agent.pc = "command" /\ agent.todo = {}
  /\ agent' = IdleAgent
  /\ UNCHANGED <<now, active, breaker, failed>>

-----------------------------------------------------------------------------
(* Services stop, or come back by themselves; time passes; the breakers    *)
(* live in the agent's memory.                                             *)
Change(k) ==
  /\ active' \in {active \cup {k}, active \ {k}} /\ active' # active
  /\ UNCHANGED <<now, breaker, agent, failed>>

HealTick ==
  /\ Passes
  /\ UNCHANGED <<active, breaker, agent, failed>>

AgentRestart ==
  /\ MayRestart
  /\ breaker' = [k \in Targets |-> NewBreaker]
  /\ agent' = IdleAgent
  /\ failed' = [k \in Targets |-> {}]
  /\ UNCHANGED <<now, active>>

HealStarts ==
  /\ active = Targets
  /\ breaker = [k \in Targets |-> NewBreaker]
  /\ agent = IdleAgent
  /\ failed = [k \in Targets |-> {}]

HealInit == now = 1 /\ HealStarts

HealNext ==
  \/ Heartbeat \/ Sleep
  \/ \E k \in Targets : Decide(k) \/ Change(k)
  \/ \E outcome \in Outcomes : Execute(outcome)
  \/ HealTick
  \/ AgentRestart

HealSpec == HealInit /\ [][HealNext]_healVars

-----------------------------------------------------------------------------
HealTypeOK ==
  /\ now \in Instants
  /\ active \subseteq Targets
  /\ breaker \in [Targets -> [last : Instants, failures : SUBSET Instants, crashes : SUBSET Instants,
                              until : Nat]]
  /\ agent \in [pc : {"idle", "command", "execute"}, todo : SUBSET Targets,
                target : Targets \cup {NoTarget}]
  /\ agent.pc = "execute" <=> agent.target # NoTarget
  /\ agent.pc = "idle" => agent.todo = {}
  /\ failed \in [Targets -> SUBSET Instants]

(* The breaker's promise to the runtime underneath: whatever the mix of    *)
(* errors, crash loops and successes, one agent makes at most BurstLimit   *)
(* failing restarts of a target in any OpenFor (Allow, Record, RecordCrash *)
(* together).                                                              *)
RateBounded ==
  \A k \in Targets, t \in Instants :
    Cardinality({f \in failed[k] : t <= f /\ f < t + OpenFor[k]}) <= BurstLimit[k]

(* The circuit never opens on a target without BurstLimit failing restarts *)
(* inside the window, whichever of the two counters trips it.              *)
OpensOnFailures ==
  [][\A k \in Targets : breaker'[k].until > breaker[k].until
       => Cardinality(Recent(k, failed'[k])) >= BurstLimit[k]]_healVars

=============================================================================
