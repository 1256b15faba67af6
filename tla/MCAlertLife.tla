----------------------------- MODULE MCAlertLife -----------------------------
(* An instance for TLC of three stretches of an alert's life: the          *)
(* evaluator that raises it, the incident that closes again (Incidents),   *)
(* and the audit trail of its deliveries.  They share nothing, so a        *)
(* behaviour takes the steps of one of them.                               *)
EXTENDS AlertEvaluator, WebhookAudit

CONSTANTS q1, q2, None

VARIABLES
  part,
  inc, beat, latest, quiet, heartbeat, pass, nextPass, sent, notices   \* Incidents

incVars == <<inc, beat, latest, quiet, heartbeat, pass, nextPass, sent, notices>>
allVars == <<vars, auditVars, incVars, part>>

(* One node with a memory condition, room for it to come back twice, and a *)
(* clock that stands still.                                                *)
hb(m) == [mem |-> m, svc |-> [c \in {} |-> m]]
Closing == INSTANCE Incidents WITH
  now <- 1, hdl <- heartbeat, jan <- pass,
  Nodes <- {"n1"}, Containers <- {}, OtherTitles <- {}, OtherCritical <- {},
  Heartbeats <- {hb("low"), hb("high")}, QuietChoices <- {}, Snoozes <- {}, Buttons <- {},
  MaxIncidents <- 3, MaxTime <- 1, MayRestart <- FALSE, DbMayFail <- FALSE,
  SilentTTL <- 1, AbandonTTL <- 1, Retention <- 0, JanitorInterval <- 2,
  CriticalCooldown <- 1, WarningCooldown <- 2

(* The evaluator at rest: after a restart nothing is asked of it.          *)
Resting ==
  /\ now = 1 /\ locked = FALSE /\ fatal = FALSE /\ lastRow = 0
  /\ breached = [r \in Rules |-> 0] /\ firing = breached /\ openRow = breached
  /\ hdl = [h \in Handlers |-> Idle]
  /\ inside = breached /\ late = {} /\ upset = {"restart"}

AllInit ==
  /\ AuditInit /\ Closing!Init
  /\ \/ part = "evaluator" /\ Init
     \/ part \in {"closing", "audit"} /\ Resting

EvalStep(A) == part = "evaluator" /\ A /\ UNCHANGED <<auditVars, incVars, part>>
ClosingStep(A) == part = "closing" /\ A /\ UNCHANGED <<vars, auditVars, part>>
AuditStep(A) == part = "audit" /\ A /\ UNCHANGED <<vars, incVars, part>>

AllNext == EvalStep(Next) \/ ClosingStep(Closing!Next) \/ AuditStep(AuditNext)

(* Fairness, Closing!Fairness and AuditFairness, each of the behaviours    *)
(* that take its steps.                                                    *)
AllSpec ==
  /\ AllInit /\ [][AllNext]_allVars
  /\ \A h \in Handlers :
       /\ SF_allVars(EvalStep(HandlerStep(h)))
       /\ WF_allVars(EvalStep(\E over \in SUBSET Rules : Sample(h, over)))
       /\ WF_allVars(ClosingStep(Closing!HandlerStep(h)))
  /\ WF_allVars(EvalStep(Tick))
  /\ WF_allVars(ClosingStep(Closing!JanitorStep))
  /\ WF_allVars(ClosingStep(Closing!Heartbeat("n1")))
  /\ WF_allVars(AuditStep(JanitorStep))
  /\ SF_allVars(AuditStep(JanitorFlush))
  /\ \A q \in Retries : WF_allVars(AuditStep(RetryStep(q)))

(* A rule has to dwell for one instant.                                    *)
Dwell == [r \in Rules |-> 1]

(* Once a node reports normal memory for good, its memory incident closes  *)
(* for good, whatever heartbeats were still in flight (Incidents).         *)
MemoryIncidentCloses == Closing!MemoryIncidentCloses
=============================================================================
