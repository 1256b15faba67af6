--------------------------- MODULE AlertEvaluator ---------------------------
(***************************************************************************)
(* The threshold-rule evaluator every heartbeat handler runs for one node  *)
(* (pkg/store/alert_evaluator.go): per-rule timing state shared by all     *)
(* handlers under ev.mu, which is released around CreateIncident and taken *)
(* again to store the incident's id.                                       *)
(*                                                                         *)
(* ev.mu is a Go mutex: it knows whether it is locked, not by whom, and    *)
(* unlocking it when it is not locked ends the process.  A handler is the  *)
(* program counter of EvaluateMetricAlert's loop over the rules.           *)
(***************************************************************************)
EXTENDS Integers, FiniteSets

CONSTANTS
  Rules,        \* ids of the enabled rules that apply to the node
  ForSeconds,   \* [Rules -> Nat]: how long a breach must last
  Handlers,     \* heartbeat handlers of the node that may overlap
  MaxRows,      \* bound: incident rows the rules ever get
  MaxTime,      \* bound: last instant of the clock
  DbMayFail,    \* whether CreateIncident may return an error
  MayClose,     \* whether operator or sweep closes a rule's incident
  MayRestart

ASSUME EvaluatorAssumption ==
  /\ Rules \subseteq Nat
  /\ ForSeconds \in [Rules -> Nat]
  /\ MaxRows \in Nat /\ MaxTime \in Nat \ {0}
  /\ {DbMayFail, MayClose, MayRestart} \subseteq BOOLEAN

VARIABLES
  now,
  breached,   \* ev.breached: when the breach began, 0 when there is no entry
  firing,     \* ev.firing: incident id, 0 when stopped
  locked,     \* ev.mu
  fatal,      \* the process died of "unlock of unlocked mutex"
  openRow,    \* the open incident with the rule's title, 0 when none
  lastRow,    \* ids handed out by the incidents table
  hdl,        \* the handlers
  inside,     \* history: the youngest sample evaluated inside the threshold
  late,       \* history: rules whose breach began with an older sample than that
  upset       \* history: "error" since the process started, "close", "restart"

history == <<inside, late, upset>>
vars == <<now, breached, firing, locked, fatal, openRow, lastRow, hdl, history>>

(* over is the set of rules the sample crosses, rule and at the loop       *)
(* variables rule.ID and now of the iteration.                             *)
Idle == [pc |-> "idle", todo |-> {}, over |-> {}, rule |-> 0, at |-> 0]

Lock == ~locked /\ locked' = TRUE

Unlock == IF locked THEN locked' = FALSE /\ UNCHANGED fatal
                    ELSE fatal' = TRUE /\ UNCHANGED locked

Goto(h, label) == hdl' = [hdl EXCEPT ![h].pc = label]

-----------------------------------------------------------------------------
(* The ingest path calls EvaluateMetricAlert with one sample.              *)
Sample(h, over) ==
  /\ ~fatal /\ hdl[h].pc = "idle"
  /\ hdl' = [hdl EXCEPT ![h] = [pc |-> "next", todo |-> Rules, over |-> over, rule |-> 0, at |-> 0]]
  /\ UNCHANGED <<now, breached, firing, locked, fatal, openRow, lastRow, history>>

(* The clock is read before ev.mu is taken.                                *)
NextRule(h) ==
  /\ ~fatal /\ hdl[h].pc = "next"
  /\ \E r \in hdl[h].todo :
       /\ \A other \in hdl[h].todo : r <= other
       /\ hdl' = [hdl EXCEPT ![h].pc = "lock", ![h].todo = @ \ {r},
                             ![h].rule = r, ![h].at = now]
  /\ UNCHANGED <<now, breached, firing, locked, fatal, openRow, lastRow, history>>

Enter(h) ==
  /\ ~fatal /\ hdl[h].pc = "lock"
  /\ Lock /\ Goto(h, "decide")
  /\ UNCHANGED <<now, breached, firing, fatal, openRow, lastRow, history>>

BreachStart(h) == IF breached[hdl[h].rule] = 0 THEN hdl[h].at ELSE breached[hdl[h].rule]

\* Bug: the dwell is measured from each crossing, not from the first.
DueAtLastCrossing(h) == ForSeconds[hdl[h].rule] = 0
Due(h) == hdl[h].at - BreachStart(h) >= ForSeconds[hdl[h].rule]

(* The rule, when its breach begins with a stamp older than a sample inside. *)
Late(h) == {r \in {hdl[h].rule} : breached[r] = 0 /\ hdl[h].at < inside[r]}

DecideBreach(h) ==
  /\ ~fatal /\ hdl[h].pc = "decide" /\ hdl[h].rule \in hdl[h].over
  /\ breached' = [breached EXCEPT ![hdl[h].rule] = BreachStart(h)]
  /\ Goto(h, IF firing[hdl[h].rule] = 0 /\ Due(h) THEN "create" ELSE "next")
  /\ Unlock
  /\ late' = late \cup Late(h)
  /\ UNCHANGED <<now, firing, openRow, lastRow, inside, upset>>

\* Bug: a sample inside the threshold leaves the breach's start behind.
DecideInsideKeepsStart(h) ==
  /\ ~fatal /\ hdl[h].pc = "decide" /\ hdl[h].rule \notin hdl[h].over
  /\ firing' = [firing EXCEPT ![hdl[h].rule] = 0]
  /\ inside' = [inside EXCEPT ![hdl[h].rule] = IF hdl[h].at > @ THEN hdl[h].at ELSE @]
  /\ late' = late \ {hdl[h].rule}
  /\ Goto(h, "next") /\ Unlock
  /\ UNCHANGED <<now, breached, openRow, lastRow, upset>>
DecideInside(h) ==
  /\ ~fatal /\ hdl[h].pc = "decide" /\ hdl[h].rule \notin hdl[h].over
  /\ breached' = [breached EXCEPT ![hdl[h].rule] = 0]
  /\ firing' = [firing EXCEPT ![hdl[h].rule] = 0]
  /\ inside' = [inside EXCEPT ![hdl[h].rule] = IF hdl[h].at > @ THEN hdl[h].at ELSE @]
  /\ late' = late \ {hdl[h].rule}
  /\ Goto(h, "next") /\ Unlock
  /\ UNCHANGED <<now, openRow, lastRow, upset>>

(* CreateIncident under p.mu: the open row of the title, or a new one.     *)
Create(h) ==
  /\ ~fatal /\ hdl[h].pc = "create"
  /\ LET r == hdl[h].rule IN
       \/ openRow[r] # 0 /\ UNCHANGED <<openRow, lastRow>>
       \/ /\ openRow[r] = 0 /\ lastRow < MaxRows
          /\ lastRow' = lastRow + 1
          /\ openRow' = [openRow EXCEPT ![r] = lastRow + 1]
  /\ Goto(h, "relock")
  /\ UNCHANGED <<now, breached, firing, locked, fatal, history>>

(* The error path unlocks ev.mu, which was released before the call.       *)
CreateFails(h) ==
  /\ ~fatal /\ hdl[h].pc = "create" /\ DbMayFail
  /\ Unlock /\ Goto(h, "next")
  /\ upset' = upset \cup {"error"}
  /\ UNCHANGED <<now, breached, firing, openRow, lastRow, inside, late>>

\* Bug: the id is stored without taking ev.mu again.
RelockSkipped(h) ==
  /\ ~fatal /\ hdl[h].pc = "relock"
  /\ Goto(h, "store")
  /\ UNCHANGED <<now, breached, firing, locked, fatal, openRow, lastRow, history>>
Relock(h) ==
  /\ ~fatal /\ hdl[h].pc = "relock"
  /\ Lock /\ Goto(h, "store")
  /\ UNCHANGED <<now, breached, firing, fatal, openRow, lastRow, history>>

(* The open row of the title; 0 when it was closed or the query fails.     *)
incidentIDAfterCreate(r) == {openRow[r]} \cup IF DbMayFail THEN {0} ELSE {}

Store(h) ==
  /\ ~fatal /\ hdl[h].pc = "store"
  /\ \E id \in incidentIDAfterCreate(hdl[h].rule) : firing' = [firing EXCEPT ![hdl[h].rule] = id]
  /\ Unlock /\ Goto(h, "next")
  /\ UNCHANGED <<now, breached, openRow, lastRow, history>>

(* Ingest ends with ResolveStaleIncidents, which has no reason to close    *)
(* an incident whose title it does not know.                               *)
ResolveStale(h) ==
  /\ ~fatal /\ hdl[h].pc = "next" /\ hdl[h].todo = {}
  /\ hdl' = [hdl EXCEPT ![h] = Idle]
  /\ UNCHANGED <<now, breached, firing, locked, fatal, openRow, lastRow, history>>

-----------------------------------------------------------------------------
(* The operator's Resolve, or the fleet sweep, closes a rule's incident.   *)
Close(r) ==
  /\ ~fatal /\ MayClose /\ openRow[r] # 0
  /\ openRow' = [openRow EXCEPT ![r] = 0]
  /\ upset' = upset \cup {"close"}
  /\ UNCHANGED <<now, breached, firing, locked, fatal, lastRow, hdl, inside, late>>

Tick ==
  /\ now < MaxTime
  /\ now' = now + 1
  /\ UNCHANGED <<breached, firing, locked, fatal, openRow, lastRow, hdl, history>>

(* The evaluator's state is in memory only.                                *)
Restart ==
  /\ MayRestart
  /\ breached' = [r \in Rules |-> 0] /\ firing' = [r \in Rules |-> 0]
  /\ locked' = FALSE /\ fatal' = FALSE
  /\ hdl' = [h \in Handlers |-> Idle]
  /\ late' = {} /\ upset' = {"restart"}
  /\ UNCHANGED <<now, openRow, lastRow, inside>>

Init ==
  /\ now = 1
  /\ breached = [r \in Rules |-> 0] /\ firing = [r \in Rules |-> 0]
  /\ locked = FALSE /\ fatal = FALSE
  /\ openRow = [r \in Rules |-> 0] /\ lastRow = 0
  /\ hdl = [h \in Handlers |-> Idle]
  /\ inside = [r \in Rules |-> 0] /\ late = {} /\ upset = {}

HandlerStep(h) ==
  \/ NextRule(h) \/ Enter(h) \/ DecideBreach(h) \/ DecideInside(h)
  \/ Create(h) \/ CreateFails(h) \/ Relock(h) \/ Store(h) \/ ResolveStale(h)

Next ==
  \/ \E h \in Handlers : HandlerStep(h) \/ \E over \in SUBSET Rules : Sample(h, over)
  \/ \E r \in Rules : Close(r)
  \/ Tick
  \/ Restart

Spec == Init /\ [][Next]_vars

(* Handlers run, heartbeats arrive, the clock advances.                    *)
Fairness ==
  /\ \A h \in Handlers : SF_vars(HandlerStep(h))
  /\ \A h \in Handlers : WF_vars(\E over \in SUBSET Rules : Sample(h, over))
  /\ WF_vars(Tick)

FairSpec == Spec /\ Fairness

-----------------------------------------------------------------------------
TypeOK ==
  /\ now \in 1 .. MaxTime
  /\ breached \in [Rules -> 0 .. MaxTime]
  /\ firing \in [Rules -> 0 .. MaxRows]
  /\ locked \in BOOLEAN /\ fatal \in BOOLEAN
  /\ openRow \in [Rules -> 0 .. MaxRows]
  /\ lastRow \in 0 .. MaxRows
  /\ hdl \in [Handlers -> [pc : {"idle", "next", "lock", "decide", "create", "relock", "store"},
                           todo : SUBSET Rules, over : SUBSET Rules,
                           rule : Rules \cup {0}, at : 0 .. MaxTime]]
  /\ \A h \in Handlers : hdl[h].pc \notin {"idle", "next"} => hdl[h].rule \in Rules
  /\ inside \in [Rules -> 0 .. MaxTime]
  /\ late \subseteq Rules /\ upset \subseteq {"error", "close", "restart"}

Holds(h) == hdl[h].pc \in {"decide", "store"}

(* ev.mu does its work until CreateIncident returns its first error:       *)
(* whoever is in a critical section holds it, alone, and no unlock finds   *)
(* it unlocked.                                                            *)
MutexHeld ==
  "error" \notin upset =>
    /\ ~fatal
    /\ \A h \in Handlers : Holds(h) => locked
    /\ \A g, h \in Handlers : Holds(g) /\ Holds(h) => g = h
    /\ locked => \E h \in Handlers : Holds(h)

(* A rule fires only after ForSeconds without a single sample inside the   *)
(* threshold, unless its breach began with a heartbeat that was overtaken  *)
(* on its way to ev.mu by a younger one inside the threshold.              *)
FiresAfterDwell(h) ==
  hdl[h].pc = "decide" /\ hdl'[h].pc = "create" /\ hdl[h].rule \notin late'
    => hdl[h].at - inside[hdl[h].rule] >= ForSeconds[hdl[h].rule]
DwellUninterrupted == [][\A h \in Handlers : FiresAfterDwell(h)]_vars

(* A breach that lasts ends up as an open incident, whatever the handlers' *)
(* interleaving, as long as the database works, the process lives and      *)
(* nobody closes the incident behind the evaluator's back.  The clock      *)
(* stops at MaxTime: a breach that begins too late to dwell before that is *)
(* an artefact of the bound and is left out.                               *)
Lasting(r) ==
  /\ upset = {}
  /\ \A h \in Handlers : hdl[h].pc # "idle" => r \in hdl[h].over
  /\ breached[r] + ForSeconds[r] <= MaxTime

BreachRaises == \A r \in Rules : <>[]Lasting(r) => <>[](openRow[r] # 0)

-----------------------------------------------------------------------------
(* alert_evaluator.go promises that one bad rule cannot poison the fleet's *)
(* alerting; the code does not keep it: the error path of CreateIncident   *)
(* unlocks a mutex that is already released.                               *)
NeverFatal == ~fatal
=============================================================================
