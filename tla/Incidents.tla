------------------------------ MODULE Incidents ------------------------------
(***************************************************************************)
(* The incident table of the NodePulse server and everything that writes   *)
(* it: the heartbeat handlers (PersistentStore.Ingest), the janitor with   *)
(* its abandoned sweep and its silent-node watchdog, and the operator's    *)
(* Acknowledge / Snooze / Resolve buttons.                                 *)
(*                                                                         *)
(* Handlers, janitor and buttons are goroutines of one process.  p.mu is   *)
(* held for the whole of CreateIncident, SnoozeIncident, ResolveIncident   *)
(* and one UPDATE of markResolvedAndNotify, so each of those is one        *)
(* action; the reads between them (the open list, the copy of the node     *)
(* map, HasOpenSilentNodeIncident) hold no lock and are actions of their   *)
(* own.  Time is discrete; every timestamp in the table is a value of now. *)
(***************************************************************************)
EXTENDS Integers, FiniteSets

CONSTANTS
  Nodes,            \* node ids that send heartbeats
  Containers,       \* docker services; a container is the title of its incident
  OtherTitles,      \* titles raised by alert rules and interface counters
  OtherCritical,    \* those of them with severity "critical"
  Handlers,         \* heartbeat requests the server can be serving at once
  None,             \* no node, no title
  Heartbeats,       \* [mem, svc]: what a heartbeat can report
  QuietChoices,     \* sets of severities an owner may mute
  MaxIncidents,     \* bound: rows the table ever gets; then an INSERT fails
  MaxTime,          \* bound: last instant of the clock
  Snoozes,          \* durations of the snooze buttons
  SilentTTL, AbandonTTL, Retention, JanitorInterval,
  CriticalCooldown, WarningCooldown,
  Buttons,          \* what the operator presses: "ack", "snooze", "resolve"
  MayRestart,       \* whether the process may die and come back
  DbMayFail         \* whether a statement may return an error

Memory == "High Memory Pressure"
Silent == "Node Silent"
Titles == {Memory, Silent} \cup Containers \cup OtherTitles
Severities == {"critical", "warning"}
Ids == 1 .. MaxIncidents

ASSUME TitlesAssumption ==
  /\ {Memory, Silent} \cap (Containers \cup OtherTitles) = {}
  /\ Containers \cap OtherTitles = {}
  /\ OtherCritical \subseteq OtherTitles
  /\ None \notin Nodes /\ None \notin Titles
  /\ Heartbeats \subseteq [mem : {"low", "mid", "high"},
                           svc : [Containers -> {"active", "stopped", "absent"}]]
  /\ QuietChoices \subseteq SUBSET Severities

ASSUME TimesAssumption ==
  /\ MaxIncidents \in Nat /\ MaxTime \in Nat \ {0}
  /\ SilentTTL \in Nat /\ AbandonTTL \in Nat /\ Retention \in Nat
  /\ JanitorInterval \in Nat \ {0}
  /\ CriticalCooldown \in Nat \ {0} /\ WarningCooldown \in Nat \ {0}
  /\ Snoozes \subseteq Nat \ {0}
  /\ Buttons \subseteq {"ack", "snooze", "resolve"}
  /\ MayRestart \in BOOLEAN /\ DbMayFail \in BOOLEAN

Reasons == {"", "manual", "metric_recovered", "service_recovered",
            "service_absent", "abandoned_ttl", "heartbeat_restored"}

(* A row of the incidents table.  st is "free" before the INSERT, "open" / *)
(* "resolved" for the resolved column and "pruned" after the DELETE; since *)
(* is the last heartbeat a Node Silent row quotes in its detail.           *)
FreeRow == [st |-> "free", node |-> None, title |-> None, started |-> 0,
            notified |-> 0, snoozed |-> 0, acked |-> 0, closed |-> 0,
            reason |-> "", since |-> 0]
PrunedRow == [FreeRow EXCEPT !.st = "pruned"]

IdleHandler == [pc |-> "idle", node |-> None, hb |-> None, todo |-> {}, plan |-> {}]
IdleJanitor == [pc |-> "idle", scanned |-> 0, beats |-> [n \in Nodes |-> 0], todo |-> {},
                node |-> None, plan |-> {}]

VARIABLES
  now,        \* time.Now()
  inc,        \* the incidents table, by id (AUTOINCREMENT)
  beat,       \* mem.nodes[n].LastHeartbeat, 0 when n is not in the map
  latest,     \* mem.nodes[n].Latest
  quiet,      \* severities whose pages the owner mutes: settings, maintenance
  hdl,        \* heartbeat handlers in flight
  jan,        \* the janitor goroutine
  nextPass,   \* when its ticker next fires
  sent,       \* last page sent outside for a row, 0 when none
  notices     \* resolution notices sent outside for a row

table == <<inc, sent, notices>>
mem   == <<beat, latest>>
vars  == <<now, inc, beat, latest, quiet, hdl, jan, nextPass, sent, notices>>

-----------------------------------------------------------------------------
(* The table: lookups and the statements that change it.                   *)

Severity(t) == IF t \in Containers \cup {Silent} \cup OtherCritical
               THEN "critical" ELSE "warning"
cooldownFor(t) == IF Severity(t) = "critical" THEN CriticalCooldown ELSE WarningCooldown

Free == {id \in Ids : inc[id].st = "free"}
\* Bug: the lookup skips rows the operator acknowledged.
OpenRowsUnacked(n, t) == {id \in Ids : /\ inc[id].st = "open" /\ inc[id].acked = 0
                                       /\ inc[id].node = n /\ inc[id].title = t}
OpenRows(n, t) == {id \in Ids : inc[id].st = "open" /\ inc[id].node = n /\ inc[id].title = t}
OpenOf(n) == {id \in Ids : inc[id].st = "open" /\ inc[id].node = n}

Page(id, n, t) == sent' = [sent EXCEPT ![id] = IF Severity(t) \in quiet[n] THEN @ ELSE now]

NewRow(n, t, since) ==
  [st |-> "open", node |-> n, title |-> t, started |-> now, notified |-> now,
   snoozed |-> 0, acked |-> 0, closed |-> 0, reason |-> "", since |-> since]

InsertIncident(n, t, since) ==
  /\ OpenRows(n, t) = {}
  /\ \E id \in Free :
       /\ \A other \in Free : id <= other
       /\ inc' = [inc EXCEPT ![id] = NewRow(n, t, since)]
       /\ Page(id, n, t)
  /\ UNCHANGED notices

\* Bug: the snooze is not consulted.
DueThoughSnoozed(row) == row.notified = 0 \/ now - row.notified >= cooldownFor(row.title)
Due(row) == /\ row.snoozed <= now
            /\ \/ row.notified = 0
               \/ now - row.notified >= cooldownFor(row.title)

RefreshIncident(n, t, since) ==
  /\ \E id \in OpenRows(n, t) :
       /\ \A other \in OpenRows(n, t) : other <= id
       /\ \/ /\ Due(inc[id])
             /\ inc' = [inc EXCEPT ![id].notified = now, ![id].since = since]
             /\ Page(id, n, t)
          \/ /\ ~Due(inc[id])
             /\ inc' = [inc EXCEPT ![id].since = since]
             /\ UNCHANGED sent
  /\ UNCHANGED notices

CreateIncident(n, t, since) ==
  \/ InsertIncident(n, t, since)
  \/ RefreshIncident(n, t, since)
  \/ (DbMayFail \/ OpenRows(n, t) \cup Free = {}) /\ UNCHANGED table

\* Bug: the UPDATE has no "AND resolved = 0".
markResolvedAgain(id, why) ==
  /\ inc' = [inc EXCEPT ![id].st = "resolved", ![id].closed = now, ![id].reason = why]
  /\ notices' = [notices EXCEPT ![id] = @ + 1]
  /\ UNCHANGED sent
markResolvedAndNotify(id, why) ==
  \/ /\ inc[id].st = "open"
     /\ inc' = [inc EXCEPT ![id].st = "resolved", ![id].closed = now, ![id].reason = why]
     /\ notices' = [notices EXCEPT ![id] = @ + 1]
     /\ UNCHANGED sent
  \/ inc[id].st # "open" /\ UNCHANGED table
  \/ DbMayFail /\ UNCHANGED table

(* What a SELECT returns: a failed one is treated as no rows.              *)
Selected(S) == {S} \cup {x \in {{}} : DbMayFail}

-----------------------------------------------------------------------------
(* Heartbeats.  todo: incidents still to be raised for this heartbeat,     *)
(* plan: <<id, reason>> pairs ResolveStaleIncidents still has to close.    *)

mem_Ingest(n, hb) ==
  /\ beat' = [beat EXCEPT ![n] = now]
  /\ latest' = [latest EXCEPT ![n] = hb]

Raised(hb) == {t \in {Memory} : hb.mem = "high"} \cup {c \in Containers : hb.svc[c] = "stopped"}

IngestStart(h, n, hb, others) ==
  /\ hdl[h].pc = "idle"
  /\ mem_Ingest(n, hb)
  /\ hdl' = [hdl EXCEPT ![h] = [IdleHandler EXCEPT
               !.pc = "raise", !.node = n, !.hb = hb, !.todo = Raised(hb) \cup others]]
  /\ UNCHANGED <<now, inc, quiet, jan, nextPass, sent, notices>>

(* Rules and interfaces are evaluated first, then memory, then containers. *)
NextToRaise(todo) ==
  IF todo \cap OtherTitles # {} THEN todo \cap OtherTitles
  ELSE IF Memory \in todo THEN {Memory} ELSE todo

IngestRaise(h) ==
  /\ hdl[h].pc = "raise"
  /\ \E t \in NextToRaise(hdl[h].todo) :
       /\ CreateIncident(hdl[h].node, t, 0)
       /\ hdl' = [hdl EXCEPT ![h].todo = @ \ {t}]
  /\ UNCHANGED <<now, mem, quiet, jan, nextPass>>

\* Bug: only container incidents are ever cleared.
resolutionReasonContainers(row, hb) ==
  IF row.title \in Containers /\ hb.svc[row.title] # "stopped" THEN "service_recovered" ELSE ""
incidentResolutionReason(row, hb) ==
  CASE row.title = Memory /\ hb.mem = "low" -> "metric_recovered"
    [] row.title \in Containers /\ hb.svc[row.title] = "active" -> "service_recovered"
    [] row.title \in Containers /\ hb.svc[row.title] = "absent" -> "service_absent"
    [] row.title \in Containers /\ hb.svc[row.title] = "stopped"
         /\ now - row.started > AbandonTTL -> "abandoned_ttl"
    [] OTHER -> ""

IngestReadOpen(h) ==
  /\ hdl[h].pc = "raise" /\ hdl[h].todo = {}
  /\ LET reason(id) == incidentResolutionReason(inc[id], hdl[h].hb) IN
       \E open \in Selected(OpenOf(hdl[h].node)) :
         hdl' = [hdl EXCEPT ![h].pc = "resolve",
                  ![h].plan = {<<id, reason(id)>> : id \in {i \in open : reason(i) # ""}}]
  /\ UNCHANGED <<now, table, mem, quiet, jan, nextPass>>

IngestResolve(h) ==
  /\ hdl[h].pc = "resolve"
  /\ \E step \in hdl[h].plan :
       /\ markResolvedAndNotify(step[1], step[2])
       /\ hdl' = [hdl EXCEPT ![h].plan = @ \ {step}]
  /\ UNCHANGED <<now, mem, quiet, jan, nextPass>>

IngestDone(h) ==
  /\ hdl[h].pc = "resolve" /\ hdl[h].plan = {}
  /\ hdl' = [hdl EXCEPT ![h] = IdleHandler]
  /\ UNCHANGED <<now, table, mem, quiet, jan, nextPass>>

-----------------------------------------------------------------------------
(* The janitor pass: sweep, watchdog, prune.                               *)

\* Bug: a row exactly AbandonTTL old counts as older.
AbandonedAtTTL == {id \in Ids : inc[id].st = "open" /\ inc[id].started <= now - AbandonTTL}
Abandoned == {id \in Ids : /\ inc[id].st = "open" /\ inc[id].started > 0
                           /\ inc[id].started < now - AbandonTTL}

JanitorStart ==
  /\ jan.pc = "idle" /\ now >= nextPass
  /\ \E stale \in Selected(Abandoned) :
       jan' = [IdleJanitor EXCEPT !.pc = "sweep",
                                  !.plan = {<<id, "abandoned_ttl">> : id \in stale}]
  /\ nextPass' \in {m \in now + 1 .. now + JanitorInterval :
                      (m - nextPass) % JanitorInterval = 0}
  /\ UNCHANGED <<now, table, mem, quiet, hdl>>

JanitorResolve ==
  /\ jan.pc \in {"sweep", "restore"}
  /\ \E step \in jan.plan :
       /\ markResolvedAndNotify(step[1], step[2])
       /\ jan' = [jan EXCEPT !.plan = @ \ {step}]
  /\ UNCHANGED <<now, mem, quiet, hdl, nextPass>>

(* SilentNodeWatchdog(time.Now()) works on a copy of the node map.         *)
WatchdogScan ==
  /\ jan.pc = "sweep" /\ jan.plan = {}
  /\ jan' = [jan EXCEPT !.pc = "watch", !.scanned = now, !.beats = beat,
                        !.todo = {n \in Nodes : beat[n] # 0}]
  /\ UNCHANGED <<now, table, mem, quiet, hdl, nextPass>>

SilentAtScan(n) == jan.beats[n] < jan.scanned - SilentTTL

WatchdogSilent(n) ==
  /\ jan.pc = "watch" /\ n \in jan.todo /\ SilentAtScan(n)
  /\ \/ /\ OpenRows(n, Silent) # {} \/ DbMayFail
        /\ jan' = [jan EXCEPT !.todo = @ \ {n}]
     \/ /\ OpenRows(n, Silent) = {}
        /\ jan' = [jan EXCEPT !.todo = @ \ {n}, !.pc = "open", !.node = n]
  /\ UNCHANGED <<now, table, mem, quiet, hdl, nextPass>>

WatchdogOpen ==
  /\ jan.pc = "open"
  /\ CreateIncident(jan.node, Silent, jan.beats[jan.node])
  /\ jan' = [jan EXCEPT !.pc = "watch", !.node = None]
  /\ UNCHANGED <<now, mem, quiet, hdl, nextPass>>

\* Bug: no continue after the silent branch.
WatchdogFallsThrough(n) ==
  /\ jan.pc = "watch" /\ n \in jan.todo
  /\ jan' = [jan EXCEPT !.todo = @ \ {n}, !.pc = "restore",
               !.plan = {<<id, "heartbeat_restored">> : id \in OpenRows(n, Silent)}]
  /\ UNCHANGED <<now, table, mem, quiet, hdl, nextPass>>
WatchdogAlive(n) ==
  /\ jan.pc = "watch" /\ n \in jan.todo /\ ~SilentAtScan(n)
  /\ \/ /\ jan' = [jan EXCEPT !.todo = @ \ {n}, !.pc = "restore",
                     !.plan = {<<id, "heartbeat_restored">> : id \in OpenRows(n, Silent)}]
     \/ DbMayFail /\ jan' = [jan EXCEPT !.todo = @ \ {n}]
  /\ UNCHANGED <<now, table, mem, quiet, hdl, nextPass>>

WatchdogRestored ==
  /\ jan.pc = "restore" /\ jan.plan = {}
  /\ jan' = [jan EXCEPT !.pc = "watch"]
  /\ UNCHANGED <<now, table, mem, quiet, hdl, nextPass>>

\* Bug: the DELETE forgets "resolved = 1 AND resolved_at > 0".
ExpiredUnresolved == {id \in Ids : inc[id].st # "free" /\ inc[id].closed < now - Retention}
Expired == {id \in Ids : /\ inc[id].st = "resolved" /\ inc[id].closed > 0
                         /\ inc[id].closed < now - Retention}

JanitorPrune ==
  /\ jan.pc = "watch" /\ jan.todo = {}
  /\ \/ inc' = [id \in Ids |-> IF id \in Expired THEN PrunedRow ELSE inc[id]]
     \/ DbMayFail /\ UNCHANGED inc
  /\ jan' = IdleJanitor
  /\ UNCHANGED <<now, mem, quiet, hdl, nextPass, sent, notices>>

-----------------------------------------------------------------------------
(* The operator, the clock, the owner's settings and a server restart.     *)

AcknowledgeIncident(id) ==
  /\ "ack" \in Buttons
  /\ inc[id].st = "open" /\ inc[id].acked = 0
  /\ inc' = [inc EXCEPT ![id].acked = now]
  /\ UNCHANGED <<now, sent, notices, mem, quiet, hdl, jan, nextPass>>

SnoozeIncident(id, seconds) ==
  /\ "snooze" \in Buttons
  /\ inc[id].st = "open"
  /\ inc' = [inc EXCEPT ![id].snoozed = now + seconds, ![id].notified = now]
  /\ UNCHANGED <<now, sent, notices, mem, quiet, hdl, jan, nextPass>>

(* The owner of the node, or the administrator; open or already resolved.  *)
ResolveIncident(id) ==
  /\ "resolve" \in Buttons
  /\ inc[id].st \in {"open", "resolved"}
  /\ inc' = [inc EXCEPT ![id].st = "resolved", ![id].closed = now, ![id].reason = "manual"]
  /\ UNCHANGED <<now, sent, notices, mem, quiet, hdl, jan, nextPass>>

SetQuiet(n, S) ==
  /\ quiet' = [quiet EXCEPT ![n] = S]
  /\ UNCHANGED <<now, table, mem, hdl, jan, nextPass>>

Tick ==
  /\ now < MaxTime
  /\ now' = now + 1
  /\ UNCHANGED <<table, mem, quiet, hdl, jan, nextPass>>

(* The process dies and comes back: the table survives, nothing else does. *)
Restart ==
  /\ MayRestart
  /\ beat' = [n \in Nodes |-> 0] /\ latest' = [n \in Nodes |-> None]
  /\ hdl' = [h \in Handlers |-> IdleHandler]
  /\ jan' = IdleJanitor /\ nextPass' = now
  /\ UNCHANGED <<now, table, quiet>>

-----------------------------------------------------------------------------
Init ==
  /\ now = 1
  /\ inc = [id \in Ids |-> FreeRow]
  /\ beat = [n \in Nodes |-> 0] /\ latest = [n \in Nodes |-> None]
  /\ quiet = [n \in Nodes |-> {}]
  /\ hdl = [h \in Handlers |-> IdleHandler]
  /\ jan = IdleJanitor /\ nextPass = now
  /\ sent = [id \in Ids |-> 0] /\ notices = [id \in Ids |-> 0]

HandlerStep(h) == IngestRaise(h) \/ IngestReadOpen(h) \/ IngestResolve(h) \/ IngestDone(h)

JanitorStep ==
  \/ JanitorStart \/ JanitorResolve
  \/ WatchdogScan \/ WatchdogOpen \/ WatchdogRestored
  \/ \E n \in Nodes : WatchdogSilent(n) \/ WatchdogAlive(n)
  \/ JanitorPrune

Heartbeat(n) == \E h \in Handlers, hb \in Heartbeats, others \in SUBSET OtherTitles :
                  IngestStart(h, n, hb, others)

Next ==
  \/ \E n \in Nodes : Heartbeat(n)
  \/ \E h \in Handlers : HandlerStep(h)
  \/ JanitorStep
  \/ \E id \in Ids : \/ AcknowledgeIncident(id) \/ ResolveIncident(id)
                     \/ \E d \in Snoozes : SnoozeIncident(id, d)
  \/ \E n \in Nodes, S \in QuietChoices : SetQuiet(n, S)
  \/ Tick
  \/ Restart

Spec == Init /\ [][Next]_vars

(* Goroutines are scheduled, the janitor's ticker fires and agents keep    *)
(* shipping (the agent's loop posts a heartbeat on every tick).            *)
Fairness ==
  /\ \A h \in Handlers : WF_vars(HandlerStep(h))
  /\ WF_vars(JanitorStep)
  /\ \A n \in Nodes : WF_vars(Heartbeat(n))

FairSpec == Spec /\ Fairness

-----------------------------------------------------------------------------
(* Properties.                                                             *)

Time == 0 .. MaxTime
Plans == SUBSET (Ids \X Reasons)

Row == [st : {"free", "open", "resolved", "pruned"}, node : Nodes \cup {None},
        title : Titles \cup {None}, started : Time, notified : Time, snoozed : Nat,
        acked : Time, closed : Time, reason : Reasons, since : Time]

TypeOK ==
  /\ now \in 1 .. MaxTime
  /\ inc \in [Ids -> Row]
  /\ beat \in [Nodes -> Time]
  /\ latest \in [Nodes -> Heartbeats \cup {None}]
  /\ quiet \in [Nodes -> SUBSET Severities]
  /\ hdl \in [Handlers -> [pc : {"idle", "raise", "resolve"}, node : Nodes \cup {None},
                           hb : Heartbeats \cup {None}, todo : SUBSET Titles, plan : Plans]]
  /\ jan \in [pc : {"idle", "sweep", "watch", "open", "restore"}, scanned : Time,
              beats : [Nodes -> Time], todo : SUBSET Nodes,
              node : Nodes \cup {None}, plan : Plans]
  /\ \A h \in Handlers : hdl[h].pc # "idle" => hdl[h].node \in Nodes /\ hdl[h].hb \in Heartbeats
  /\ jan.pc = "open" => jan.node \in Nodes
  /\ nextPass \in Nat
  /\ sent \in [Ids -> Time]
  /\ notices \in [Ids -> Nat]

(* However handlers and watchdog interleave, a condition that persists is  *)
(* one open row: there is no unique index, only the lookup and the INSERT  *)
(* under one hold of p.mu (CreateIncident).                                *)
UniqueOpen ==
  \A i, j \in Ids :
    inc[i].st = "open" /\ inc[j].st = "open"
      /\ inc[i].node = inc[j].node /\ inc[i].title = inc[j].title => i = j

(* Two handlers and the janitor may all plan to close the same row; the    *)
(* owner hears of it once, and never of a row that is still open           *)
(* (markResolvedAndNotify counts the rows its UPDATE changed).             *)
ResolvedNoticeOnce ==
  \A id \in Ids : notices[id] <= IF inc[id].st \in {"resolved", "pruned"} THEN 1 ELSE 0

(* A row given up as abandoned really had been open for the whole TTL,     *)
(* whichever of the two abandon paths closed it and however late.          *)
AbandonedWasOld ==
  \A id \in Ids : inc[id].reason = "abandoned_ttl" =>
    inc[id].closed - inc[id].started > AbandonTTL

(* A Node Silent row closed as heartbeat_restored was closed by a newer    *)
(* heartbeat than the one its detail quotes, not by a stale copy of the    *)
(* node map (SilentNodeWatchdog, across passes and restarts).              *)
RestoredByHeartbeat ==
  \A id \in Ids : inc[id].reason = "heartbeat_restored" =>
    \/ beat[inc[id].node] = 0
    \/ beat[inc[id].node] > inc[id].since

(* A page for an already paged row waits out both the cooldown since the   *)
(* last page and the snooze, whoever raises it (CreateIncident's gate and  *)
(* SnoozeIncident's stamp).                                                *)
PageGap ==
  \A id \in Ids : sent'[id] # sent[id] =>
    /\ inc[id].snoozed <= now
    /\ sent[id] = 0 \/ now - sent[id] >= cooldownFor(inc'[id].title)
PagesSpaced == [][PageGap]_vars

(* No step of anyone reopens a closed row, forgets when it closed unless   *)
(* the operator resolves it again, or deletes it before Retention.         *)
Settled(id) ==
  inc[id].st \in {"resolved", "pruned"} =>
    \/ inc'[id] = inc[id]
    \/ inc'[id].reason = "manual" /\ inc'[id].st = "resolved" /\ inc'[id].closed = now
    \/ inc'[id].st = "pruned" /\ now - inc[id].closed > Retention
ClosedStaysClosed == [][\A id \in Ids : Settled(id)]_vars

(* The table is the ledger of IncidentLedger: handlers, janitor, operator  *)
(* and restarts only ever raise, close once, and drop closed entries.      *)
Ledger == INSTANCE IncidentLedger WITH
  Keys <- Nodes \X Titles, NoKey <- <<None, None>>,
  st <- [id \in Ids |-> inc[id].st],
  key <- [id \in Ids |-> <<inc[id].node, inc[id].title>>]
LedgerSpec == Ledger!Spec

(* Once a node reports normal memory for good, its memory incident closes  *)
(* for good, whatever heartbeats were still in flight.                     *)
MemoryIncidentCloses ==
  \A n \in Nodes :
    <>[](latest[n] # None /\ latest[n].mem = "low") => <>[](OpenRows(n, Memory) = {})

=============================================================================
