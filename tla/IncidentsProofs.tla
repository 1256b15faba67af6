--------------------------- MODULE IncidentsProofs ---------------------------
(***************************************************************************)
(* Proofs about Incidents for every fleet, clock and table size.           *)
(***************************************************************************)
EXTENDS Incidents, TLAPS

(* The statements of CreateIncident and markResolvedAndNotify keep the     *)
(* table well typed.                                                       *)
LEMMA CreateIncidentType ==
  ASSUME TypeOK, NEW n \in Nodes, NEW t \in Titles, NEW since \in Time,
         CreateIncident(n, t, since)
  PROVE  inc' \in [Ids -> Row] /\ sent' \in [Ids -> Time] /\ notices' \in [Ids -> Nat]
<1>1. now \in Time
  BY TimesAssumption DEF TypeOK, Time
<1>2. CASE InsertIncident(n, t, since)
  <2>1. PICK id \in Ids : /\ inc' = [inc EXCEPT ![id] = NewRow(n, t, since)]
                          /\ Page(id, n, t)
    BY <1>2 DEF InsertIncident, Free
  <2>2. NewRow(n, t, since) \in Row
    BY <1>1, TimesAssumption DEF Row, Reasons, Time, NewRow
  <2> QED
    BY <1>1, <1>2, <2>1, <2>2 DEF TypeOK, Page, InsertIncident
<1>3. CASE RefreshIncident(n, t, since)
  <2>1. PICK id \in Ids :
          \/ /\ inc' = [inc EXCEPT ![id].notified = now, ![id].since = since]
             /\ Page(id, n, t)
          \/ inc' = [inc EXCEPT ![id].since = since] /\ UNCHANGED sent
    BY <1>3 DEF RefreshIncident, OpenRows
  <2>2. inc[id] \in Row
    BY DEF TypeOK
  <2>3. [inc[id] EXCEPT !.notified = now, !.since = since] \in Row
    BY <1>1, <2>2 DEF Row
  <2>4. [inc[id] EXCEPT !.since = since] \in Row
    BY <2>2 DEF Row
  <2>5. inc' \in [Ids -> Row]
    BY <2>1, <2>3, <2>4 DEF TypeOK
  <2>6. sent' \in [Ids -> Time]
    BY <1>1, <2>1 DEF TypeOK, Page
  <2> QED
    BY <1>3, <2>5, <2>6 DEF TypeOK, RefreshIncident
<1>4. CASE UNCHANGED table
  BY <1>4 DEF TypeOK, table
<1> QED
  BY <1>2, <1>3, <1>4 DEF CreateIncident

LEMMA MarkResolvedType ==
  ASSUME TypeOK, NEW id \in Ids, NEW why \in Reasons, markResolvedAndNotify(id, why)
  PROVE  inc' \in [Ids -> Row] /\ sent' \in [Ids -> Time] /\ notices' \in [Ids -> Nat]
<1>1. now \in Time
  BY TimesAssumption DEF TypeOK, Time
<1>2. CASE UNCHANGED table
  BY <1>2 DEF TypeOK, table
<1>3. CASE /\ inc' = [inc EXCEPT ![id].st = "resolved", ![id].closed = now, ![id].reason = why]
           /\ notices' = [notices EXCEPT ![id] = @ + 1]
           /\ UNCHANGED sent
  <2>1. inc[id] \in Row
    BY DEF TypeOK
  <2>2. [inc[id] EXCEPT !.st = "resolved", !.closed = now, !.reason = why] \in Row
    BY <1>1, <2>1 DEF Row
  <2>3. inc' \in [Ids -> Row]
    BY <1>3, <2>2 DEF TypeOK
  <2> QED
    BY <1>3, <2>3 DEF TypeOK
<1> QED
  BY <1>2, <1>3 DEF markResolvedAndNotify
LEMMA TypeInit == Init => TypeOK
<1> SUFFICES ASSUME Init PROVE TypeOK
  OBVIOUS
<1>1. FreeRow \in Row
  BY TimesAssumption DEF FreeRow, Row, Time, Reasons
<1>2. IdleHandler \in [pc : {"idle", "raise", "resolve"}, node : Nodes \cup {None},
                       hb : Heartbeats \cup {None}, todo : SUBSET Titles, plan : Plans]
  BY DEF IdleHandler, Plans
<1>3. IdleJanitor \in [pc : {"idle", "sweep", "watch", "open", "restore"}, scanned : Time,
                       beats : [Nodes -> Time], todo : SUBSET Nodes,
                       node : Nodes \cup {None}, plan : Plans]
  BY TimesAssumption DEF IdleJanitor, Plans, Time
<1> QED
  BY <1>1, <1>2, <1>3, TimesAssumption DEF Init, TypeOK, Time, IdleHandler, IdleJanitor

HandlerType == [pc : {"idle", "raise", "resolve"}, node : Nodes \cup {None},
                hb : Heartbeats \cup {None}, todo : SUBSET Titles, plan : Plans]
JanitorType == [pc : {"idle", "sweep", "watch", "open", "restore"}, scanned : Time,
                beats : [Nodes -> Time], todo : SUBSET Nodes,
                node : Nodes \cup {None}, plan : Plans]

(* The reason a row is closed with is one of Reasons, so every plan is.    *)
LEMMA ReasonType ==
  ASSUME NEW row, NEW hb
  PROVE  incidentResolutionReason(row, hb) \in Reasons
BY DEF incidentResolutionReason, Reasons

(* A plan that gives every row of a set the same reason is well typed.     *)
LEMMA UniformPlanType ==
  ASSUME NEW S \in SUBSET Ids, NEW why \in Reasons
  PROVE  {<<id, why>> : id \in S} \in Plans
<1> SUFFICES ASSUME NEW step \in {<<id, why>> : id \in S}
             PROVE  step \in Ids \X Reasons
  BY DEF Plans
<1>1. PICK id \in S : step = <<id, why>>
  OBVIOUS
<1> QED
  BY <1>1

LEMMA HandlerStepType ==
  ASSUME TypeOK, NEW h \in Handlers, HandlerStep(h)
  PROVE  TypeOK'
<1>0. now \in Time /\ 0 \in Time /\ hdl[h] \in HandlerType
  BY TimesAssumption DEF TypeOK, Time, HandlerType
<1>1. CASE IngestRaise(h)
  <2>1. PICK t \in NextToRaise(hdl[h].todo) :
          /\ CreateIncident(hdl[h].node, t, 0)
          /\ hdl' = [hdl EXCEPT ![h].todo = @ \ {t}]
    BY <1>1 DEF IngestRaise
  <2>2. t \in Titles /\ hdl[h].node \in Nodes
    BY <1>0, <1>1, <2>1 DEF NextToRaise, IngestRaise, TypeOK, HandlerType
  <2>3. inc' \in [Ids -> Row] /\ sent' \in [Ids -> Time] /\ notices' \in [Ids -> Nat]
    BY <1>0, <2>1, <2>2, CreateIncidentType
  <2>4. [hdl[h] EXCEPT !.todo = @ \ {t}] \in HandlerType
    BY <1>0 DEF HandlerType
  <2> QED
    BY <1>1, <2>1, <2>3, <2>4 DEF IngestRaise, TypeOK, HandlerType, mem
<1>2. CASE IngestReadOpen(h)
  <2>1. PICK plan \in Plans : hdl' = [hdl EXCEPT ![h].pc = "resolve", ![h].plan = plan]
    <3> DEFINE reason(id) == incidentResolutionReason(inc[id], hdl[h].hb)
    <3>1. PICK open \in Selected(OpenOf(hdl[h].node)) :
            hdl' = [hdl EXCEPT ![h].pc = "resolve",
                     ![h].plan = {<<id, reason(id)>> : id \in {i \in open : reason(i) # ""}}]
      BY <1>2 DEF IngestReadOpen
    <3> DEFINE stale == {<<id, reason(id)>> : id \in {i \in open : reason(i) # ""}}
    <3>2. open \subseteq Ids
      BY DEF Selected, OpenOf
    <3>3. \A id : reason(id) \in Reasons
      BY ReasonType
    <3>4. ASSUME NEW step \in stale PROVE step \in Ids \X Reasons
      <4> HIDE DEF reason
      <4>1. PICK id \in open : step = <<id, reason(id)>>
        OBVIOUS
      <4> QED
        BY <3>2, <3>3, <4>1
    <3>5. stale \in Plans
      BY <3>4 DEF Plans
    <3> QED
      BY <3>1, <3>5
  <2>2. [hdl[h] EXCEPT !.pc = "resolve", !.plan = plan] \in HandlerType
    BY <1>0, <2>1 DEF HandlerType
  <2> QED
    BY <1>2, <2>1, <2>2 DEF IngestReadOpen, TypeOK, HandlerType, mem, table
<1>3. CASE IngestResolve(h)
  <2>1. PICK step \in hdl[h].plan :
          /\ markResolvedAndNotify(step[1], step[2])
          /\ hdl' = [hdl EXCEPT ![h].plan = @ \ {step}]
    BY <1>3 DEF IngestResolve
  <2>2. step[1] \in Ids /\ step[2] \in Reasons
    BY <1>0, <2>1 DEF HandlerType, Plans
  <2>3. inc' \in [Ids -> Row] /\ sent' \in [Ids -> Time] /\ notices' \in [Ids -> Nat]
    BY <2>1, <2>2, MarkResolvedType
  <2>4. [hdl[h] EXCEPT !.plan = @ \ {step}] \in HandlerType
    BY <1>0 DEF HandlerType, Plans
  <2> QED
    BY <1>3, <2>1, <2>3, <2>4 DEF IngestResolve, TypeOK, HandlerType, mem
<1>4. CASE IngestDone(h)
  <2>1. IdleHandler \in HandlerType
    BY DEF IdleHandler, HandlerType, Plans
  <2> QED
    BY <1>4, <2>1 DEF IngestDone, IdleHandler, TypeOK, HandlerType, mem, table
<1> QED
  BY <1>1, <1>2, <1>3, <1>4 DEF HandlerStep

LEMMA JanitorStepType ==
  ASSUME TypeOK, JanitorStep
  PROVE  TypeOK'
<1>0. now \in Time /\ 0 \in Time /\ jan \in JanitorType /\ IdleJanitor \in JanitorType
  BY TimesAssumption DEF TypeOK, Time, JanitorType, IdleJanitor, Plans
<1>1. CASE JanitorStart
  <2>1. PICK plan \in Plans : jan' = [IdleJanitor EXCEPT !.pc = "sweep", !.plan = plan]
    <3>1. PICK stale \in Selected(Abandoned) :
            jan' = [IdleJanitor EXCEPT !.pc = "sweep",
                                       !.plan = {<<id, "abandoned_ttl">> : id \in stale}]
      BY <1>1 DEF JanitorStart
    <3>2. stale \in SUBSET Ids
      BY DEF Selected, Abandoned
    <3>3. {<<id, "abandoned_ttl">> : id \in stale} \in Plans
      BY <3>2, UniformPlanType DEF Reasons
    <3> QED
      BY <3>1, <3>3
  <2>2. jan' \in JanitorType /\ jan'.pc = "sweep"
    BY <1>0, <2>1 DEF JanitorType, IdleJanitor
  <2>3. nextPass' \in Nat
    BY <1>1, TimesAssumption DEF JanitorStart, TypeOK
  <2> QED
    BY <1>1, <2>2, <2>3 DEF JanitorStart, TypeOK, JanitorType, mem, table
<1>2. CASE JanitorResolve
  <2>1. PICK step \in jan.plan :
          /\ markResolvedAndNotify(step[1], step[2])
          /\ jan' = [jan EXCEPT !.plan = @ \ {step}]
    BY <1>2 DEF JanitorResolve
  <2>2. step[1] \in Ids /\ step[2] \in Reasons
    BY <1>0, <2>1 DEF JanitorType, Plans
  <2>3. inc' \in [Ids -> Row] /\ sent' \in [Ids -> Time] /\ notices' \in [Ids -> Nat]
    BY <2>1, <2>2, MarkResolvedType
  <2>4. jan' \in JanitorType /\ jan'.pc # "open"
    BY <1>0, <1>2, <2>1 DEF JanitorType, Plans, JanitorResolve
  <2> QED
    BY <1>2, <2>3, <2>4 DEF JanitorResolve, TypeOK, JanitorType, mem
<1>3. CASE WatchdogScan
  <2>1. jan' \in JanitorType /\ jan'.pc = "watch"
    BY <1>0, <1>3 DEF JanitorType, WatchdogScan, TypeOK
  <2> QED
    BY <1>3, <2>1 DEF WatchdogScan, TypeOK, JanitorType, mem, table
<1>4. CASE WatchdogOpen
  <2>1. jan.node \in Nodes /\ jan.beats[jan.node] \in Time /\ Silent \in Titles
    BY <1>0, <1>4 DEF WatchdogOpen, TypeOK, JanitorType, Titles
  <2>2. inc' \in [Ids -> Row] /\ sent' \in [Ids -> Time] /\ notices' \in [Ids -> Nat]
    BY <1>4, <2>1, CreateIncidentType DEF WatchdogOpen
  <2>3. jan' \in JanitorType /\ jan'.pc = "watch"
    BY <1>0, <1>4 DEF WatchdogOpen, JanitorType
  <2> QED
    BY <1>4, <2>2, <2>3 DEF WatchdogOpen, TypeOK, JanitorType, mem
<1>5. CASE WatchdogRestored
  <2>1. jan' \in JanitorType /\ jan'.pc = "watch"
    BY <1>0, <1>5 DEF WatchdogRestored, JanitorType
  <2> QED
    BY <1>5, <2>1 DEF WatchdogRestored, TypeOK, JanitorType, mem, table
<1>6. ASSUME NEW n \in Nodes, WatchdogSilent(n)
      PROVE  TypeOK'
  <2>1. jan' \in JanitorType /\ (jan'.pc = "open" => jan'.node \in Nodes)
    <3>1. CASE jan' = [jan EXCEPT !.todo = @ \ {n}]
      BY <1>0, <1>6, <3>1 DEF WatchdogSilent, JanitorType
    <3>2. CASE jan' = [jan EXCEPT !.todo = @ \ {n}, !.pc = "open", !.node = n]
      BY <1>0, <3>2 DEF JanitorType
    <3> QED
      BY <1>6, <3>1, <3>2 DEF WatchdogSilent
  <2> QED
    BY <1>6, <2>1 DEF WatchdogSilent, TypeOK, JanitorType, mem, table
<1>7. ASSUME NEW n \in Nodes, WatchdogAlive(n)
      PROVE  TypeOK'
  <2>1. {<<id, "heartbeat_restored">> : id \in OpenRows(n, Silent)} \in Plans
    BY UniformPlanType DEF OpenRows, Reasons
  <2>2. jan' \in JanitorType /\ jan'.pc # "open"
    <3>1. jan.pc = "watch"
      BY <1>7 DEF WatchdogAlive
    <3>2. CASE jan' = [jan EXCEPT !.todo = @ \ {n}]
      BY <1>0, <3>1, <3>2 DEF JanitorType
    <3>3. CASE jan' = [jan EXCEPT !.todo = @ \ {n}, !.pc = "restore",
                         !.plan = {<<id, "heartbeat_restored">> : id \in OpenRows(n, Silent)}]
      BY <1>0, <2>1, <3>3 DEF JanitorType
    <3> QED
      BY <1>7, <3>2, <3>3 DEF WatchdogAlive
  <2> QED
    BY <1>7, <2>2 DEF WatchdogAlive, TypeOK, JanitorType, mem, table
<1>8. CASE JanitorPrune
  <2>1. PrunedRow \in Row
    BY <1>0 DEF PrunedRow, FreeRow, Row, Reasons
  <2>2. inc' \in [Ids -> Row]
    BY <1>8, <2>1 DEF JanitorPrune, TypeOK
  <2> QED
    BY <1>0, <1>8, <2>2 DEF JanitorPrune, IdleJanitor, TypeOK, JanitorType, mem
<1> QED
  BY <1>1, <1>2, <1>3, <1>4, <1>5, <1>6, <1>7, <1>8 DEF JanitorStep

(* The buttons change single fields of one row.                            *)
LEMMA ButtonType ==
  ASSUME TypeOK, NEW id \in Ids,
         \/ AcknowledgeIncident(id) \/ ResolveIncident(id)
         \/ \E d \in Snoozes : SnoozeIncident(id, d)
  PROVE  TypeOK'
<1>0. now \in Time /\ inc[id] \in Row
  BY TimesAssumption DEF TypeOK, Time
<1>1. inc' \in [Ids -> Row]
  <2>1. CASE AcknowledgeIncident(id)
    <3>1. [inc[id] EXCEPT !.acked = now] \in Row
      BY <1>0 DEF Row
    <3> QED
      BY <2>1, <3>1 DEF AcknowledgeIncident, TypeOK
  <2>2. CASE ResolveIncident(id)
    <3>1. [inc[id] EXCEPT !.st = "resolved", !.closed = now, !.reason = "manual"] \in Row
      BY <1>0 DEF Row, Reasons
    <3> QED
      BY <2>2, <3>1 DEF ResolveIncident, TypeOK
  <2>3. ASSUME NEW d \in Snoozes, SnoozeIncident(id, d)
        PROVE  inc' \in [Ids -> Row]
    <3>1. now + d \in Nat
      BY TimesAssumption DEF TypeOK
    <3>2. [inc[id] EXCEPT !.snoozed = now + d, !.notified = now] \in Row
      BY <1>0, <3>1 DEF Row
    <3> QED
      BY <2>3, <3>2 DEF SnoozeIncident, TypeOK
  <2> QED
    BY <2>1, <2>2, <2>3
<1> QED
  BY <1>1 DEF AcknowledgeIncident, ResolveIncident, SnoozeIncident, TypeOK, mem

LEMMA TypeStep == TypeOK /\ [Next]_vars => TypeOK'
<1> SUFFICES ASSUME TypeOK, [Next]_vars PROVE TypeOK'
  OBVIOUS
<1>0. now \in Time /\ 0 \in Time
  BY TimesAssumption DEF TypeOK, Time
<1>1. ASSUME NEW n \in Nodes, NEW h \in Handlers, NEW hb \in Heartbeats,
             NEW others \in SUBSET OtherTitles, IngestStart(h, n, hb, others)
      PROVE  TypeOK'
  <2>1. Raised(hb) \cup others \in SUBSET Titles
    BY DEF Raised, Titles
  <2>2. beat' \in [Nodes -> Time] /\ latest' \in [Nodes -> Heartbeats \cup {None}]
    BY <1>0, <1>1 DEF IngestStart, mem_Ingest, TypeOK
  <2>3. [IdleHandler EXCEPT !.pc = "raise", !.node = n, !.hb = hb,
                            !.todo = Raised(hb) \cup others] \in HandlerType
    BY <2>1 DEF IdleHandler, HandlerType, Plans
  <2> QED
    BY <1>1, <2>2, <2>3 DEF IngestStart, IdleHandler, TypeOK, HandlerType
<1>2. ASSUME NEW n \in Nodes, NEW S \in QuietChoices, SetQuiet(n, S)
      PROVE  TypeOK'
  BY <1>2, TitlesAssumption DEF SetQuiet, TypeOK, mem, table
<1>3. CASE Tick
  BY <1>3, TimesAssumption DEF Tick, TypeOK, mem, table
<1>4. CASE Restart
  <2>1. IdleHandler \in HandlerType /\ IdleJanitor \in JanitorType
    BY <1>0 DEF IdleHandler, HandlerType, Plans, JanitorType, IdleJanitor
  <2> QED
    BY <1>0, <1>4, <2>1, TimesAssumption
    DEF Restart, TypeOK, table, HandlerType, JanitorType, IdleHandler, IdleJanitor
<1>5. CASE UNCHANGED vars
  BY <1>5 DEF vars, TypeOK
<1> QED
  BY <1>1, <1>2, <1>3, <1>4, <1>5, HandlerStepType, JanitorStepType, ButtonType
  DEF Next, Heartbeat

(* Every variable stays in its type, for every fleet and clock: in         *)
(* particular a handler or janitor at work always has a node to work for,  *)
(* and every plan names rows and reasons that exist.                       *)
THEOREM TypeCorrect == Spec => []TypeOK
<1>1. QED
  BY TypeInit, TypeStep, PTL DEF Spec

-----------------------------------------------------------------------------
(* The table refines the abstract ledger, step by step.                    *)

LedgerStep == Ledger!Next \/ UNCHANGED Ledger!vars

(* A statement that leaves status, node and title of every row, and the    *)
(* notices, alone is a stutter of the ledger.                              *)
LEMMA StutterLedger ==
  ASSUME TypeOK, UNCHANGED notices,
         \A id \in Ids : /\ inc'[id].st = inc[id].st
                         /\ inc'[id].node = inc[id].node
                         /\ inc'[id].title = inc[id].title
  PROVE  LedgerStep
BY DEF LedgerStep, Ledger!vars

LEMMA CreateIncidentLedger ==
  ASSUME TypeOK, NEW n \in Nodes, NEW t \in Titles, NEW since \in Time,
         CreateIncident(n, t, since)
  PROVE  LedgerStep
<1>1. CASE InsertIncident(n, t, since)
  <2>1. PICK id \in Free : /\ \A other \in Free : id <= other
                           /\ inc' = [inc EXCEPT ![id] = NewRow(n, t, since)]
    BY <1>1 DEF InsertIncident
  <2>2. id \in Ids /\ inc[id].st = "free"
    BY <2>1 DEF Free
  <2>3. inc \in [Ids -> Row]
    BY DEF TypeOK
  <2>4. \A other \in Ids : inc[other].st = "free" => id <= other
    BY <2>1 DEF Free
  <2>5. \A other \in Ids : ~(inc[other].st = "open" /\ <<inc[other].node, inc[other].title>> = <<n, t>>)
    BY <1>1 DEF InsertIncident, OpenRows
  <2>6. [i \in Ids |-> inc'[i].st] = [[i \in Ids |-> inc[i].st] EXCEPT ![id] = "open"]
    BY <2>1, <2>2, <2>3 DEF NewRow
  <2>7. [i \in Ids |-> <<inc'[i].node, inc'[i].title>>]
          = [[i \in Ids |-> <<inc[i].node, inc[i].title>>] EXCEPT ![id] = <<n, t>>]
    BY <2>1, <2>2, <2>3 DEF NewRow
  <2>8. Ledger!Raise(id, <<n, t>>)
    BY <1>1, <2>2, <2>4, <2>5, <2>6, <2>7 DEF Ledger!Raise, InsertIncident
  <2> QED
    BY <2>2, <2>8 DEF LedgerStep, Ledger!Next
<1>2. CASE RefreshIncident(n, t, since)
  <2>1. PICK id \in Ids : \/ inc' = [inc EXCEPT ![id].notified = now, ![id].since = since]
                          \/ inc' = [inc EXCEPT ![id].since = since]
    BY <1>2 DEF RefreshIncident, OpenRows
  <2>2. \A i \in Ids : /\ inc'[i].st = inc[i].st
                       /\ inc'[i].node = inc[i].node
                       /\ inc'[i].title = inc[i].title
    <3> SUFFICES ASSUME NEW i \in Ids
                 PROVE  /\ inc'[i].st = inc[i].st
                        /\ inc'[i].node = inc[i].node
                        /\ inc'[i].title = inc[i].title
      OBVIOUS
    <3>1. inc \in [Ids -> Row] /\ inc[i] \in Row
      BY DEF TypeOK
    <3>2. CASE i # id
      BY <2>1, <3>1, <3>2
    <3>3. CASE i = id
      BY <2>1, <3>1, <3>3 DEF Row
    <3> QED
      BY <3>2, <3>3
  <2> QED
    BY <1>2, <2>2, StutterLedger DEF RefreshIncident
<1>3. CASE UNCHANGED table
  BY <1>3, StutterLedger DEF table
<1> QED
  BY <1>1, <1>2, <1>3 DEF CreateIncident

(* Closing an open row, by whatever statement, closes the ledger's entry.  *)
LEMMA CloseRow ==
  ASSUME TypeOK, NEW id \in Ids, NEW why \in Reasons,
         inc' = [inc EXCEPT ![id].st = "resolved", ![id].closed = now, ![id].reason = why]
  PROVE  /\ [i \in Ids |-> inc'[i].st] = [[i \in Ids |-> inc[i].st] EXCEPT ![id] = "resolved"]
         /\ [i \in Ids |-> <<inc'[i].node, inc'[i].title>>]
              = [i \in Ids |-> <<inc[i].node, inc[i].title>>]
BY DEF TypeOK, Row

LEMMA MarkResolvedLedger ==
  ASSUME TypeOK, NEW id \in Ids, NEW why \in Reasons, markResolvedAndNotify(id, why)
  PROVE  LedgerStep
<1>1. CASE UNCHANGED table
  BY <1>1, StutterLedger DEF table
<1>2. CASE /\ inc[id].st = "open"
           /\ inc' = [inc EXCEPT ![id].st = "resolved", ![id].closed = now, ![id].reason = why]
           /\ notices' = [notices EXCEPT ![id] = @ + 1]
  BY <1>2, CloseRow DEF LedgerStep, Ledger!Next, Ledger!CloseWithNotice
<1> QED
  BY <1>1, <1>2 DEF markResolvedAndNotify

LEMMA ResolveIncidentLedger ==
  ASSUME TypeOK, NEW id \in Ids, ResolveIncident(id)
  PROVE  LedgerStep
<1>0. inc' = [inc EXCEPT ![id].st = "resolved", ![id].closed = now, ![id].reason = "manual"]
      /\ "manual" \in Reasons
  BY DEF ResolveIncident, Reasons
<1>1. CASE inc[id].st = "open"
  BY <1>0, <1>1, CloseRow DEF LedgerStep, Ledger!Next, Ledger!CloseSilently, ResolveIncident
<1>2. CASE inc[id].st = "resolved"
  <2>1. [i \in Ids |-> inc'[i].st] = [i \in Ids |-> inc[i].st]
    <3>1. inc \in [Ids -> Row]
      BY DEF TypeOK
    <3>2. \A i \in Ids : inc'[i].st = inc[i].st
      BY <1>0, <1>2, <3>1 DEF Row
    <3> QED
      BY <3>2
  <2> QED
    BY <1>0, <2>1, CloseRow DEF LedgerStep, Ledger!vars, ResolveIncident
<1> QED
  BY <1>1, <1>2 DEF ResolveIncident

LEMMA JanitorPruneLedger ==
  ASSUME TypeOK, JanitorPrune
  PROVE  LedgerStep
<1>1. CASE UNCHANGED inc
  BY <1>1, StutterLedger DEF JanitorPrune
<1>2. CASE inc' = [id \in Ids |-> IF id \in Expired THEN PrunedRow ELSE inc[id]]
  <2>1. \A id \in Expired : inc[id].st = "resolved"
    BY DEF Expired
  <2>2. /\ [i \in Ids |-> inc'[i].st]
             = [i \in Ids |-> IF i \in Expired THEN "pruned" ELSE inc[i].st]
        /\ [i \in Ids |-> <<inc'[i].node, inc'[i].title>>]
             = [i \in Ids |-> IF i \in Expired THEN <<None, None>>
                              ELSE <<inc[i].node, inc[i].title>>]
    BY <1>2 DEF PrunedRow, FreeRow
  <2>3. Expired \in SUBSET Ids
    BY DEF Expired
  <2>4. PICK S \in SUBSET Ids : S = Expired
    BY <2>3
  <2>5. Ledger!Drop(S)
    BY <2>1, <2>2, <2>4 DEF Ledger!Drop, JanitorPrune
  <2> QED
    BY <2>5 DEF LedgerStep, Ledger!Next
<1> QED
  BY <1>1, <1>2 DEF JanitorPrune

LEMMA NextLedger == TypeOK /\ [Next]_vars => LedgerStep
<1> SUFFICES ASSUME TypeOK, [Next]_vars PROVE LedgerStep
  OBVIOUS
<1>0. 0 \in Time
  BY TimesAssumption DEF Time
<1>1. CASE UNCHANGED table
  BY <1>1, StutterLedger DEF table
<1>2. ASSUME NEW h \in Handlers, IngestRaise(h)
      PROVE  LedgerStep
  <2>1. PICK t \in NextToRaise(hdl[h].todo) : CreateIncident(hdl[h].node, t, 0)
    BY <1>2 DEF IngestRaise
  <2>2. t \in Titles /\ hdl[h].node \in Nodes
    BY <1>2, <2>1 DEF NextToRaise, IngestRaise, TypeOK
  <2> QED
    BY <1>0, <2>1, <2>2, CreateIncidentLedger
<1>3. ASSUME NEW h \in Handlers, IngestResolve(h)
      PROVE  LedgerStep
  <2>1. PICK step \in hdl[h].plan : markResolvedAndNotify(step[1], step[2])
    BY <1>3 DEF IngestResolve
  <2>2. step[1] \in Ids /\ step[2] \in Reasons
    BY <2>1 DEF TypeOK, Plans
  <2> QED
    BY <2>1, <2>2, MarkResolvedLedger
<1>4. CASE JanitorResolve
  <2>1. PICK step \in jan.plan : markResolvedAndNotify(step[1], step[2])
    BY <1>4 DEF JanitorResolve
  <2>2. step[1] \in Ids /\ step[2] \in Reasons
    BY <2>1 DEF TypeOK, Plans
  <2> QED
    BY <2>1, <2>2, MarkResolvedLedger
<1>5. CASE WatchdogOpen
  <2>1. jan.node \in Nodes /\ jan.beats[jan.node] \in Time /\ Silent \in Titles
    BY <1>5 DEF WatchdogOpen, TypeOK, Titles
  <2> QED
    BY <1>5, <2>1, CreateIncidentLedger DEF WatchdogOpen
<1>6. CASE JanitorPrune
  BY <1>6, JanitorPruneLedger
<1>7. ASSUME NEW id \in Ids,
             \/ AcknowledgeIncident(id)
             \/ \E d \in Snoozes : SnoozeIncident(id, d)
      PROVE  LedgerStep
  <2>1. UNCHANGED notices
    BY <1>7 DEF AcknowledgeIncident, SnoozeIncident
  <2>2. ASSUME NEW i \in Ids
        PROVE  /\ inc'[i].st = inc[i].st
               /\ inc'[i].node = inc[i].node
               /\ inc'[i].title = inc[i].title
    <3>1. inc \in [Ids -> Row] /\ inc[i] \in Row
      BY DEF TypeOK
    <3>2. CASE AcknowledgeIncident(id)
      BY <3>1, <3>2 DEF AcknowledgeIncident, Row
    <3>3. ASSUME NEW d \in Snoozes, SnoozeIncident(id, d)
          PROVE  /\ inc'[i].st = inc[i].st
                 /\ inc'[i].node = inc[i].node
                 /\ inc'[i].title = inc[i].title
      BY <3>1, <3>3 DEF SnoozeIncident, Row
    <3> QED
      BY <1>7, <3>2, <3>3
  <2> QED
    BY <2>1, <2>2, StutterLedger
<1>8. ASSUME NEW id \in Ids, ResolveIncident(id)
      PROVE  LedgerStep
  BY <1>8, ResolveIncidentLedger
<1>9. CASE \/ \E n \in Nodes : Heartbeat(n)
           \/ \E h \in Handlers : IngestReadOpen(h) \/ IngestDone(h)
           \/ JanitorStart \/ WatchdogScan \/ WatchdogRestored
           \/ \E n \in Nodes : WatchdogSilent(n) \/ WatchdogAlive(n)
           \/ \E n \in Nodes, S \in QuietChoices : SetQuiet(n, S)
           \/ Tick \/ Restart \/ UNCHANGED vars
  <2>1. UNCHANGED table
    BY <1>9 DEF Heartbeat, IngestStart, IngestReadOpen, IngestDone, JanitorStart, WatchdogScan,
      WatchdogRestored, WatchdogSilent, WatchdogAlive, SetQuiet, Tick, Restart, vars, table
  <2> QED
    BY <1>1, <2>1
<1> QED
  BY <1>2, <1>3, <1>4, <1>5, <1>6, <1>7, <1>8, <1>9 DEF Next, HandlerStep, JanitorStep

(* The table, with its lock-free readers, stale plans and restarts, never  *)
(* does anything a ledger would not: rows are raised one per condition,    *)
(* closed once, told of at most once, and only closed ones are dropped.    *)
THEOREM RefinesLedger == Spec => LedgerSpec
<1>1. Init => Ledger!Init
  <2> SUFFICES ASSUME Init PROVE Ledger!Init
    OBVIOUS
  <2>1. \A id \in Ids : inc[id].st = "free" /\ inc[id].node = None /\ inc[id].title = None
    BY DEF Init, FreeRow
  <2> QED
    BY <2>1 DEF Init, Ledger!Init
<1>2. TypeOK /\ [Next]_vars => [Ledger!Next]_(Ledger!vars)
  BY NextLedger DEF LedgerStep
<1> QED
  BY <1>1, <1>2, TypeCorrect, PTL DEF Spec, LedgerSpec, Ledger!Spec

(* What a step of the ledger keeps, the table keeps.                       *)
LEMMA UniqueOpenStep == TypeOK /\ UniqueOpen /\ LedgerStep => UniqueOpen'
<1> SUFFICES ASSUME TypeOK, UniqueOpen, LedgerStep,
                    NEW i \in Ids, NEW j \in Ids,
                    inc'[i].st = "open", inc'[j].st = "open",
                    inc'[i].node = inc'[j].node, inc'[i].title = inc'[j].title
             PROVE  i = j
  BY DEF UniqueOpen
<1> DEFINE st == [id \in Ids |-> inc[id].st]
           key == [id \in Ids |-> <<inc[id].node, inc[id].title>>]
<1>0. st'[i] = "open" /\ st'[j] = "open" /\ key'[i] = key'[j]
  OBVIOUS
<1>1. st[i] = "open" /\ st[j] = "open" /\ key[i] = key[j] => i = j
  BY DEF UniqueOpen
<1>2. ASSUME NEW id \in Ids, NEW k \in Nodes \X Titles, Ledger!Raise(id, k)
      PROVE  i = j
  <2>1. /\ st' = [st EXCEPT ![id] = "open"] /\ key' = [key EXCEPT ![id] = k]
        /\ \A other \in Ids : ~(st[other] = "open" /\ key[other] = k)
    BY <1>2 DEF Ledger!Raise
  <2> HIDE DEF st, key
  <2>2. st \in [Ids -> {st[x] : x \in Ids}] /\ key \in [Ids -> {key[x] : x \in Ids}]
    BY DEF st, key
  <2> QED
    BY <1>0, <1>1, <2>1, <2>2
<1>3. CASE \/ UNCHANGED Ledger!vars
           \/ \E id \in Ids : Ledger!CloseSilently(id) \/ Ledger!CloseWithNotice(id)
           \/ \E S \in SUBSET Ids : Ledger!Drop(S)
  <2>1. \A x \in Ids : st'[x] = "open" => st[x] = "open" /\ key'[x] = key[x]
    BY <1>3 DEF Ledger!vars, Ledger!CloseSilently, Ledger!CloseWithNotice, Ledger!Drop
  <2> QED
    BY <1>0, <1>1, <2>1
<1> QED
  BY <1>2, <1>3 DEF LedgerStep, Ledger!Next

(* At most one open row per node and title, though no index enforces it    *)
(* and handlers and watchdog raise concurrently.                           *)
THEOREM OneOpenRow == Spec => []UniqueOpen
<1>1. Init => UniqueOpen
  <2> SUFFICES ASSUME Init PROVE UniqueOpen
    OBVIOUS
  <2>1. \A id \in Ids : inc[id].st = "free"
    BY DEF Init, FreeRow
  <2> QED
    BY <2>1 DEF UniqueOpen
<1>2. TypeOK /\ UniqueOpen /\ [Next]_vars => UniqueOpen'
  BY NextLedger, UniqueOpenStep
<1> QED
  BY <1>1, <1>2, TypeCorrect, PTL DEF Spec

LEMMA NoticeStep == TypeOK /\ ResolvedNoticeOnce /\ LedgerStep => ResolvedNoticeOnce'
<1> SUFFICES ASSUME TypeOK, ResolvedNoticeOnce, LedgerStep, NEW i \in Ids
             PROVE  notices'[i] <= IF inc'[i].st \in {"resolved", "pruned"} THEN 1 ELSE 0
  BY DEF ResolvedNoticeOnce
<1> DEFINE st == [id \in Ids |-> inc[id].st]
<1>0. notices \in [Ids -> Nat] /\ st'[i] = inc'[i].st /\ \A x \in Ids : st[x] = inc[x].st
  BY DEF TypeOK
<1>1. notices[i] <= IF st[i] \in {"resolved", "pruned"} THEN 1 ELSE 0
  BY DEF ResolvedNoticeOnce
<1>2. \/ st' = st /\ notices' = notices
      \/ \E id \in Ids : st[id] = "free" /\ st' = [st EXCEPT ![id] = "open"] /\ notices' = notices
      \/ \E id \in Ids : /\ st[id] = "open" /\ st' = [st EXCEPT ![id] = "resolved"]
                         /\ notices' = notices \/ notices' = [notices EXCEPT ![id] = @ + 1]
      \/ \E S \in SUBSET Ids : /\ \A id \in S : st[id] = "resolved"
                               /\ st' = [id \in Ids |-> IF id \in S THEN "pruned" ELSE st[id]]
                               /\ notices' = notices
  BY DEF LedgerStep, Ledger!vars, Ledger!Next, Ledger!Raise, Ledger!CloseSilently,
         Ledger!CloseWithNotice, Ledger!Drop
<1>3. st \in [Ids -> {st[x] : x \in Ids}]
  OBVIOUS
<1> HIDE DEF st
<1> QED
  BY <1>0, <1>1, <1>2, <1>3

(* The owner is told at most once that an incident is over, and only of    *)
(* one that is, whichever of handlers and janitor win the race to it.      *)
THEOREM NoticeAtMostOnce == Spec => []ResolvedNoticeOnce
<1>1. Init => ResolvedNoticeOnce
  <2> SUFFICES ASSUME Init PROVE ResolvedNoticeOnce
    OBVIOUS
  <2>1. \A id \in Ids : inc[id].st = "free" /\ notices[id] = 0
    BY DEF Init, FreeRow
  <2> QED
    BY <2>1 DEF ResolvedNoticeOnce
<1>2. TypeOK /\ ResolvedNoticeOnce /\ [Next]_vars => ResolvedNoticeOnce'
  BY NextLedger, NoticeStep
<1> QED
  BY <1>1, <1>2, TypeCorrect, PTL DEF Spec

-----------------------------------------------------------------------------
(* What one step may do to one row, and to the last page sent for it.      *)
BySilentWatch(n, since) == jan.pc = "open" /\ n = jan.node /\ since = jan.beats[n]

Opens(id) ==
  /\ inc[id].st = "free"
  /\ \E n \in Nodes, t \in Titles, since \in Time :
       inc'[id] = NewRow(n, t, since) /\ (t = Silent => BySilentWatch(n, since))

Refreshes(id, notified) ==
  /\ inc[id].st = "open"
  /\ \E since \in Time :
       /\ inc'[id] = [inc[id] EXCEPT !.notified = notified, !.since = since]
       /\ inc[id].title = Silent => BySilentWatch(inc[id].node, since)

Repages(id) == Refreshes(id, now) /\ Due(inc[id])

Presses(id) ==
  /\ inc[id].st = "open"
  /\ \/ inc'[id] = [inc[id] EXCEPT !.acked = now]
     \/ \E d \in Snoozes : inc'[id] = [inc[id] EXCEPT !.snoozed = now + d, !.notified = now]

ClosedAs(id, why) == inc'[id] = [inc[id] EXCEPT !.st = "resolved", !.closed = now, !.reason = why]

Planned(id, why) == <<id, why>> \in jan.plan \/ \E h \in Handlers : <<id, why>> \in hdl[h].plan

Closes(id) ==
  \/ inc[id].st = "open" /\ \E why \in Reasons : Planned(id, why) /\ ClosedAs(id, why)
  \/ inc[id].st \in {"open", "resolved"} /\ ClosedAs(id, "manual")

Drops(id) == id \in Expired /\ inc'[id] = PrunedRow

RowStep(id) ==
  /\ \/ inc'[id] = inc[id]
     \/ Opens(id) \/ Refreshes(id, inc[id].notified) \/ Repages(id)
     \/ Presses(id) \/ Closes(id) \/ Drops(id)
  /\ sent'[id] = sent[id] \/ (sent'[id] = now /\ (Opens(id) \/ Repages(id)))

(* Heartbeats raise no Node Silent incident.                               *)
NeverSilent == \A h \in Handlers : Silent \notin hdl[h].todo

LEMMA NeverSilentStep == TypeOK /\ NeverSilent /\ [Next]_vars => NeverSilent'
<1> SUFFICES ASSUME TypeOK, NeverSilent, [Next]_vars PROVE NeverSilent'
  OBVIOUS
<1>1. ASSUME NEW n \in Nodes, NEW h \in Handlers, NEW hb \in Heartbeats,
             NEW others \in SUBSET OtherTitles, IngestStart(h, n, hb, others)
      PROVE  NeverSilent'
  <2>1. Silent \notin Raised(hb) \cup others
    BY TitlesAssumption DEF Raised, Memory, Silent
  <2> QED BY <1>1, <2>1 DEF IngestStart, NeverSilent, TypeOK, IdleHandler
<1>2. ASSUME NEW h \in Handlers, HandlerStep(h) PROVE NeverSilent'
  <2>1. hdl \in [Handlers -> HandlerType]
    BY DEF TypeOK, HandlerType
  <2>2. \A o \in Handlers : hdl'[o].todo \subseteq hdl[o].todo
    <3>1. CASE IngestRaise(h)
      BY <2>1, <3>1 DEF IngestRaise, HandlerType
    <3>2. CASE IngestReadOpen(h)
      BY <2>1, <3>2 DEF IngestReadOpen, HandlerType
    <3>3. CASE IngestResolve(h)
      BY <2>1, <3>3 DEF IngestResolve, HandlerType
    <3>4. CASE IngestDone(h)
      BY <2>1, <3>4 DEF IngestDone, IdleHandler
    <3> QED BY <1>2, <3>1, <3>2, <3>3, <3>4 DEF HandlerStep
  <2> QED BY <2>2 DEF NeverSilent
<1>3. CASE Restart
  BY <1>3 DEF Restart, NeverSilent, IdleHandler
<1>4. CASE UNCHANGED hdl
  BY <1>4 DEF NeverSilent
<1> QED
  BY <1>1, <1>2, <1>3, <1>4
  DEF Next, vars, Heartbeat, JanitorStep, JanitorStart, JanitorResolve, WatchdogScan, WatchdogOpen,
      WatchdogRestored, WatchdogSilent, WatchdogAlive, JanitorPrune, AcknowledgeIncident,
      ResolveIncident, SnoozeIncident, SetQuiet, Tick

LEMMA CreateIncidentRows ==
  ASSUME TypeOK, NEW n \in Nodes, NEW t \in Titles, NEW since \in Time,
         CreateIncident(n, t, since), t = Silent => BySilentWatch(n, since)
  PROVE  \A id \in Ids : RowStep(id)
<1>0. inc \in [Ids -> Row] /\ sent \in [Ids -> Time]
  BY DEF TypeOK
<1>1. CASE InsertIncident(n, t, since)
  <2>1. PICK id \in Ids : /\ inc[id].st = "free"
                          /\ inc' = [inc EXCEPT ![id] = NewRow(n, t, since)]
                          /\ Page(id, n, t)
    BY <1>1 DEF InsertIncident, Free
  <2>2. Opens(id)
    BY <1>0, <2>1 DEF Opens
  <2>3. sent'[id] \in {sent[id], now} /\ \A o \in Ids \ {id} : inc'[o] = inc[o] /\ sent'[o] = sent[o]
    BY <1>0, <2>1 DEF Page
  <2> QED BY <2>2, <2>3 DEF RowStep
<1>2. CASE RefreshIncident(n, t, since)
  <2>1. PICK id \in OpenRows(n, t) :
          \/ /\ Due(inc[id])
             /\ inc' = [inc EXCEPT ![id].notified = now, ![id].since = since]
             /\ Page(id, n, t)
          \/ inc' = [inc EXCEPT ![id].since = since] /\ UNCHANGED sent
    BY <1>2 DEF RefreshIncident
  <2>2. id \in Ids /\ inc[id] \in Row /\ inc[id].st = "open" /\ inc[id].node = n /\ inc[id].title = t
    BY <1>0, <2>1 DEF OpenRows
  <2>3. CASE /\ Due(inc[id])
             /\ inc' = [inc EXCEPT ![id].notified = now, ![id].since = since]
             /\ Page(id, n, t)
    <3>1. inc'[id] = [inc[id] EXCEPT !.notified = now, !.since = since]
          /\ sent'[id] \in {sent[id], now} /\ \A o \in Ids \ {id} : inc'[o] = inc[o] /\ sent'[o] = sent[o]
      BY <1>0, <2>2, <2>3 DEF Page
    <3>2. Repages(id)
      BY <2>2, <2>3, <3>1 DEF Repages, Refreshes
    <3> QED BY <3>1, <3>2 DEF RowStep
  <2>4. CASE inc' = [inc EXCEPT ![id].since = since] /\ UNCHANGED sent
    <3>1. inc'[id] = [inc[id] EXCEPT !.since = since] /\ \A o \in Ids \ {id} : inc'[o] = inc[o]
      BY <1>0, <2>2, <2>4
    <3>2. inc'[id] = [inc[id] EXCEPT !.notified = inc[id].notified, !.since = since]
      BY <2>2, <3>1 DEF Row
    <3>3. Refreshes(id, inc[id].notified)
      BY <2>2, <3>2 DEF Refreshes
    <3> QED BY <2>4, <3>1, <3>3 DEF RowStep
  <2> QED BY <2>1, <2>3, <2>4
<1>3. CASE UNCHANGED table
  BY <1>3 DEF table, RowStep
<1> QED BY <1>1, <1>2, <1>3 DEF CreateIncident

(* An operator's or a closer's UPDATE of one row.                          *)
LEMMA OneRow ==
  ASSUME NEW id \in Ids, sent' = sent, \A o \in Ids \ {id} : inc'[o] = inc[o],
         Presses(id) \/ Closes(id)
  PROVE  \A o \in Ids : RowStep(o)
<1>1. RowStep(id)
  BY DEF RowStep
<1>2. ASSUME NEW o \in Ids \ {id} PROVE RowStep(o)
  BY DEF RowStep
<1> QED BY <1>1, <1>2

LEMMA MarkResolvedRows ==
  ASSUME TypeOK, NEW id \in Ids, NEW why \in Reasons, markResolvedAndNotify(id, why), Planned(id, why)
  PROVE  \A o \in Ids : RowStep(o)
<1>1. CASE UNCHANGED table
  BY <1>1 DEF table, RowStep
<1>2. CASE /\ inc[id].st = "open"
           /\ inc' = [inc EXCEPT ![id].st = "resolved", ![id].closed = now, ![id].reason = why]
           /\ UNCHANGED sent
  <2>1. ClosedAs(id, why) /\ \A o \in Ids \ {id} : inc'[o] = inc[o]
    BY <1>2 DEF ClosedAs, TypeOK
  <2>2. Closes(id)
    BY <1>2, <2>1 DEF Closes
  <2> QED BY <1>2, <2>1, <2>2, OneRow
<1> QED BY <1>1, <1>2 DEF markResolvedAndNotify

(* Every step is one of these to every row.                                *)
LEMMA RowSteps == TypeOK /\ NeverSilent /\ [Next]_vars => \A id \in Ids : RowStep(id)
<1> SUFFICES ASSUME TypeOK, NeverSilent, [Next]_vars PROVE \A id \in Ids : RowStep(id)
  OBVIOUS
<1>0. 0 \in Time /\ inc \in [Ids -> Row]
  BY TimesAssumption DEF Time, TypeOK
<1>1. CASE UNCHANGED <<inc, sent>>
  BY <1>1 DEF RowStep
<1>2. ASSUME NEW h \in Handlers, IngestRaise(h) PROVE \A id \in Ids : RowStep(id)
  <2>1. PICK t \in NextToRaise(hdl[h].todo) : CreateIncident(hdl[h].node, t, 0)
    BY <1>2 DEF IngestRaise
  <2>2. t \in Titles /\ hdl[h].node \in Nodes /\ t # Silent
    BY <1>2, <2>1 DEF NextToRaise, IngestRaise, TypeOK, NeverSilent
  <2> QED BY <1>0, <2>1, <2>2, CreateIncidentRows
<1>3. ASSUME NEW h \in Handlers, IngestResolve(h) PROVE \A id \in Ids : RowStep(id)
  <2>1. PICK step \in hdl[h].plan : markResolvedAndNotify(step[1], step[2])
    BY <1>3 DEF IngestResolve
  <2>2. step[1] \in Ids /\ step[2] \in Reasons /\ step = <<step[1], step[2]>>
    BY <2>1 DEF TypeOK, Plans
  <2>3. Planned(step[1], step[2])
    BY <2>1, <2>2 DEF Planned
  <2> QED BY <2>1, <2>2, <2>3, MarkResolvedRows
<1>4. CASE JanitorResolve
  <2>1. PICK step \in jan.plan : markResolvedAndNotify(step[1], step[2])
    BY <1>4 DEF JanitorResolve
  <2>2. step[1] \in Ids /\ step[2] \in Reasons /\ step = <<step[1], step[2]>>
    BY <2>1 DEF TypeOK, Plans
  <2>3. Planned(step[1], step[2])
    BY <2>1, <2>2 DEF Planned
  <2> QED BY <2>1, <2>2, <2>3, MarkResolvedRows
<1>5. CASE WatchdogOpen
  <2>1. jan.node \in Nodes /\ jan.beats[jan.node] \in Time /\ Silent \in Titles /\ jan.pc = "open"
    BY <1>5 DEF WatchdogOpen, TypeOK, Titles
  <2>2. BySilentWatch(jan.node, jan.beats[jan.node])
    BY <2>1 DEF BySilentWatch
  <2> QED BY <1>5, <2>1, <2>2, CreateIncidentRows DEF WatchdogOpen
<1>6. CASE JanitorPrune
  <2>1. CASE UNCHANGED inc
    BY <1>1, <1>6, <2>1 DEF JanitorPrune
  <2>2. CASE inc' = [id \in Ids |-> IF id \in Expired THEN PrunedRow ELSE inc[id]]
    <3>1. sent' = sent
      BY <1>6 DEF JanitorPrune
    <3> QED BY <2>2, <3>1 DEF RowStep, Drops
  <2> QED BY <1>6, <2>1, <2>2 DEF JanitorPrune
<1>7. ASSUME NEW id \in Ids, AcknowledgeIncident(id) PROVE \A o \in Ids : RowStep(o)
  <2>1. Presses(id) /\ \A o \in Ids \ {id} : inc'[o] = inc[o]
    BY <1>0, <1>7 DEF AcknowledgeIncident, Presses
  <2>2. sent' = sent
    BY <1>7 DEF AcknowledgeIncident
  <2> QED BY <2>1, <2>2, OneRow
<1>8. ASSUME NEW id \in Ids, NEW d \in Snoozes, SnoozeIncident(id, d) PROVE \A o \in Ids : RowStep(o)
  <2>1. Presses(id) /\ \A o \in Ids \ {id} : inc'[o] = inc[o]
    BY <1>0, <1>8 DEF SnoozeIncident, Presses
  <2>2. sent' = sent
    BY <1>8 DEF SnoozeIncident
  <2> QED BY <2>1, <2>2, OneRow
<1>9. ASSUME NEW id \in Ids, ResolveIncident(id) PROVE \A o \in Ids : RowStep(o)
  <2>1. ClosedAs(id, "manual") /\ \A o \in Ids \ {id} : inc'[o] = inc[o]
    BY <1>0, <1>9 DEF ResolveIncident, ClosedAs
  <2>2. Closes(id)
    BY <1>9, <2>1 DEF ResolveIncident, Closes
  <2>3. sent' = sent
    BY <1>9 DEF ResolveIncident
  <2> QED BY <2>1, <2>2, <2>3, OneRow
<1>10. CASE \/ \E n \in Nodes : Heartbeat(n)
            \/ \E h \in Handlers : IngestReadOpen(h) \/ IngestDone(h)
            \/ JanitorStart \/ WatchdogScan \/ WatchdogRestored
            \/ \E n \in Nodes : WatchdogSilent(n) \/ WatchdogAlive(n)
            \/ \E n \in Nodes, S \in QuietChoices : SetQuiet(n, S)
            \/ Tick \/ Restart \/ UNCHANGED vars
  <2>1. UNCHANGED table
    BY <1>10 DEF Heartbeat, IngestStart, IngestReadOpen, IngestDone, JanitorStart, WatchdogScan,
      WatchdogRestored, WatchdogSilent, WatchdogAlive, SetQuiet, Tick, Restart, vars, table
  <2> QED BY <1>1, <2>1 DEF table
<1> QED
  BY <1>2, <1>3, <1>4, <1>5, <1>6, <1>7, <1>8, <1>9, <1>10 DEF Next, HandlerStep, JanitorStep

LEMMA RowsAlways == Spec => [](TypeOK /\ NeverSilent)
<1>1. Init => NeverSilent
  BY DEF Init, NeverSilent, IdleHandler
<1> QED BY <1>1, TypeInit, TypeStep, NeverSilentStep, PTL DEF Spec

LEMMA SettledStep ==
  ASSUME TypeOK, NEW id \in Ids, RowStep(id)
  PROVE  Settled(id)
<1>0. inc[id] \in Row /\ now \in Nat /\ Retention \in Nat
  BY TimesAssumption DEF TypeOK
<1>1. CASE inc'[id] = inc[id]
  BY <1>1 DEF Settled
<1>2. CASE inc[id].st \in {"free", "open"}
  BY <1>2 DEF Settled
<1>3. CASE Drops(id)
  <2>1. inc'[id].st = "pruned"
    BY <1>3 DEF Drops, PrunedRow, FreeRow
  <2>2. now - inc[id].closed > Retention
    BY <1>0, <1>3 DEF Drops, Expired, Row, Time
  <2> QED BY <2>1, <2>2 DEF Settled
<1>4. CASE ClosedAs(id, "manual")
  BY <1>0, <1>4 DEF ClosedAs, Settled, Row
<1> QED
  BY <1>1, <1>2, <1>3, <1>4 DEF RowStep, Opens, Refreshes, Repages, Presses, Closes

(* A row that is closed stays closed, keeps its date unless the operator   *)
(* resolves it again, and is deleted no sooner than its retention has run. *)
THEOREM ClosedRowsStay == Spec => ClosedStaysClosed
<1>1. TypeOK /\ NeverSilent /\ [Next]_vars => [\A id \in Ids : Settled(id)]_vars
  BY SettledStep, RowSteps
<1> QED BY <1>1, RowsAlways, PTL DEF Spec, ClosedStaysClosed

(* The stamp in an open row is no older than the last page sent for it.    *)
Stamped(id) ==
  /\ sent[id] <= now
  /\ inc[id].st = "open" => sent[id] <= inc[id].notified
  /\ inc[id].st = "free" => sent[id] = 0 /\ inc[id].snoozed = 0

LEMMA ClockSteps == TypeOK /\ [Next]_vars => now' \in {now, now + 1}
  BY DEF Next, vars, Heartbeat, HandlerStep, JanitorStep, IngestStart, IngestRaise, IngestReadOpen,
         IngestResolve, IngestDone, JanitorStart, JanitorResolve, WatchdogScan, WatchdogOpen,
         WatchdogRestored, WatchdogSilent, WatchdogAlive, JanitorPrune, AcknowledgeIncident,
         ResolveIncident, SnoozeIncident, SetQuiet, Tick, Restart

LEMMA StampedStep ==
  ASSUME TypeOK, NEW id \in Ids, Stamped(id), RowStep(id), now' \in {now, now + 1}
  PROVE  Stamped(id)'
<1>0. inc[id] \in Row /\ now \in Nat /\ sent[id] \in Nat /\ sent[id] <= now /\ sent'[id] \in {sent[id], now}
  BY TimesAssumption DEF TypeOK, Time, Stamped, RowStep
<1>1. sent'[id] <= now'
  BY <1>0
<1>2. CASE inc'[id] = inc[id] /\ sent'[id] = sent[id]
  BY <1>1, <1>2 DEF Stamped
<1>3. CASE Opens(id)
  <2>1. PICK n \in Nodes, t \in Titles, since \in Time : inc'[id] = NewRow(n, t, since)
    BY <1>3 DEF Opens
  <2>2. NewRow(n, t, since).st = "open" /\ NewRow(n, t, since).notified = now
    BY DEF NewRow
  <2>3. inc'[id].st = "open" /\ inc'[id].notified = now
    BY <2>1, <2>2
  <2> QED BY <1>0, <1>1, <2>3 DEF Stamped
<1>4. CASE Repages(id)
  <2>1. PICK since \in Time : inc'[id] = [inc[id] EXCEPT !.notified = now, !.since = since]
    BY <1>4 DEF Repages, Refreshes
  <2>2. inc[id].st = "open"
    BY <1>4 DEF Repages, Refreshes
  <2>3. inc'[id].st = "open" /\ inc'[id].notified = now
    BY <1>0, <2>1, <2>2 DEF Row
  <2> QED BY <1>0, <1>1, <2>3 DEF Stamped
<1>5. CASE Refreshes(id, inc[id].notified) /\ sent'[id] = sent[id]
  <2>1. inc'[id].st = "open" /\ inc'[id].notified = inc[id].notified /\ inc[id].st = "open"
    BY <1>0, <1>5 DEF Refreshes, Row
  <2> QED BY <1>0, <1>1, <1>5, <2>1 DEF Stamped
<1>6. CASE Presses(id) /\ sent'[id] = sent[id]
  <2>1. inc'[id].st = "open" /\ inc'[id].notified \in {inc[id].notified, now} /\ inc[id].st = "open"
    BY <1>0, <1>6 DEF Presses, Row
  <2> QED BY <1>0, <1>1, <1>6, <2>1 DEF Stamped
<1>7. CASE Closes(id) \/ Drops(id)
  <2>1. inc'[id].st \in {"resolved", "pruned"}
    BY <1>0, <1>7 DEF Closes, ClosedAs, Drops, PrunedRow, FreeRow, Row
  <2> QED BY <1>1, <2>1 DEF Stamped
<1> QED BY <1>2, <1>3, <1>4, <1>5, <1>6, <1>7 DEF RowStep

LEMMA GapStep ==
  ASSUME TypeOK, NEW id \in Ids, Stamped(id), RowStep(id), sent'[id] # sent[id]
  PROVE  /\ inc[id].snoozed <= now
         /\ sent[id] = 0 \/ now - sent[id] >= cooldownFor(inc'[id].title)
<1>1. inc[id] \in Row /\ now \in Nat /\ sent[id] \in Nat
  BY TimesAssumption DEF TypeOK, Time
<1>2. CASE Opens(id)
  BY <1>1, <1>2 DEF Opens, Stamped
<1>3. CASE Repages(id)
  <2>1. inc'[id].title = inc[id].title /\ inc[id].st = "open"
    BY <1>1, <1>3 DEF Repages, Refreshes, Row
  <2>2. sent[id] <= inc[id].notified /\ inc[id].notified \in Nat
    BY <1>1, <2>1, TimesAssumption DEF Stamped, Row, Time
  <2>3. cooldownFor(inc[id].title) \in Nat
    BY TimesAssumption DEF cooldownFor
  <2> QED BY <1>1, <1>3, <2>1, <2>2, <2>3 DEF Repages, Due
<1> QED BY <1>2, <1>3 DEF RowStep

(* A page for a row that was paged before waits out cooldown and snooze.   *)
THEOREM PagesKeepDistance == Spec => PagesSpaced
<1> DEFINE AllStamped == \A id \in Ids : Stamped(id)
<1>1. Init => AllStamped
  <2> SUFFICES ASSUME Init, NEW id \in Ids PROVE Stamped(id)
    OBVIOUS
  <2>1. inc[id] = FreeRow /\ sent[id] = 0 /\ now = 1
    BY DEF Init
  <2>2. FreeRow.st = "free" /\ FreeRow.snoozed = 0
    BY DEF FreeRow
  <2> QED BY <2>1, <2>2 DEF Stamped
<1>2. TypeOK /\ NeverSilent /\ AllStamped /\ [Next]_vars => AllStamped'
  BY StampedStep, RowSteps, ClockSteps
<1>3. TypeOK /\ NeverSilent /\ AllStamped /\ [Next]_vars => [PageGap]_vars
  BY GapStep, RowSteps DEF PageGap
<1> HIDE DEF AllStamped
<1> QED BY <1>1, <1>2, <1>3, RowsAlways, PTL DEF Spec, PagesSpaced

(* A row is too old to be waited for, or has been closed since it was.     *)
Old(id) ==
  /\ inc[id].st # "free"
  /\ inc[id].st = "open" => now - inc[id].started > AbandonTTL

LEMMA OldStep ==
  ASSUME TypeOK, NEW id \in Ids, Old(id), RowStep(id), now' \in {now, now + 1}
  PROVE  Old(id)'
<1>0. inc[id] \in Row /\ now \in Nat /\ AbandonTTL \in Nat
  BY TimesAssumption DEF TypeOK, Time
<1>1. inc[id].started \in Nat
  BY <1>0, TimesAssumption DEF Row, Time
<1>2. CASE inc'[id].st = inc[id].st /\ inc'[id].started = inc[id].started
  BY <1>0, <1>1, <1>2 DEF Old
<1>3. CASE Refreshes(id, inc[id].notified) \/ Repages(id) \/ Presses(id)
  BY <1>0, <1>2, <1>3 DEF Refreshes, Repages, Presses, Row
<1>4. CASE Closes(id) \/ Drops(id)
  <2>1. inc'[id].st \in {"resolved", "pruned"}
    BY <1>0, <1>4 DEF Closes, ClosedAs, Drops, PrunedRow, FreeRow, Row
  <2> QED BY <2>1 DEF Old
<1>5. ~Opens(id)
  BY DEF Old, Opens
<1> QED BY <1>2, <1>3, <1>4, <1>5 DEF RowStep

(* Only rows that are too old are ever planned to be given up.             *)
PlansOld == \A id \in Ids : Planned(id, "abandoned_ttl") => Old(id)

(* What handlers and janitor have still to close shrinks, except where it  *)
(* is read from the table.                                                 *)
LEMMA HandlerPlans ==
  ASSUME TypeOK, [Next]_vars
  PROVE  (\A h \in Handlers : hdl'[h].plan \subseteq hdl[h].plan) \/ \E h \in Handlers : IngestReadOpen(h)
<1>0. hdl \in [Handlers -> HandlerType]
  BY DEF TypeOK, HandlerType
<1>1. ASSUME NEW n \in Nodes, NEW h \in Handlers, NEW hb \in Heartbeats,
             NEW others \in SUBSET OtherTitles, IngestStart(h, n, hb, others)
      PROVE  \A o \in Handlers : hdl'[o].plan \subseteq hdl[o].plan
  BY <1>0, <1>1 DEF IngestStart, IdleHandler
<1>2. ASSUME NEW h \in Handlers, IngestRaise(h) PROVE \A o \in Handlers : hdl'[o].plan \subseteq hdl[o].plan
  BY <1>0, <1>2 DEF IngestRaise, HandlerType
<1>3. ASSUME NEW h \in Handlers, IngestResolve(h) PROVE \A o \in Handlers : hdl'[o].plan \subseteq hdl[o].plan
  BY <1>0, <1>3 DEF IngestResolve, HandlerType
<1>4. ASSUME NEW h \in Handlers, IngestDone(h) PROVE \A o \in Handlers : hdl'[o].plan \subseteq hdl[o].plan
  BY <1>0, <1>4 DEF IngestDone, IdleHandler
<1>5. CASE Restart
  BY <1>5 DEF Restart, IdleHandler
<1>6. CASE UNCHANGED hdl
  BY <1>6
<1> QED
  BY <1>1, <1>2, <1>3, <1>4, <1>5, <1>6
  DEF Next, vars, Heartbeat, HandlerStep, JanitorStep, JanitorStart, JanitorResolve, WatchdogScan,
      WatchdogOpen, WatchdogRestored, WatchdogSilent, WatchdogAlive, JanitorPrune, AcknowledgeIncident,
      ResolveIncident, SnoozeIncident, SetQuiet, Tick

LEMMA JanitorPlans ==
  ASSUME TypeOK, [Next]_vars, ~JanitorStart
  PROVE  jan'.plan \subseteq jan.plan \cup {<<i, "heartbeat_restored">> : i \in Ids}
<1>0. jan \in JanitorType
  BY DEF TypeOK, JanitorType
<1>1. CASE JanitorResolve
  BY <1>0, <1>1 DEF JanitorResolve, JanitorType
<1>2. CASE WatchdogScan
  BY <1>0, <1>2 DEF WatchdogScan, JanitorType
<1>3. CASE WatchdogOpen
  BY <1>0, <1>3 DEF WatchdogOpen, JanitorType
<1>4. CASE WatchdogRestored
  BY <1>0, <1>4 DEF WatchdogRestored, JanitorType
<1>5. CASE \E n \in Nodes : WatchdogSilent(n)
  BY <1>0, <1>5 DEF WatchdogSilent, JanitorType
<1>6. ASSUME NEW n \in Nodes, WatchdogAlive(n)
      PROVE  jan'.plan \subseteq jan.plan \cup {<<i, "heartbeat_restored">> : i \in Ids}
  <2>1. CASE jan' = [jan EXCEPT !.todo = @ \ {n}, !.pc = "restore",
                       !.plan = {<<i, "heartbeat_restored">> : i \in OpenRows(n, Silent)}]
    <3>1. OpenRows(n, Silent) \subseteq Ids
      BY DEF OpenRows
    <3>2. jan'.plan = {<<i, "heartbeat_restored">> : i \in OpenRows(n, Silent)}
      BY <1>0, <2>1 DEF JanitorType
    <3> QED BY <3>1, <3>2
  <2>2. CASE jan' = [jan EXCEPT !.todo = @ \ {n}]
    BY <1>0, <2>2 DEF JanitorType
  <2> QED BY <1>6, <2>1, <2>2 DEF WatchdogAlive
<1>7. CASE JanitorPrune \/ Restart
  BY <1>7 DEF JanitorPrune, Restart, IdleJanitor
<1>8. CASE UNCHANGED jan
  BY <1>8
<1> QED
  BY <1>1, <1>2, <1>3, <1>4, <1>5, <1>6, <1>7, <1>8
  DEF Next, vars, Heartbeat, HandlerStep, JanitorStep, IngestStart, IngestRaise, IngestReadOpen,
      IngestResolve, IngestDone, AcknowledgeIncident, ResolveIncident, SnoozeIncident, SetQuiet, Tick

LEMMA NewPlans ==
  ASSUME TypeOK, [Next]_vars, NEW id \in Ids, Planned(id, "abandoned_ttl")', ~Planned(id, "abandoned_ttl")
  PROVE  Old(id)
<1>0. /\ inc \in [Ids -> Row] /\ now \in Nat /\ AbandonTTL \in Nat
      /\ \A i \in Ids : inc[i].started \in Nat
  BY TimesAssumption DEF TypeOK, Row, Time
<1>1. CASE JanitorStart
  <2>1. PICK stale \in Selected(Abandoned) :
          jan' = [IdleJanitor EXCEPT !.pc = "sweep", !.plan = {<<i, "abandoned_ttl">> : i \in stale}]
    BY <1>1 DEF JanitorStart
  <2>2. hdl' = hdl
    BY <1>1 DEF JanitorStart
  <2>3. <<id, "abandoned_ttl">> \in jan'.plan
    BY <2>2 DEF Planned
  <2>4. id \in Abandoned
    BY <2>1, <2>3 DEF IdleJanitor, Selected
  <2> QED BY <1>0, <2>4 DEF Abandoned, Old
<1>2. ASSUME NEW h \in Handlers, IngestReadOpen(h) PROVE Old(id)
  <2> DEFINE reason(i) == incidentResolutionReason(inc[i], hdl[h].hb)
  <2>1. PICK open \in Selected(OpenOf(hdl[h].node)) :
          hdl' = [hdl EXCEPT ![h].pc = "resolve",
                             ![h].plan = {<<i, reason(i)>> : i \in {j \in open : reason(j) # ""}}]
    BY <1>2 DEF IngestReadOpen
  <2>2. jan' = jan /\ hdl \in [Handlers -> HandlerType]
    BY <1>2 DEF IngestReadOpen, TypeOK, HandlerType
  <2>3. PICK o \in Handlers : <<id, "abandoned_ttl">> \in hdl'[o].plan
    BY <2>2 DEF Planned
  <2>4. o = h
    BY <2>1, <2>2, <2>3 DEF Planned
  <2>5. <<id, "abandoned_ttl">> \in {<<i, reason(i)>> : i \in {j \in open : reason(j) # ""}}
    BY <2>1, <2>2, <2>3, <2>4 DEF HandlerType
  <2>6. id \in open /\ reason(id) = "abandoned_ttl"
    BY <2>5
  <2>7. inc[id].st = "open"
    BY <2>6 DEF Selected, OpenOf
  <2>8. now - inc[id].started > AbandonTTL
    BY <2>6 DEF incidentResolutionReason
  <2> QED BY <2>7, <2>8 DEF Old
<1>3. ~JanitorStart => <<id, "abandoned_ttl">> \notin jan'.plan
  BY JanitorPlans DEF Planned
<1>4. CASE \A h \in Handlers : hdl'[h].plan \subseteq hdl[h].plan
  BY <1>1, <1>3, <1>4 DEF Planned
<1> QED BY <1>2, <1>4, HandlerPlans

(* What is written into a row given up on is true.                         *)
GivenUpOld(id) == inc[id].reason = "abandoned_ttl" => inc[id].closed - inc[id].started > AbandonTTL

LEMMA GivenUpStep ==
  ASSUME TypeOK, NEW id \in Ids, PlansOld, GivenUpOld(id), RowStep(id)
  PROVE  GivenUpOld(id)'
<1>0. inc[id] \in Row
  BY DEF TypeOK
<1>1. CASE /\ inc'[id].reason = inc[id].reason /\ inc'[id].closed = inc[id].closed
           /\ inc'[id].started = inc[id].started
  BY <1>1 DEF GivenUpOld
<1>2. CASE Refreshes(id, inc[id].notified) \/ Repages(id) \/ Presses(id)
  BY <1>0, <1>1, <1>2 DEF Refreshes, Repages, Presses, Row
<1>3. CASE Opens(id)
  <2>1. PICK n \in Nodes, t \in Titles, since \in Time : inc'[id] = NewRow(n, t, since)
    BY <1>3 DEF Opens
  <2>2. NewRow(n, t, since).reason = ""
    BY DEF NewRow
  <2> QED BY <2>1, <2>2 DEF GivenUpOld
<1>4. CASE Drops(id)
  <2>1. inc'[id].reason = ""
    BY <1>4 DEF Drops, PrunedRow, FreeRow
  <2> QED BY <2>1 DEF GivenUpOld
<1>5. CASE ClosedAs(id, "manual")
  <2>1. inc'[id].reason = "manual"
    BY <1>0, <1>5 DEF ClosedAs, Row
  <2> QED BY <2>1 DEF GivenUpOld
<1>6. ASSUME NEW why \in Reasons, inc[id].st = "open", Planned(id, why), ClosedAs(id, why)
      PROVE  GivenUpOld(id)'
  <2>1. inc'[id].reason = why /\ inc'[id].closed = now /\ inc'[id].started = inc[id].started
    BY <1>0, <1>6 DEF ClosedAs, Row
  <2>2. why = "abandoned_ttl" => now - inc[id].started > AbandonTTL
    BY <1>6 DEF PlansOld, Old
  <2> QED BY <2>1, <2>2 DEF GivenUpOld
<1> QED BY <1>1, <1>2, <1>3, <1>4, <1>5, <1>6 DEF RowStep, Closes

(* A row is given up on when it is too old, and not before.                *)
THEOREM AbandonedCorrect == Spec => []AbandonedWasOld
<1> DEFINE GivenUp == PlansOld /\ \A id \in Ids : GivenUpOld(id)
<1>1. Init => GivenUp
  <2> SUFFICES ASSUME Init, NEW id \in Ids
               PROVE  GivenUpOld(id) /\ ~Planned(id, "abandoned_ttl")
    BY DEF PlansOld
  <2>1. inc[id] = FreeRow /\ jan = IdleJanitor /\ \A h \in Handlers : hdl[h] = IdleHandler
    BY DEF Init
  <2>2. FreeRow.reason = "" /\ IdleJanitor.plan = {} /\ IdleHandler.plan = {}
    BY DEF FreeRow, IdleJanitor, IdleHandler
  <2> QED BY <2>1, <2>2 DEF GivenUpOld, Planned
<1>2. TypeOK /\ NeverSilent /\ GivenUp /\ [Next]_vars => GivenUp'
  <2> SUFFICES ASSUME TypeOK, NeverSilent, GivenUp, [Next]_vars, NEW id \in Ids
               PROVE  GivenUpOld(id)' /\ (Planned(id, "abandoned_ttl")' => Old(id)')
    BY DEF PlansOld
  <2>1. RowStep(id) /\ now' \in {now, now + 1}
    BY RowSteps, ClockSteps
  <2>2. Planned(id, "abandoned_ttl")' => Old(id)
    BY NewPlans DEF PlansOld
  <2> QED BY <2>1, <2>2, OldStep, GivenUpStep
<1>3. GivenUp => AbandonedWasOld
  BY DEF GivenUpOld, AbandonedWasOld
<1> HIDE DEF GivenUp
<1> QED BY <1>1, <1>2, <1>3, RowsAlways, PTL DEF Spec

(* During a pass of the watchdog, jan.scanned and jan.beats are its scan.  *)
Passing == jan.pc \in {"watch", "open", "restore"}

(* An open Node Silent row quotes a heartbeat that every later scan, too,  *)
(* finds older than the TTL.                                               *)
OpenRow(id) ==
  inc[id].st = "open" =>
    /\ inc[id].reason = "" /\ inc[id].node \in Nodes
    /\ inc[id].title = Silent =>
         /\ inc[id].since + SilentTTL < now
         /\ Passing => inc[id].since + SilentTTL < jan.scanned

Returned(id) ==
  inc[id].reason = "heartbeat_restored" =>
    /\ inc[id].st # "open"
    /\ inc[id].node \in Nodes /\ inc[id].since < now
    /\ beat[inc[id].node] = 0 \/ beat[inc[id].node] > inc[id].since

(* What the watchdog has still to close was answered by a new heartbeat.   *)
ToReturn(id) ==
  <<id, "heartbeat_restored">> \in jan.plan =>
    /\ jan.pc = "restore" /\ inc[id].st # "free"
    /\ inc[id].st = "open" => inc[id].title = Silent /\ beat[inc[id].node] > inc[id].since

Scanned ==
  /\ \A n \in Nodes : beat[n] <= now
  /\ Passing => jan.scanned <= now /\ \A n \in Nodes : jan.beats[n] <= beat[n]
  /\ jan.pc = "open" => SilentAtScan(jan.node)

NoneReturned == \A h \in Handlers, id \in Ids : <<id, "heartbeat_restored">> \notin hdl[h].plan

Watched == /\ Scanned /\ NoneReturned
           /\ \A id \in Ids : OpenRow(id) /\ Returned(id) /\ ToReturn(id)

(* How the janitor and the node map move in a step.                        *)
ScanKept == Passing /\ jan'.scanned = jan.scanned /\ jan'.beats = jan.beats
ScanMade == jan'.scanned = now /\ jan'.beats = beat /\ jan'.plan = jan.plan /\ jan'.pc = "watch"
              /\ jan.pc = "sweep" /\ UNCHANGED <<inc, beat, hdl>> /\ now' = now

BeatsGo == \A n \in Nodes : beat'[n] \in {beat[n], now}

PassStep ==
  /\ BeatsGo \/ (~Passing' /\ \A n \in Nodes : beat'[n] = 0)
  /\ ~Passing' \/ ScanKept \/ ScanMade

LEMMA PassSteps == TypeOK /\ [Next]_vars => PassStep
<1> SUFFICES ASSUME TypeOK, [Next]_vars PROVE PassStep
  OBVIOUS
<1>0. beat \in [Nodes -> Time] /\ jan \in JanitorType
  BY DEF TypeOK, JanitorType
<1>1. ASSUME NEW n \in Nodes, NEW h \in Handlers, NEW hb \in Heartbeats,
             NEW others \in SUBSET OtherTitles, IngestStart(h, n, hb, others)
      PROVE  PassStep
  <2>1. BeatsGo /\ jan' = jan
    BY <1>0, <1>1 DEF IngestStart, mem_Ingest, BeatsGo
  <2> QED BY <2>1 DEF PassStep, Passing, ScanKept
<1>2. CASE UNCHANGED <<jan, beat>>
  BY <1>0, <1>2 DEF PassStep, BeatsGo, Passing, ScanKept
<1>3. CASE JanitorStart \/ JanitorResolve
  <2>1. beat' = beat
    BY <1>3 DEF JanitorStart, JanitorResolve, mem
  <2>2. CASE JanitorStart
    <3>1. jan'.pc = "sweep"
      BY <2>2 DEF JanitorStart, IdleJanitor
    <3> QED BY <1>0, <2>1, <3>1 DEF PassStep, BeatsGo, Passing
  <2>3. CASE JanitorResolve
    <3>1. jan'.pc = jan.pc /\ jan'.scanned = jan.scanned /\ jan'.beats = jan.beats
      BY <1>0, <2>3 DEF JanitorResolve, JanitorType
    <3> QED BY <1>0, <2>1, <3>1 DEF PassStep, BeatsGo, Passing, ScanKept
  <2> QED BY <1>3, <2>2, <2>3
<1>4. CASE WatchdogScan
  <2>1. ScanMade
    BY <1>0, <1>4 DEF WatchdogScan, ScanMade, JanitorType, table, mem
  <2> QED BY <1>0, <2>1 DEF PassStep, BeatsGo, ScanMade
<1>5. CASE \/ WatchdogOpen \/ WatchdogRestored
           \/ \E n \in Nodes : WatchdogSilent(n) \/ WatchdogAlive(n)
  <2>1. beat' = beat /\ Passing
    BY <1>5 DEF WatchdogOpen, WatchdogRestored, WatchdogSilent, WatchdogAlive, mem, Passing
  <2>2. jan'.scanned = jan.scanned /\ jan'.beats = jan.beats
    <3>1. CASE WatchdogOpen
      BY <1>0, <3>1 DEF WatchdogOpen, JanitorType
    <3>2. CASE WatchdogRestored
      BY <1>0, <3>2 DEF WatchdogRestored, JanitorType
    <3>3. CASE \E n \in Nodes : WatchdogSilent(n)
      BY <1>0, <3>3 DEF WatchdogSilent, JanitorType
    <3>4. CASE \E n \in Nodes : WatchdogAlive(n)
      BY <1>0, <3>4 DEF WatchdogAlive, JanitorType
    <3> QED BY <1>5, <3>1, <3>2, <3>3, <3>4
  <2> QED BY <1>0, <2>1, <2>2 DEF PassStep, BeatsGo, ScanKept
<1>6. CASE JanitorPrune
  <2>1. jan'.pc = "idle" /\ beat' = beat
    BY <1>6 DEF JanitorPrune, IdleJanitor, mem
  <2> QED BY <1>0, <2>1 DEF PassStep, BeatsGo, Passing
<1>7. CASE Restart
  <2>1. jan'.pc = "idle" /\ \A n \in Nodes : beat'[n] = 0
    BY <1>7 DEF Restart, IdleJanitor
  <2> QED BY <2>1 DEF PassStep, Passing
<1> QED
  BY <1>1, <1>2, <1>3, <1>4, <1>5, <1>6, <1>7
  DEF Next, vars, mem, Heartbeat, HandlerStep, JanitorStep, IngestRaise, IngestReadOpen, IngestResolve,
      IngestDone, AcknowledgeIncident, ResolveIncident, SnoozeIncident, SetQuiet, Tick

LEMMA ScannedStep == TypeOK /\ Scanned /\ [Next]_vars => Scanned'
<1> SUFFICES ASSUME TypeOK, Scanned, [Next]_vars PROVE Scanned'
  OBVIOUS
<1>0. PassStep /\ now' \in {now, now + 1} /\ now \in Nat
  BY PassSteps, ClockSteps, TimesAssumption DEF TypeOK
<1>1. \A n \in Nodes : beat[n] \in Nat /\ jan.beats[n] \in Nat
  BY TimesAssumption DEF TypeOK, Time
<1>2. \A n \in Nodes : beat'[n] <= now'
  BY <1>0, <1>1 DEF PassStep, BeatsGo, Scanned
<1>3. Passing' => jan'.scanned <= now' /\ \A n \in Nodes : jan'.beats[n] <= beat'[n]
  <2> SUFFICES ASSUME Passing' PROVE jan'.scanned <= now' /\ \A n \in Nodes : jan'.beats[n] <= beat'[n]
    OBVIOUS
  <2>1. CASE ScanKept
    <3>1. jan.scanned <= now /\ jan.scanned \in Nat /\ \A n \in Nodes : jan.beats[n] <= beat[n]
      BY <2>1, TimesAssumption DEF Scanned, ScanKept, TypeOK, Time
    <3>2. BeatsGo /\ \A n \in Nodes : beat[n] <= now
      BY <1>0 DEF PassStep, Scanned
    <3> QED BY <1>0, <1>1, <2>1, <3>1, <3>2 DEF ScanKept, BeatsGo
  <2>2. CASE ScanMade
    BY <1>0, <1>1, <2>2 DEF ScanMade
  <2> QED BY <1>0, <2>1, <2>2 DEF PassStep
<1>4. ASSUME jan'.pc = "open" PROVE SilentAtScan(jan.node)'
  <2>0. jan \in JanitorType
    BY DEF TypeOK, JanitorType
  <2>1. CASE jan' = jan
    BY <1>4, <2>1 DEF Scanned, SilentAtScan
  <2>2. ASSUME NEW n \in Nodes, WatchdogSilent(n) PROVE SilentAtScan(jan.node)'
    <3>1. /\ jan'.node = n \/ (jan'.pc = jan.pc /\ jan.pc = "watch")
          /\ jan'.scanned = jan.scanned /\ jan'.beats = jan.beats
      BY <2>0, <2>2 DEF WatchdogSilent, JanitorType
    <3>2. jan'.node = n
      BY <1>4, <3>1
    <3> QED BY <2>2, <3>1, <3>2 DEF WatchdogSilent, SilentAtScan
  <2>3. CASE JanitorResolve
    <3>1. jan'.pc = jan.pc /\ jan.pc # "open"
      BY <2>0, <2>3 DEF JanitorResolve, JanitorType
    <3> QED BY <1>4, <3>1
  <2>4. CASE JanitorStart \/ WatchdogScan \/ WatchdogOpen \/ WatchdogRestored \/ JanitorPrune \/ Restart
    <3>1. jan'.pc # "open"
      <4>1. CASE JanitorStart \/ JanitorPrune \/ Restart
        <5>1. CASE JanitorStart
          BY <5>1 DEF JanitorStart, IdleJanitor
        <5>2. CASE JanitorPrune \/ Restart
          BY <5>2 DEF JanitorPrune, Restart, IdleJanitor
        <5> QED BY <4>1, <5>1, <5>2
      <4>2. CASE WatchdogScan
        BY <2>0, <4>2 DEF WatchdogScan, JanitorType
      <4>3. CASE WatchdogOpen \/ WatchdogRestored
        BY <2>0, <4>3 DEF WatchdogOpen, WatchdogRestored, JanitorType
      <4> QED BY <2>4, <4>1, <4>2, <4>3
    <3> QED BY <1>4, <3>1
  <2>5. ASSUME NEW n \in Nodes, WatchdogAlive(n) PROVE FALSE
    BY <1>4, <2>0, <2>5 DEF WatchdogAlive, JanitorType
  <2> QED
    BY <2>1, <2>2, <2>3, <2>4, <2>5
    DEF Next, vars, Heartbeat, HandlerStep, JanitorStep, IngestStart, IngestRaise, IngestReadOpen,
        IngestResolve, IngestDone, AcknowledgeIncident, ResolveIncident, SnoozeIncident, SetQuiet, Tick
<1> QED BY <1>2, <1>3, <1>4 DEF Scanned

LEMMA OpenRowStep ==
  ASSUME TypeOK, Scanned, NEW id \in Ids, OpenRow(id), RowStep(id), PassStep, now' \in {now, now + 1}
  PROVE  OpenRow(id)'
<1> SUFFICES ASSUME inc'[id].st = "open"
             PROVE  /\ inc'[id].reason = "" /\ inc'[id].node \in Nodes
                    /\ inc'[id].title = Silent =>
                         /\ inc'[id].since + SilentTTL < now'
                         /\ Passing' => inc'[id].since + SilentTTL < jan'.scanned
  BY DEF OpenRow
<1>0. inc[id] \in Row /\ now \in Nat /\ SilentTTL \in Nat /\ inc[id].since \in Nat /\ jan.scanned \in Nat
  BY TimesAssumption DEF TypeOK, Time, Row
<1>1. ASSUME inc[id].st = "open", inc'[id].reason = inc[id].reason, inc'[id].node = inc[id].node,
             inc'[id].title = inc[id].title, inc'[id].since = inc[id].since
      PROVE  OpenRow(id)'
  <2>1. inc[id].reason = "" /\ inc[id].node \in Nodes
    BY <1>1 DEF OpenRow
  <2>2. ASSUME inc[id].title = Silent
        PROVE  /\ inc[id].since + SilentTTL < now'
               /\ Passing' => inc[id].since + SilentTTL < jan'.scanned
    <3>1. inc[id].since + SilentTTL < now /\ (Passing => inc[id].since + SilentTTL < jan.scanned)
      BY <1>1, <2>2 DEF OpenRow
    <3> QED BY <1>0, <3>1 DEF PassStep, ScanKept, ScanMade
  <2> QED BY <1>1, <2>1, <2>2 DEF OpenRow
<1>2. ASSUME NEW n \in Nodes, NEW since \in Time, BySilentWatch(n, since)
      PROVE  /\ since + SilentTTL < now'
             /\ Passing' => since + SilentTTL < jan'.scanned
  <2>1. since < jan.scanned - SilentTTL /\ jan.scanned <= now /\ since \in Nat
    BY <1>2, TimesAssumption DEF BySilentWatch, Scanned, SilentAtScan, Passing, Time
  <2>2. ~ScanMade
    BY <1>2 DEF BySilentWatch, ScanMade
  <2> QED BY <1>0, <2>1, <2>2 DEF PassStep, ScanKept
<1>3. CASE inc'[id] = inc[id]
  BY <1>1, <1>3 DEF OpenRow
<1>4. CASE Opens(id)
  <2>1. PICK n \in Nodes, t \in Titles, since \in Time :
          inc'[id] = NewRow(n, t, since) /\ (t = Silent => BySilentWatch(n, since))
    BY <1>4 DEF Opens
  <2>2. /\ NewRow(n, t, since).reason = "" /\ NewRow(n, t, since).node = n
        /\ NewRow(n, t, since).title = t /\ NewRow(n, t, since).since = since
    BY DEF NewRow
  <2> QED BY <1>2, <2>1, <2>2
<1>5. CASE Refreshes(id, inc[id].notified) \/ Repages(id)
  <2>1. PICK since \in Time, notified \in Time :
          /\ inc'[id] = [inc[id] EXCEPT !.notified = notified, !.since = since]
          /\ inc[id].title = Silent => BySilentWatch(inc[id].node, since)
    <3>1. inc[id].notified \in Time /\ now \in Time
      BY <1>0 DEF Row, TypeOK, Time
    <3> QED BY <1>5, <3>1 DEF Refreshes, Repages
  <2>2. /\ inc'[id].reason = inc[id].reason /\ inc'[id].node = inc[id].node
        /\ inc'[id].title = inc[id].title /\ inc'[id].since = since
    BY <1>0, <2>1 DEF Row
  <2>3. inc[id].reason = "" /\ inc[id].node \in Nodes
    BY <1>5 DEF OpenRow, Refreshes, Repages
  <2> QED BY <1>2, <2>1, <2>2, <2>3
<1>6. CASE Presses(id)
  <2>1. /\ inc[id].st = "open" /\ inc'[id].reason = inc[id].reason /\ inc'[id].node = inc[id].node
        /\ inc'[id].title = inc[id].title /\ inc'[id].since = inc[id].since
    BY <1>0, <1>6 DEF Presses, Row
  <2> QED BY <1>1, <2>1 DEF OpenRow
<1>7. ~Closes(id) /\ ~Drops(id)
  BY <1>0 DEF Closes, ClosedAs, Drops, PrunedRow, FreeRow, Row
<1> QED BY <1>3, <1>4, <1>5, <1>6, <1>7 DEF RowStep

LEMMA ReturnedStep ==
  ASSUME TypeOK, Scanned, NoneReturned, PassStep, now' \in {now, now + 1},
         NEW id \in Ids, OpenRow(id), Returned(id), ToReturn(id), RowStep(id)
  PROVE  Returned(id)'
<1> SUFFICES ASSUME inc'[id].reason = "heartbeat_restored"
             PROVE  /\ inc'[id].st # "open"
                    /\ inc'[id].node \in Nodes /\ inc'[id].since < now'
                    /\ beat'[inc'[id].node] = 0 \/ beat'[inc'[id].node] > inc'[id].since
  BY DEF Returned
<1>0. inc[id] \in Row /\ now \in Nat /\ inc[id].since \in Nat /\ SilentTTL \in Nat
      /\ \A n \in Nodes : beat[n] \in Nat /\ beat'[n] \in {beat[n], 0, now}
  BY TimesAssumption DEF TypeOK, Time, Row, PassStep, BeatsGo
<1>1. CASE inc'[id] = inc[id]
  BY <1>0, <1>1 DEF Returned
<1>2. ASSUME inc[id].st = "open", inc'[id].reason = inc[id].reason PROVE FALSE
  BY <1>2 DEF OpenRow
<1>3. CASE Refreshes(id, inc[id].notified) \/ Repages(id) \/ Presses(id)
  <2>1. inc[id].st = "open" /\ inc'[id].reason = inc[id].reason
    BY <1>0, <1>3 DEF Refreshes, Repages, Presses, Row
  <2> QED BY <1>2, <2>1
<1>4. ~Opens(id)
  <2> SUFFICES ASSUME NEW n \in Nodes, NEW t \in Titles, NEW since \in Time, inc'[id] = NewRow(n, t, since)
               PROVE  FALSE
    BY DEF Opens
  <2>1. NewRow(n, t, since).reason = ""
    BY DEF NewRow
  <2> QED BY <2>1
<1>5. ~Drops(id) /\ ~ClosedAs(id, "manual")
  BY <1>0 DEF Drops, PrunedRow, FreeRow, ClosedAs, Row
<1>6. ASSUME NEW why \in Reasons, inc[id].st = "open", Planned(id, why), ClosedAs(id, why)
      PROVE  /\ inc'[id].st # "open"
             /\ inc'[id].node \in Nodes /\ inc'[id].since < now'
             /\ beat'[inc'[id].node] = 0 \/ beat'[inc'[id].node] > inc'[id].since
  <2>1. /\ inc'[id].st = "resolved" /\ inc'[id].reason = why
        /\ inc'[id].node = inc[id].node /\ inc'[id].since = inc[id].since
    BY <1>0, <1>6 DEF ClosedAs, Row
  <2>2. <<id, "heartbeat_restored">> \in jan.plan
    BY <1>6, <2>1 DEF Planned, NoneReturned
  <2>3. inc[id].node \in Nodes /\ beat[inc[id].node] > inc[id].since /\ inc[id].since + SilentTTL < now
    BY <1>6, <2>2 DEF ToReturn, OpenRow
  <2> QED BY <1>0, <2>1, <2>3
<1> QED BY <1>1, <1>3, <1>4, <1>5, <1>6 DEF RowStep, Closes

(* The watchdog plans to close a row only for a heartbeat newer than the   *)
(* one the row quotes.                                                     *)
LEMMA ToReturnNew ==
  ASSUME TypeOK, Scanned, [Next]_vars, NEW id \in Ids, OpenRow(id),
         <<id, "heartbeat_restored">> \in jan'.plan
  PROVE  \/ <<id, "heartbeat_restored">> \in jan.plan /\ (jan.pc = "restore" => jan'.pc = "restore")
         \/ /\ jan'.pc = "restore" /\ UNCHANGED <<inc, beat>>
            /\ inc[id].st = "open" /\ inc[id].title = Silent
            /\ beat[inc[id].node] > inc[id].since
<1>0. jan \in JanitorType /\ IdleJanitor.plan = {}
  BY DEF TypeOK, JanitorType, IdleJanitor
<1>1. ASSUME NEW n \in Nodes, WatchdogAlive(n),
             jan' = [jan EXCEPT !.todo = @ \ {n}, !.pc = "restore",
                       !.plan = {<<i, "heartbeat_restored">> : i \in OpenRows(n, Silent)}]
      PROVE  /\ jan'.pc = "restore" /\ UNCHANGED <<inc, beat>>
             /\ inc[id].st = "open" /\ inc[id].title = Silent
             /\ beat[inc[id].node] > inc[id].since
  <2>1. jan'.pc = "restore" /\ jan'.plan = {<<i, "heartbeat_restored">> : i \in OpenRows(n, Silent)}
    BY <1>0, <1>1 DEF JanitorType
  <2>2. id \in OpenRows(n, Silent)
    BY <2>1
  <2>3. inc[id].st = "open" /\ inc[id].title = Silent /\ inc[id].node = n
    BY <2>2 DEF OpenRows
  <2>4. Passing /\ ~SilentAtScan(n) /\ UNCHANGED <<inc, beat>>
    BY <1>1 DEF WatchdogAlive, Passing, table, mem
  <2>5. inc[id].since + SilentTTL < jan.scanned /\ jan.beats[n] <= beat[n]
    BY <2>3, <2>4 DEF OpenRow, Scanned
  <2>6. /\ inc[id].since \in Nat /\ SilentTTL \in Nat /\ jan.scanned \in Nat
        /\ jan.beats[n] \in Nat /\ beat[n] \in Nat
    BY TimesAssumption DEF TypeOK, Time, Row
  <2>7. beat[n] > inc[id].since
    BY <2>4, <2>5, <2>6 DEF SilentAtScan
  <2> QED BY <2>1, <2>3, <2>4, <2>7
<1>2. CASE JanitorResolve
  BY <1>0, <1>2 DEF JanitorResolve, JanitorType
<1>3. CASE JanitorStart
  <2>1. PICK stale \in Selected(Abandoned) : jan'.plan = {<<i, "abandoned_ttl">> : i \in stale}
    BY <1>3 DEF JanitorStart, IdleJanitor
  <2> QED BY <2>1
<1>4. ~JanitorPrune /\ ~Restart
  BY <1>0 DEF JanitorPrune, Restart
<1>5. CASE WatchdogScan \/ WatchdogOpen
  <2>1. jan'.plan = jan.plan /\ jan.pc # "restore"
    <3>1. CASE WatchdogScan
      BY <1>0, <3>1 DEF WatchdogScan, JanitorType
    <3>2. CASE WatchdogOpen
      BY <1>0, <3>2 DEF WatchdogOpen, JanitorType
    <3> QED BY <1>5, <3>1, <3>2
  <2> QED BY <2>1
<1>6. CASE WatchdogRestored
  BY <1>0, <1>6 DEF WatchdogRestored, JanitorType
<1>7. ASSUME NEW n \in Nodes, WatchdogSilent(n)
      PROVE  <<id, "heartbeat_restored">> \in jan.plan /\ jan.pc # "restore"
  BY <1>0, <1>7 DEF WatchdogSilent, JanitorType
<1>8. ASSUME NEW n \in Nodes, WatchdogAlive(n), jan' = [jan EXCEPT !.todo = @ \ {n}]
      PROVE  <<id, "heartbeat_restored">> \in jan.plan /\ jan.pc # "restore"
  BY <1>0, <1>8 DEF WatchdogAlive, JanitorType
<1>9. CASE jan' = jan
  BY <1>9
<1>10. ASSUME NEW n \in Nodes, WatchdogAlive(n)
       PROVE  \/ jan' = [jan EXCEPT !.todo = @ \ {n}]
              \/ jan' = [jan EXCEPT !.todo = @ \ {n}, !.pc = "restore",
                           !.plan = {<<i, "heartbeat_restored">> : i \in OpenRows(n, Silent)}]
  BY <1>10 DEF WatchdogAlive
<1> QED
  BY <1>1, <1>2, <1>3, <1>4, <1>5, <1>6, <1>7, <1>8, <1>9, <1>10
  DEF Next, vars, Heartbeat, HandlerStep, JanitorStep, IngestStart, IngestRaise, IngestReadOpen,
      IngestResolve, IngestDone, AcknowledgeIncident, ResolveIncident, SnoozeIncident, SetQuiet, Tick

LEMMA ToReturnStep ==
  ASSUME TypeOK, Scanned, [Next]_vars, PassStep, NEW id \in Ids, OpenRow(id), ToReturn(id), RowStep(id)
  PROVE  ToReturn(id)'
<1> SUFFICES ASSUME <<id, "heartbeat_restored">> \in jan'.plan
             PROVE  /\ jan'.pc = "restore" /\ inc'[id].st # "free"
                    /\ inc'[id].st = "open" => inc'[id].title = Silent /\ beat'[inc'[id].node] > inc'[id].since
  BY DEF ToReturn
<1>0. inc[id] \in Row /\ now \in Nat /\ inc[id].since \in Nat /\ SilentTTL \in Nat
      /\ \A n \in Nodes : beat[n] \in Nat
  BY TimesAssumption DEF TypeOK, Time, Row
<1>1. CASE /\ jan'.pc = "restore" /\ UNCHANGED <<inc, beat>>
           /\ inc[id].st = "open" /\ inc[id].title = Silent /\ beat[inc[id].node] > inc[id].since
  BY <1>1
<1>2. CASE <<id, "heartbeat_restored">> \in jan.plan /\ (jan.pc = "restore" => jan'.pc = "restore")
  <2>1. /\ jan.pc = "restore" /\ jan'.pc = "restore" /\ inc[id].st # "free"
        /\ inc[id].st = "open" => inc[id].title = Silent /\ beat[inc[id].node] > inc[id].since
    BY <1>2 DEF ToReturn
  <2>2. BeatsGo
    BY <2>1 DEF PassStep, Passing
  <2>3. ASSUME inc[id].st = "open", inc'[id].title = inc[id].title, inc'[id].node = inc[id].node,
               inc'[id].since = inc[id].since
        PROVE  inc'[id].title = Silent /\ beat'[inc'[id].node] > inc'[id].since
    <3>1. inc[id].node \in Nodes /\ inc[id].since + SilentTTL < now
      BY <2>1, <2>3 DEF OpenRow
    <3> QED BY <1>0, <2>1, <2>2, <2>3, <3>1 DEF BeatsGo
  <2>4. CASE inc'[id] = inc[id]
    BY <2>1, <2>3, <2>4
  <2>5. ~Opens(id) /\ ~Refreshes(id, inc[id].notified) /\ ~Repages(id)
    BY <2>1 DEF Opens, Refreshes, Repages, BySilentWatch
  <2>6. CASE Presses(id)
    <3>1. /\ inc[id].st = "open" /\ inc'[id].st = "open" /\ inc'[id].title = inc[id].title
          /\ inc'[id].node = inc[id].node /\ inc'[id].since = inc[id].since
      BY <1>0, <2>6 DEF Presses, Row
    <3> QED BY <2>1, <2>3, <3>1
  <2>7. CASE Closes(id) \/ Drops(id)
    <3>1. inc'[id].st \in {"resolved", "pruned"}
      BY <1>0, <2>7 DEF Closes, ClosedAs, Drops, PrunedRow, FreeRow, Row
    <3> QED BY <2>1, <3>1
  <2> QED BY <2>4, <2>5, <2>6, <2>7 DEF RowStep
<1> QED BY <1>1, <1>2, ToReturnNew

(* No heartbeat closes a row in the name of the watchdog.                  *)
LEMMA NoneReturnedStep == TypeOK /\ NoneReturned /\ [Next]_vars => NoneReturned'
<1> SUFFICES ASSUME TypeOK, NoneReturned, [Next]_vars PROVE NoneReturned'
  OBVIOUS
<1>0. hdl \in [Handlers -> HandlerType]
  BY DEF TypeOK, HandlerType
<1>1. ASSUME NEW h \in Handlers, IngestReadOpen(h) PROVE NoneReturned'
  <2> DEFINE reason(i) == incidentResolutionReason(inc[i], hdl[h].hb)
  <2>1. PICK open \in Selected(OpenOf(hdl[h].node)) :
          hdl' = [hdl EXCEPT ![h].pc = "resolve",
                             ![h].plan = {<<i, reason(i)>> : i \in {j \in open : reason(j) # ""}}]
    BY <1>1 DEF IngestReadOpen
  <2>2. \A o \in Handlers \ {h} : hdl'[o] = hdl[o]
    BY <1>0, <2>1
  <2>3. hdl'[h].plan = {<<i, reason(i)>> : i \in {j \in open : reason(j) # ""}}
    BY <1>0, <2>1 DEF HandlerType
  <2>4. \A i : reason(i) # "heartbeat_restored"
    BY DEF incidentResolutionReason
  <2>5. \A id \in Ids : <<id, "heartbeat_restored">> \notin hdl'[h].plan
    BY <2>3, <2>4
  <2> QED BY <2>2, <2>5 DEF NoneReturned
<1> QED BY <1>1, HandlerPlans DEF NoneReturned

(* A Node Silent row is closed as restored by a heartbeat newer than the   *)
(* one it quotes, never by an old copy of the node map.                    *)
THEOREM RestoredCorrect == Spec => []RestoredByHeartbeat
<1>1. Init => Watched
  <2> SUFFICES ASSUME Init PROVE Watched
    OBVIOUS
  <2>1. /\ now = 1 /\ jan = IdleJanitor /\ \A n \in Nodes : beat[n] = 0
        /\ \A h \in Handlers : hdl[h] = IdleHandler
        /\ \A id \in Ids : inc[id] = FreeRow
    BY DEF Init
  <2>2. /\ FreeRow.st = "free" /\ FreeRow.reason = ""
        /\ IdleJanitor.pc = "idle" /\ IdleJanitor.plan = {} /\ IdleHandler.plan = {}
    BY DEF FreeRow, IdleJanitor, IdleHandler
  <2>3. Scanned
    <3>1. jan.pc = "idle"
      BY <2>1, <2>2
    <3>2. now = 1 /\ \A n \in Nodes : beat[n] = 0
      BY DEF Init
    <3>3. \A n \in Nodes : beat[n] <= now
      BY <3>2
    <3> QED BY <3>1, <3>3 DEF Scanned, Passing
  <2>4. NoneReturned
    BY <2>1, <2>2 DEF NoneReturned
  <2>5. ASSUME NEW id \in Ids PROVE OpenRow(id) /\ Returned(id) /\ ToReturn(id)
    BY <2>1, <2>2 DEF OpenRow, Returned, ToReturn
  <2> QED BY <2>3, <2>4, <2>5 DEF Watched
<1>2. TypeOK /\ NeverSilent /\ Watched /\ [Next]_vars => Watched'
  <2> SUFFICES ASSUME TypeOK, NeverSilent, Watched, [Next]_vars PROVE Watched'
    OBVIOUS
  <2>1. Scanned' /\ NoneReturned'
    BY ScannedStep, NoneReturnedStep DEF Watched
  <2>2. ASSUME NEW id \in Ids PROVE OpenRow(id)' /\ Returned(id)' /\ ToReturn(id)'
    <3>1. /\ Scanned /\ NoneReturned /\ OpenRow(id) /\ Returned(id) /\ ToReturn(id)
          /\ RowStep(id) /\ PassStep /\ now' \in {now, now + 1}
      BY RowSteps, PassSteps, ClockSteps DEF Watched
    <3> QED BY <3>1, OpenRowStep, ReturnedStep, ToReturnStep
  <2> QED BY <2>1, <2>2 DEF Watched
<1>3. Watched => RestoredByHeartbeat
  BY DEF Watched, Returned, RestoredByHeartbeat
<1> QED BY <1>1, <1>2, <1>3, RowsAlways, PTL DEF Spec
=============================================================================
