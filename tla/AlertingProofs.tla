--------------------------- MODULE AlertingProofs ---------------------------
(***************************************************************************)
(* Proofs about what decides on an alert and answers it: which rules a     *)
(* heartbeat is judged by, when an incident is paged, and when an agent    *)
(* restarts.                                                               *)
(***************************************************************************)
EXTENDS AlertRules, Maintenance, AutoHeal, FiniteSetTheorems, TLAPS

(***************************************************************************)
(* What holds of AlertRules for any set of users, nodes, labels, requests  *)
(* and overlapping heartbeats.                                             *)
(*                                                                         *)
(* A heartbeat's copies agree with the table because the walk of its       *)
(* cursor holds p.mu: no row under the cursor changes.  They agree with    *)
(* the labels because each row meets the labels of the moment it is        *)
(* matched at, and the histories grow and shrink with every change of      *)
(* them; Reads says how far the walk has come with respect to both.        *)
(***************************************************************************)
BeatStates == [pc : {"idle", "tags", "owner", "rules", "match", "evaluate"},
               box : Boxes \cup {NoBox}, owner : Authors,
               rows : SUBSET RuleRows, read : SUBSET RuleRows]

Typed ==
  /\ RulesTypeOK
  /\ rules \in [DOMAIN rules -> RuleRows]
  /\ beat \in [Beats -> BeatStates]
  /\ could \in [Beats -> SUBSET RuleRows] /\ always \in [Beats -> SUBSET RuleRows]

(* What applies to the node of b for the owner it read, by the table and   *)
(* the labels of now.                                                      *)
Current(b) == Applying(rules, beat[b].box, beat[b].owner, labels[beat[b].box])

(* The rows the query of b's read would return now.                        *)
Under(b) == {row \in Rows(rules) : Selected(row, beat[b].box, beat[b].owner)}

ReadsOf(b) ==
  /\ beat[b].read \subseteq could[b]
  /\ beat[b].pc = "match" => beat[b].rows \subseteq Under(b)
  /\ Matching(b) => Current(b) \subseteq could[b]
  /\ Matching(b) => always[b] \subseteq Current(b)
  /\ beat[b].pc = "match" => always[b] \subseteq beat[b].rows \cup beat[b].read
  /\ beat[b].pc = "evaluate" => always[b] \subseteq beat[b].read
  /\ beat[b].pc \in {"tags", "owner"} => beat[b].read = {}

Reads == \A b \in Beats : ReadsOf(b)

-----------------------------------------------------------------------------
(* The rows of a typed table are rows.                                     *)
LEMMA RowsTyped ==
  ASSUME NEW table, table \in [DOMAIN table -> RuleRows]
  PROVE  /\ Rows(table) \subseteq RuleRows
         /\ \A box, owner, carried : Applying(table, box, owner, carried) \subseteq Rows(table)
  BY DEF Rows, Applying

(* A row that applied for one owner and now applies for another does so    *)
(* for the first as well: whose it is, and where pinned, are the row's.    *)
LEMMA OtherOwner ==
  ASSUME NEW table, NEW before, NEW box, NEW owner, NEW other, NEW carried, NEW had
  PROVE  Applying(before, box, owner, had) \cap Applying(table, box, other, carried)
           \subseteq Applying(table, box, owner, carried)
  BY DEF Applying, Applies, Selected

(* A selector that matches no labels matches any.                          *)
LEMMA EmptyMatchesAll ==
  ASSUME NEW selector, NEW carried, nodeMatchesTagSelector(selector, {})
  PROVE  nodeMatchesTagSelector(selector, carried)
  BY DEF nodeMatchesTagSelector

(* Nobody walks a cursor while p.mu is free.                               *)
LEMMA FreeMeansNoWalk ==
  ASSUME RulesTypeOK, mu = Nobody
  PROVE  \A b \in Beats : beat[b].pc # "match"
  BY AlertRulesAssumption DEF RulesTypeOK

(* What a step leaves in the histories, of rows.                           *)
LEMMA HistoriesTyped ==
  ASSUME NEW table, table \in [DOMAIN table -> RuleRows], NEW carried, NEW owners, NEW b \in Beats,
         could \in [Beats -> SUBSET RuleRows], always \in [Beats -> SUBSET RuleRows]
  PROVE  Could(b, table, carried) \in SUBSET RuleRows /\ Always(b, table, carried, owners) \in SUBSET RuleRows
<1>1. Applying(table, beat[b].box, beat[b].owner, carried[beat[b].box]) \subseteq RuleRows
  BY RowsTyped
<1>2. could[b] \in SUBSET RuleRows /\ always[b] \in SUBSET RuleRows
  OBVIOUS
<1> QED BY <1>1, <1>2 DEF Could, Always

LEMMA RememberTyped ==
  ASSUME NEW table, table \in [DOMAIN table -> RuleRows], NEW carried, NEW owners,
         Remember(table, carried, owners),
         could \in [Beats -> SUBSET RuleRows], always \in [Beats -> SUBSET RuleRows]
  PROVE  could' \in [Beats -> SUBSET RuleRows] /\ always' \in [Beats -> SUBSET RuleRows]
<1>1. \A b \in Beats : /\ Could(b, table, carried) \in SUBSET RuleRows
                      /\ Always(b, table, carried, owners) \in SUBSET RuleRows
  BY HistoriesTyped
<1> QED BY <1>1 DEF Remember

(* An edit of the table, whose rows are well-formed under their ids.       *)
LEMMA StoreTyped ==
  ASSUME Typed, NEW table, Store(table), lastRule' \in 0 .. MaxRules,
         table \in [DOMAIN table -> RuleRows], DOMAIN table \subseteq 1 .. lastRule',
         \A id \in DOMAIN table : table[id].id = id /\ validateAlertRuleRequest(table[id])
  PROVE  Typed'
<1>1. could' \in [Beats -> SUBSET RuleRows] /\ always' \in [Beats -> SUBSET RuleRows]
  BY RememberTyped DEF Store, Typed
<1>2. rules' = table /\ labels' = labels /\ boxOwner' = boxOwner /\ mu' = mu /\ beat' = beat
  BY DEF Store
<1>3. RulesTypeOK'
  BY <1>2 DEF Typed, RulesTypeOK, validateAlertRuleRequest
<1> QED BY <1>1, <1>2, <1>3 DEF Typed

(* A request that passed validation makes a row.                           *)
LEMMA RowTyped ==
  ASSUME NEW id \in RuleIds, NEW user \in Authors, NEW req \in Requests,
         validateAlertRuleRequest(req)
  PROVE  /\ Row(id, user, req) \in RuleRows /\ Row(id, user, req).id = id
         /\ validateAlertRuleRequest(Row(id, user, req))
  BY AlertRulesAssumption DEF Row, RuleRows, validateAlertRuleRequest

(* How a heartbeat's place in Ingest changes.                              *)
LEMMA PlaceChanges ==
  ASSUME NEW s \in BeatStates, NEW pc \in {"tags", "owner", "rules", "match", "evaluate"}
  PROVE  /\ [s EXCEPT !.pc = pc] \in BeatStates
         /\ [s EXCEPT !.pc = pc].pc = pc /\ [s EXCEPT !.pc = pc].box = s.box
  BY DEF BeatStates

(* A step that leaves the table alone.                                     *)
LEMMA BeatTyped ==
  ASSUME Typed, beat' \in [Beats -> BeatStates], labels' \in [Boxes -> SUBSET Labels],
         boxOwner' \in [Boxes -> Authors], mu' \in Beats \cup {Nobody},
         \A b \in Beats : /\ beat'[b].pc = "match" <=> mu' = b
                          /\ beat'[b].pc = "idle" <=> beat'[b].box = NoBox,
         could' \in [Beats -> SUBSET RuleRows], always' \in [Beats -> SUBSET RuleRows],
         UNCHANGED <<rules, lastRule>>
  PROVE  Typed'
<1>1. \A id \in DOMAIN rules :
        rules'[id] \in RuleRows /\ rules'[id].id = id /\ validateAlertRuleRequest(rules[id])'
  BY DEF Typed, RulesTypeOK, validateAlertRuleRequest
<1>2. \A b \in Beats : /\ beat'[b].pc \in {"idle", "tags", "owner", "rules", "match", "evaluate"}
                       /\ beat'[b].box \in Boxes \cup {NoBox} /\ beat'[b].owner \in Authors
                       /\ beat'[b].rows \subseteq RuleRows /\ beat'[b].read \subseteq RuleRows
  BY DEF BeatStates
<1>3. lastRule' \in 0 .. MaxRules /\ DOMAIN rules' \subseteq 1 .. lastRule'
  BY DEF Typed, RulesTypeOK
<1>4. RulesTypeOK'
  BY <1>1, <1>2, <1>3 DEF RulesTypeOK
<1> QED BY <1>4 DEF Typed

(* One heartbeat takes its next step, and goes on with the node it has;    *)
(* whether it holds p.mu is up to the step.                                *)
LEMMA StepTyped ==
  ASSUME Typed, NEW b \in Beats, NEW s \in BeatStates, beat' = [beat EXCEPT ![b] = s],
         s.pc # "idle", s.box # NoBox,
         s.pc = "match" <=> mu' = b,
         \/ mu' = mu /\ beat[b].pc # "match"
         \/ mu = Nobody /\ mu' = b
         \/ mu = b /\ mu' = Nobody,
         labels' \in [Boxes -> SUBSET Labels], boxOwner' \in [Boxes -> Authors],
         could' \in [Beats -> SUBSET RuleRows], always' \in [Beats -> SUBSET RuleRows],
         UNCHANGED <<rules, lastRule>>
  PROVE  Typed'
<1>1. beat' \in [Beats -> BeatStates] /\ beat'[b] = s /\ \A o \in Beats \ {b} : beat'[o] = beat[o]
  BY DEF Typed
<1>2. mu' \in Beats \cup {Nobody}
  BY DEF Typed, RulesTypeOK
<1>3. \A o \in Beats \ {b} : mu' = o <=> mu = o
  BY AlertRulesAssumption DEF Typed, RulesTypeOK
<1>4. \A o \in Beats : /\ beat'[o].pc = "match" <=> mu' = o
                       /\ beat'[o].pc = "idle" <=> beat'[o].box = NoBox
  BY <1>1, <1>3 DEF Typed, RulesTypeOK
<1> QED BY <1>1, <1>2, <1>4, BeatTyped

(* One step of the walk: a row leaves the cursor, some rows are copied.    *)
LEMMA MatchTyped ==
  ASSUME Typed, NEW b \in Beats, NEW row, NEW found \in SUBSET RuleRows,
         beat[b].pc = "match", PassRow(b, row, found),
         UNCHANGED <<rules, lastRule, labels, boxOwner, mu>>,
         could' \in [Beats -> SUBSET RuleRows], always' \in [Beats -> SUBSET RuleRows]
  PROVE  Typed'
<1> DEFINE next == [beat[b] EXCEPT !.rows = beat[b].rows \ {row}, !.read = beat[b].read \cup found]
<1>1. beat[b] \in BeatStates
  BY DEF Typed
<1>2. next \in BeatStates
  <2>1. beat[b].rows \ {row} \in SUBSET RuleRows /\ beat[b].read \cup found \in SUBSET RuleRows
    BY <1>1 DEF BeatStates
  <2> QED BY <1>1, <2>1 DEF BeatStates
<1>3. beat' = [beat EXCEPT ![b] = next]
  BY <1>1 DEF Typed, PassRow, BeatStates
<1> HIDE DEF next
<1>4. beat' \in [Beats -> BeatStates]
  BY <1>2, <1>3 DEF Typed
<1>5. \A o \in Beats : beat'[o].pc = beat[o].pc /\ beat'[o].box = beat[o].box
  BY DEF Typed, BeatStates, PassRow
<1>6. \A o \in Beats : /\ beat'[o].pc = "match" <=> mu' = o
                       /\ beat'[o].pc = "idle" <=> beat'[o].box = NoBox
  BY <1>5 DEF Typed, RulesTypeOK
<1>7. /\ labels' \in [Boxes -> SUBSET Labels] /\ boxOwner' \in [Boxes -> Authors]
      /\ mu' \in Beats \cup {Nobody}
  BY DEF Typed, RulesTypeOK
<1> QED BY <1>4, <1>6, <1>7, BeatTyped

-----------------------------------------------------------------------------
LEMMA InitTyped == RulesInit => Typed
  BY AlertRulesAssumption
  DEF RulesInit, Typed, RulesTypeOK, BeatStates, NoBeat, RuleIds

LEMMA NextTyped == Typed /\ [RulesNext]_rulesVars => Typed'
<1> SUFFICES ASSUME Typed, [RulesNext]_rulesVars PROVE Typed'
  OBVIOUS
<1> USE AlertRulesAssumption
<1>1. ASSUME NEW user \in Authors, NEW req \in Requests, CreateMetricAlertRule(user, req)
      PROVE  Typed'
  <2> DEFINE id == lastRule + 1
             table == [i \in DOMAIN rules \cup {id} |-> IF i = id THEN Row(id, user, req) ELSE rules[i]]
  <2>1. id \in RuleIds /\ lastRule' = id /\ lastRule' \in 0 .. MaxRules /\ 1 .. lastRule \subseteq 1 .. lastRule'
    BY <1>1 DEF CreateMetricAlertRule, Typed, RulesTypeOK, RuleIds
  <2>2. /\ Row(id, user, req) \in RuleRows /\ Row(id, user, req).id = id
        /\ validateAlertRuleRequest(Row(id, user, req))
    BY <1>1, <2>1, RowTyped DEF CreateMetricAlertRule
  <2>3. \A i \in DOMAIN rules \cup {id} :
          /\ table[i] \in RuleRows /\ table[i].id = i /\ validateAlertRuleRequest(table[i])
    BY <2>2 DEF Typed, RulesTypeOK
  <2>4. DOMAIN table \subseteq 1 .. lastRule'
    BY <2>1 DEF Typed, RulesTypeOK, RuleIds
  <2>5. Store(table)
    BY <1>1 DEF CreateMetricAlertRule
  <2> HIDE DEF id
  <2>6. table \in [DOMAIN table -> RuleRows] /\ DOMAIN table = DOMAIN rules \cup {id}
    BY <2>3
  <2> HIDE DEF table
  <2> QED BY <2>1, <2>3, <2>4, <2>5, <2>6, StoreTyped
<1>2. ASSUME NEW user \in Authors, NEW id \in RuleIds, NEW req \in Requests,
             UpdateMetricAlertRule(user, id, req)
      PROVE  Typed'
  <2> DEFINE table == [rules EXCEPT ![id] = Row(id, user, req)]
  <2>1. Store(table) /\ lastRule' = lastRule /\ id \in DOMAIN rules
    BY <1>2 DEF UpdateMetricAlertRule
  <2>2. /\ Row(id, user, req) \in RuleRows /\ Row(id, user, req).id = id
        /\ validateAlertRuleRequest(Row(id, user, req))
    BY <1>2, RowTyped DEF UpdateMetricAlertRule
  <2>3. table \in [DOMAIN rules -> RuleRows] /\ DOMAIN table = DOMAIN rules
    BY <2>2 DEF Typed
  <2>4. \A i \in DOMAIN table : table[i].id = i /\ validateAlertRuleRequest(table[i])
    BY <2>2, <2>3 DEF Typed, RulesTypeOK
  <2> HIDE DEF table
  <2> QED BY <2>1, <2>3, <2>4, StoreTyped DEF Typed, RulesTypeOK
<1>3. ASSUME NEW user \in Authors, NEW id \in RuleIds, DeleteMetricAlertRule(user, id)
      PROVE  Typed'
  <2> DEFINE table == [other \in DOMAIN rules \ {id} |-> rules[other]]
  <2>1. Store(table) /\ lastRule' = lastRule
    BY <1>3 DEF DeleteMetricAlertRule
  <2>2. table \in [DOMAIN table -> RuleRows] /\ DOMAIN table \subseteq DOMAIN rules
    BY DEF Typed
  <2>3. \A i \in DOMAIN table : table[i].id = i /\ validateAlertRuleRequest(table[i])
    BY DEF Typed, RulesTypeOK
  <2> HIDE DEF table
  <2> QED BY <2>1, <2>2, <2>3, StoreTyped DEF Typed, RulesTypeOK
<1>4. ASSUME NEW b \in Beats, NEW box \in Boxes, NEW user \in Authors, Bind(b, box, user)
      PROVE  Typed'
  <2>t. /\ labels \in [Boxes -> SUBSET Labels] /\ boxOwner \in [Boxes -> Authors]
        /\ could \in [Beats -> SUBSET RuleRows] /\ always \in [Beats -> SUBSET RuleRows]
        /\ beat[b] \in BeatStates
    BY DEF Typed, RulesTypeOK
  <2> DEFINE s == [NoBeat EXCEPT !.pc = "tags", !.box = box]
  <2>1. s \in BeatStates /\ s.pc = "tags" /\ s.box = box
    BY DEF NoBeat, BeatStates
  <2>2. /\ beat[b].pc = "idle" /\ beat' = [beat EXCEPT ![b] = s]
        /\ UNCHANGED <<rules, lastRule, labels, mu>>
    BY <1>4 DEF Bind
  <2>3. mu # b /\ boxOwner' \in [Boxes -> Authors]
    BY <1>4 DEF Bind, Typed, RulesTypeOK
  <2>4. could' \in [Beats -> SUBSET RuleRows] /\ always' \in [Beats -> SUBSET RuleRows]
    BY <1>4, RememberTyped DEF Bind, Typed
  <2> HIDE DEF s
  <2> QED BY <2>t, <2>1, <2>2, <2>3, <2>4, StepTyped
<1>5. ASSUME NEW b \in Beats, NEW carried \in SUBSET Labels, UpsertNodeTags(b, carried)
      PROVE  Typed'
  <2>t. /\ labels \in [Boxes -> SUBSET Labels] /\ boxOwner \in [Boxes -> Authors]
        /\ could \in [Beats -> SUBSET RuleRows] /\ always \in [Beats -> SUBSET RuleRows]
        /\ beat[b] \in BeatStates
    BY DEF Typed, RulesTypeOK
  <2> DEFINE box == beat[b].box
             stored == IF carried = {} THEN labels ELSE [labels EXCEPT ![box] = carried]
             a(o) == IF o = b THEN Applying(rules, box, boxOwner[box], stored[box])
                              ELSE Always(o, rules, stored, boxOwner)
             s == [beat[b] EXCEPT !.pc = "owner"]
  <2>1. /\ beat[b].pc = "tags" /\ labels' = stored
        /\ could' = [o \in Beats |-> Could(o, rules, stored)]
        /\ always' = [o \in Beats |-> a(o)]
        /\ UNCHANGED <<rules, lastRule, boxOwner, mu>>
    BY <1>5 DEF UpsertNodeTags
  <2>2. stored \in [Boxes -> SUBSET Labels]
    BY DEF Typed, RulesTypeOK
  <2>3. \A o \in Beats : Could(o, rules, stored) \in SUBSET RuleRows /\ a(o) \in SUBSET RuleRows
    BY HistoriesTyped, RowsTyped DEF Typed
  <2>4. beat' = [beat EXCEPT ![b] = s]
    BY <1>5 DEF UpsertNodeTags, Typed
  <2>5. s \in BeatStates /\ s.pc = "owner" /\ s.box = box
    BY <2>t, PlaceChanges
  <2>6. box # NoBox /\ mu # b
    BY <2>1 DEF Typed, RulesTypeOK
  <2> HIDE DEF s, stored, a
  <2>7. could' \in [Beats -> SUBSET RuleRows] /\ always' \in [Beats -> SUBSET RuleRows]
    BY <2>1, <2>3
  <2> HIDE DEF box
  <2> QED BY <2>t, <2>1, <2>2, <2>4, <2>5, <2>6, <2>7, StepTyped
<1>6. ASSUME NEW b \in Beats, GetNodeOwner(b) PROVE Typed'
  <2>t. /\ labels \in [Boxes -> SUBSET Labels] /\ boxOwner \in [Boxes -> Authors]
        /\ could \in [Beats -> SUBSET RuleRows] /\ always \in [Beats -> SUBSET RuleRows]
        /\ beat[b] \in BeatStates
    BY DEF Typed, RulesTypeOK
  <2> DEFINE box == beat[b].box
             s(owner) == [beat[b] EXCEPT !.pc = "rules", !.owner = owner]
             app(owner) == Applying(rules, box, owner, labels[box])
  <2>0. beat[b].pc = "owner" /\ UNCHANGED <<rules, lastRule, labels, boxOwner, mu>>
    BY <1>6 DEF GetNodeOwner
  <2>1. box \in Boxes /\ mu # b /\ boxOwner[box] \in Authors
    BY <2>0 DEF Typed, RulesTypeOK
  <2>a. PICK owner \in Authors :
          /\ beat' = [beat EXCEPT ![b].pc = "rules", ![b].owner = owner]
          /\ could' = [could EXCEPT ![b] = app(owner)]
          /\ always' = [always EXCEPT ![b] = @ \cap app(owner)]
    BY <1>6, <2>1 DEF GetNodeOwner
  <2>2. beat' = [beat EXCEPT ![b] = s(owner)]
    BY <2>a DEF Typed
  <2>3. s(owner) \in BeatStates /\ s(owner).pc = "rules" /\ s(owner).box = box
    BY <2>t, <2>a DEF BeatStates
  <2>4. app(owner) \in SUBSET RuleRows
    BY RowsTyped DEF Typed
  <2> HIDE DEF s, app
  <2>5. could' \in [Beats -> SUBSET RuleRows] /\ always' \in [Beats -> SUBSET RuleRows]
    BY <2>t, <2>a, <2>4
  <2> HIDE DEF box
  <2> QED BY <2>t, <2>0, <2>1, <2>2, <2>3, <2>5, StepTyped
<1>7. ASSUME NEW b \in Beats, MetricsAlertRulesForNode(b) PROVE Typed'
  <2>t. /\ labels \in [Boxes -> SUBSET Labels] /\ boxOwner \in [Boxes -> Authors]
        /\ could \in [Beats -> SUBSET RuleRows] /\ always \in [Beats -> SUBSET RuleRows]
        /\ beat[b] \in BeatStates
    BY DEF Typed, RulesTypeOK
  <2> DEFINE rows == {row \in Rows(rules) : Selected(row, beat[b].box, beat[b].owner)}
             s == [beat[b] EXCEPT !.pc = "match", !.rows = rows]
  <2>1. rows \in SUBSET RuleRows
    BY RowsTyped DEF Typed
  <2>2. /\ mu = Nobody /\ mu' = b /\ beat[b].pc = "rules"
        /\ UNCHANGED <<rules, lastRule, labels, boxOwner, could, always>>
        /\ beat' = [beat EXCEPT ![b].pc = "match", ![b].rows = rows]
    BY <1>7 DEF MetricsAlertRulesForNode
  <2> HIDE DEF rows
  <2>3. beat' = [beat EXCEPT ![b] = s]
    BY <2>2 DEF Typed
  <2>4. s \in BeatStates /\ s.pc = "match" /\ s.box = beat[b].box
    BY <2>t, <2>1 DEF BeatStates
  <2>5. beat[b].box # NoBox
    BY <2>2 DEF Typed, RulesTypeOK
  <2> HIDE DEF s
  <2> QED BY <2>t, <2>2, <2>3, <2>4, <2>5, StepTyped
<1>8. ASSUME NEW b \in Beats, RulesUnread(b) PROVE Typed'
  <2>t. /\ labels \in [Boxes -> SUBSET Labels] /\ boxOwner \in [Boxes -> Authors]
        /\ could \in [Beats -> SUBSET RuleRows] /\ always \in [Beats -> SUBSET RuleRows]
        /\ beat[b] \in BeatStates
    BY DEF Typed, RulesTypeOK
  <2> DEFINE s == [beat[b] EXCEPT !.pc = "evaluate"]
  <2>1. /\ beat[b].pc = "rules" /\ beat' = [beat EXCEPT ![b] = s]
        /\ UNCHANGED <<rules, lastRule, labels, boxOwner, mu, could>>
    BY <1>8 DEF RulesUnread, Typed
  <2>2. s \in BeatStates /\ s.pc = "evaluate" /\ s.box = beat[b].box
    BY <2>t, PlaceChanges
  <2>3. beat[b].box # NoBox /\ mu # b
    BY <2>1 DEF Typed, RulesTypeOK
  <2>4. always' \in [Beats -> SUBSET RuleRows]
    BY <1>8 DEF RulesUnread, Typed
  <2> HIDE DEF s
  <2> QED BY <2>t, <2>1, <2>2, <2>3, <2>4, StepTyped
<1>9. ASSUME NEW b \in Beats, MatchRow(b) PROVE Typed'
  <2>1. PICK row \in beat[b].rows :
          /\ beat[b].pc = "match"
          /\ PassRow(b, row, {found \in {row} :
               found.scope = "fleet" => nodeMatchesTagSelector(found.selector, labels[beat[b].box])})
    BY <1>9 DEF MatchRow, AtRow
  <2> DEFINE found == {f \in {row} : f.scope = "fleet" => nodeMatchesTagSelector(f.selector, labels[beat[b].box])}
  <2>2. found \subseteq RuleRows /\ PassRow(b, row, found)
    BY <2>1 DEF Typed, BeatStates
  <2> HIDE DEF found
  <2> QED BY <1>9, <2>1, <2>2, MatchTyped DEF MatchRow, Typed
<1>10. ASSUME NEW b \in Beats, RowMisread(b) PROVE Typed'
  <2>1. PICK row \in beat[b].rows :
          /\ beat[b].pc = "match"
          /\ \/ PassRow(b, row, {})
             \/ PassRow(b, row, {f \in {row} : nodeMatchesTagSelector(f.selector, {})})
          /\ always' = [always EXCEPT ![b] = @ \ {row}]
    BY <1>10 DEF RowMisread, AtRow
  <2>2. PICK found \in SUBSET RuleRows : PassRow(b, row, found)
    <3>1. {f \in {row} : nodeMatchesTagSelector(f.selector, {})} \in SUBSET RuleRows /\ {} \in SUBSET RuleRows
      BY DEF Typed, BeatStates
    <3> QED BY <2>1, <3>1
  <2>3. always' \in [Beats -> SUBSET RuleRows]
    BY <2>1 DEF Typed
  <2> QED BY <1>10, <2>1, <2>2, <2>3, MatchTyped DEF RowMisread, Typed
<1>11. ASSUME NEW b \in Beats, RulesRead(b) PROVE Typed'
  <2>t. /\ labels \in [Boxes -> SUBSET Labels] /\ boxOwner \in [Boxes -> Authors]
        /\ could \in [Beats -> SUBSET RuleRows] /\ always \in [Beats -> SUBSET RuleRows]
        /\ beat[b] \in BeatStates
    BY DEF Typed, RulesTypeOK
  <2> DEFINE s == [beat[b] EXCEPT !.pc = "evaluate", !.rows = {}]
  <2>1. /\ beat[b].pc = "match" /\ mu' = Nobody /\ beat' = [beat EXCEPT ![b] = s]
        /\ UNCHANGED <<rules, lastRule, labels, boxOwner, could>>
    BY <1>11 DEF RulesRead, Typed
  <2>2. s \in BeatStates /\ s.pc = "evaluate" /\ s.box = beat[b].box
    <3>1. {} \in SUBSET RuleRows
      OBVIOUS
    <3> QED BY <2>t, <3>1 DEF BeatStates
  <2>3. beat[b].box # NoBox /\ mu = b /\ mu' # b
    BY <2>1 DEF Typed, RulesTypeOK
  <2>4. always' \in [Beats -> SUBSET RuleRows]
    BY <1>11 DEF RulesRead, Typed
  <2> HIDE DEF s
  <2> QED BY <2>t, <2>1, <2>2, <2>3, <2>4, StepTyped
<1>12. ASSUME NEW b \in Beats, EvaluateMetricAlert(b) PROVE Typed'
  <2>1. NoBeat \in BeatStates /\ NoBeat.pc = "idle" /\ NoBeat.box = NoBox
    BY DEF NoBeat, BeatStates
  <2>2. /\ beat' \in [Beats -> BeatStates]
        /\ could' \in [Beats -> SUBSET RuleRows] /\ always' \in [Beats -> SUBSET RuleRows]
    BY <1>12, <2>1 DEF EvaluateMetricAlert, Typed
  <2>3. /\ beat[b].pc = "evaluate" /\ beat'[b] = NoBeat
        /\ \A o \in Beats \ {b} : beat'[o] = beat[o]
    BY <1>12 DEF EvaluateMetricAlert, Typed
  <2>4. \A o \in Beats : /\ beat'[o].pc = "match" <=> mu' = o
                         /\ beat'[o].pc = "idle" <=> beat'[o].box = NoBox
    BY <1>12, <2>1, <2>3 DEF EvaluateMetricAlert, Typed, RulesTypeOK
  <2> QED BY <1>12, <2>2, <2>4, BeatTyped DEF EvaluateMetricAlert, Typed, RulesTypeOK
<1>13. ASSUME RulesRestart PROVE Typed'
  <2>1. NoBeat \in BeatStates /\ NoBeat.pc = "idle" /\ NoBeat.box = NoBox
    BY DEF NoBeat, BeatStates
  <2>2. /\ beat' \in [Beats -> BeatStates] /\ \A o \in Beats : beat'[o] = NoBeat
        /\ could' \in [Beats -> SUBSET RuleRows] /\ always' \in [Beats -> SUBSET RuleRows]
    BY <1>13, <2>1 DEF RulesRestart
  <2> QED BY <1>13, <2>1, <2>2, BeatTyped DEF RulesRestart, Typed, RulesTypeOK
<1>14. ASSUME UNCHANGED rulesVars PROVE Typed'
  BY <1>14 DEF rulesVars, Typed, RulesTypeOK, validateAlertRuleRequest
<1> QED
  BY <1>1, <1>2, <1>3, <1>4, <1>5, <1>6, <1>7, <1>8, <1>9, <1>10, <1>11, <1>12, <1>13, <1>14
  DEF RulesNext

(* Table, labels and heartbeats keep their shape, every stored rule is one *)
(* validateAlertRuleRequest let in, and p.mu is held by the one heartbeat  *)
(* whose cursor is open (MetricsAlertRulesForNode's lock and its defer).   *)
THEOREM RulesTyped == RulesSpec => []RulesTypeOK
<1>1. RulesSpec => []Typed
  BY InitTyped, NextTyped, PTL DEF RulesSpec
<1>2. Typed => RulesTypeOK
  BY DEF Typed
<1> QED BY <1>1, <1>2, PTL

-----------------------------------------------------------------------------
(* A heartbeat that is not touched remembers a change of the owners, the   *)
(* labels or, unless it walks its cursor, the table.                       *)
LEMMA RememberReads ==
  ASSUME NEW b \in Beats, ReadsOf(b), beat'[b] = beat[b],
         could'[b] = Could(b, rules', labels'),
         always'[b] = Always(b, rules', labels', boxOwner'),
         beat[b].pc = "match" => rules' = rules
  PROVE  ReadsOf(b)'
<1>1. CASE Matching(b)
  <2> DEFINE box == beat[b].box
  <2>1. could'[b] = could[b] \cup Current(b)'
    BY <1>1 DEF Could, Current
  <2>2. always'[b] = always[b] \cap Applying(rules', box, boxOwner'[box], labels'[box])
    BY <1>1 DEF Always, Stored
  <2>3. always[b] \subseteq Current(b)
    BY <1>1 DEF ReadsOf
  <2>4. always'[b] \subseteq Current(b)'
    BY <2>2, <2>3, OtherOwner DEF Current
  <2>5. beat[b].pc = "match" => Under(b)' = Under(b)
    BY DEF Under
  <2> QED BY <1>1, <2>1, <2>2, <2>4, <2>5 DEF ReadsOf, Matching
<1>2. CASE ~Matching(b)
  <2>1. could'[b] = could[b] /\ always'[b] \subseteq always[b] /\ ~Matching(b)'
    BY <1>2 DEF Could, Always, Matching
  <2> QED BY <1>2, <2>1 DEF ReadsOf, Matching
<1> QED BY <1>1, <1>2

(* A change of the table while nobody walks it, and none of the heartbeats.*)
LEMMA StoreReads ==
  ASSUME Typed, Reads, mu = Nobody, NEW table, Store(table)
  PROVE  Reads'
<1>1. rules' = table /\ labels' = labels /\ boxOwner' = boxOwner /\ beat' = beat
  BY DEF Store
<1>2. \A b \in Beats : beat[b].pc # "match"
  BY FreeMeansNoWalk DEF Typed
<1>3. \A b \in Beats : /\ could'[b] = Could(b, rules', labels')
                      /\ always'[b] = Always(b, rules', labels', boxOwner')
  BY <1>1 DEF Store, Remember
<1> QED BY <1>1, <1>2, <1>3, RememberReads DEF Reads

(* A heartbeat whose place in Ingest, node, copies and histories a step    *)
(* leaves alone, with the table and the labels.                            *)
LEMMA SameReads ==
  ASSUME NEW b \in Beats, ReadsOf(b), beat'[b] = beat[b],
         could'[b] = could[b], always'[b] = always[b], UNCHANGED <<rules, labels>>
  PROVE  ReadsOf(b)'
  BY DEF ReadsOf, Matching, Current, Under

(* A row leaves the cursor of b, and is copied if it applies; what stays   *)
(* out of always may be given up.                                          *)
LEMMA MatchReads ==
  ASSUME Typed, Reads, NEW b \in Beats, NEW row \in beat[b].rows, NEW found,
         beat[b].pc = "match", PassRow(b, row, found),
         UNCHANGED <<rules, labels, could>>,
         found \subseteq could[b],
         \/ always' = always /\ (row \in always[b] => row \in found)
         \/ always' = [always EXCEPT ![b] = @ \ {row}]
  PROVE  Reads'
<1>1. /\ \A o \in Beats : beat'[o].pc = beat[o].pc /\ beat'[o].box = beat[o].box
      /\ \A o \in Beats \ {b} : beat'[o] = beat[o]
      /\ beat'[b].rows = beat[b].rows \ {row} /\ beat'[b].read = beat[b].read \cup found
      /\ beat'[b].owner = beat[b].owner
  BY DEF Typed, BeatStates, PassRow
<1>2. (Matching(b)' <=> Matching(b)) /\ Current(b)' = Current(b) /\ Under(b)' = Under(b)
  BY <1>1 DEF Matching, Current, Under
<1>3. always'[b] \subseteq always[b] /\ (row \in always'[b] => row \in found)
  BY DEF Typed
<1>4. \A o \in Beats \ {b} : always'[o] = always[o]
  BY DEF Typed
<1>5. ReadsOf(b)'
  <2>1. ReadsOf(b) /\ could'[b] = could[b]
    BY DEF Reads
  <2>2. beat'[b].pc = "match"
    BY <1>1
  <2>3. beat'[b].read \subseteq could'[b] /\ beat'[b].rows \subseteq Under(b)'
    BY <1>1, <1>2, <2>1 DEF ReadsOf
  <2>4. (Matching(b)' => Current(b)' \subseteq could'[b]) /\ (Matching(b)' => always'[b] \subseteq Current(b)')
    BY <1>2, <1>3, <2>1 DEF ReadsOf
  <2>5. always'[b] \subseteq beat'[b].rows \cup beat'[b].read
    BY <1>1, <1>3, <2>1 DEF ReadsOf
  <2> QED BY <2>2, <2>3, <2>4, <2>5 DEF ReadsOf
<1>6. ASSUME NEW o \in Beats \ {b} PROVE ReadsOf(o)'
  BY <1>1, <1>4, SameReads DEF Reads
<1> QED BY <1>5, <1>6 DEF Reads

LEMMA InitReads == RulesInit => Reads
  BY DEF RulesInit, Reads, ReadsOf, NoBeat, Matching

LEMMA NextReads == Typed /\ Reads /\ [RulesNext]_rulesVars => Reads'
<1> SUFFICES ASSUME Typed, Reads, [RulesNext]_rulesVars PROVE Reads'
  OBVIOUS
<1>1. ASSUME NEW user \in Authors, NEW req \in Requests, CreateMetricAlertRule(user, req)
      PROVE  Reads'
  BY <1>1, StoreReads DEF CreateMetricAlertRule
<1>2. ASSUME NEW user \in Authors, NEW id \in RuleIds, NEW req \in Requests,
             UpdateMetricAlertRule(user, id, req)
      PROVE  Reads'
  BY <1>2, StoreReads DEF UpdateMetricAlertRule
<1>3. ASSUME NEW user \in Authors, NEW id \in RuleIds, DeleteMetricAlertRule(user, id)
      PROVE  Reads'
  BY <1>3, StoreReads DEF DeleteMetricAlertRule
<1>4. ASSUME NEW b \in Beats, NEW box \in Boxes, NEW user \in Authors, Bind(b, box, user)
      PROVE  Reads'
  <2>1. /\ rules' = rules /\ labels' = labels /\ beat[b].pc = "idle"
        /\ boxOwner' = [boxOwner EXCEPT ![box] = user]
        /\ beat' = [beat EXCEPT ![b] = [NoBeat EXCEPT !.pc = "tags", !.box = box]]
    BY <1>4 DEF Bind
  <2>2. \A o \in Beats : /\ could'[o] = Could(o, rules', labels')
                         /\ always'[o] = Always(o, rules', labels', boxOwner')
    BY <1>4, <2>1 DEF Bind, Remember
  <2>3. ASSUME NEW o \in Beats \ {b} PROVE ReadsOf(o)'
    <3>1. beat'[o] = beat[o]
      BY <2>1 DEF Typed
    <3> QED BY <2>1, <2>2, <3>1, RememberReads DEF Reads
  <2>4. beat'[b].pc = "tags" /\ beat'[b].read = {}
    BY <2>1 DEF Typed, NoBeat
  <2>5. ReadsOf(b)'
    BY <2>4 DEF ReadsOf, Matching
  <2> QED BY <2>3, <2>5 DEF Reads
<1>5. ASSUME NEW b \in Beats, NEW carried \in SUBSET Labels, UpsertNodeTags(b, carried)
      PROVE  Reads'
  <2>1. /\ UNCHANGED <<rules, boxOwner>> /\ beat[b].pc = "tags"
        /\ beat' = [beat EXCEPT ![b].pc = "owner"]
        /\ \A o \in Beats : could'[o] = Could(o, rules', labels')
        /\ \A o \in Beats \ {b} : always'[o] = Always(o, rules', labels', boxOwner')
    BY <1>5 DEF UpsertNodeTags
  <2>2. ASSUME NEW o \in Beats \ {b} PROVE ReadsOf(o)'
    <3>1. beat'[o] = beat[o]
      BY <2>1 DEF Typed
    <3> QED BY <2>1, <3>1, RememberReads DEF Reads
  <2>3. beat'[b].pc = "owner" /\ beat'[b].read = beat[b].read
    BY <2>1 DEF Typed, BeatStates
  <2>4. beat[b].read = {}
    BY <2>1 DEF Reads, ReadsOf
  <2>5. ReadsOf(b)'
    BY <2>3, <2>4 DEF ReadsOf, Matching
  <2> QED BY <2>2, <2>5 DEF Reads
<1>6. ASSUME NEW b \in Beats, GetNodeOwner(b) PROVE Reads'
  <2> DEFINE box == beat[b].box
             app(owner) == Applying(rules, box, owner, labels[box])
  <2>1. PICK owner :
          /\ beat' = [beat EXCEPT ![b].pc = "rules", ![b].owner = owner]
          /\ could' = [could EXCEPT ![b] = app(owner)]
          /\ always' = [always EXCEPT ![b] = @ \cap app(owner)]
          /\ beat[b].pc = "owner" /\ UNCHANGED <<rules, labels>>
    BY <1>6 DEF GetNodeOwner
  <2>2. /\ beat'[b].pc = "rules" /\ beat'[b].owner = owner /\ beat'[b].box = box
        /\ beat'[b].read = beat[b].read
        /\ \A o \in Beats \ {b} : beat'[o] = beat[o]
    BY <2>1 DEF Typed, BeatStates
  <2>3. beat[b].read = {}
    BY <2>1 DEF Reads, ReadsOf
  <2> HIDE DEF app
  <2>4. /\ could'[b] = app(owner) /\ always'[b] \subseteq app(owner)
        /\ \A o \in Beats \ {b} : could'[o] = could[o] /\ always'[o] = always[o]
    BY <2>1 DEF Typed
  <2>5. Current(b)' = app(owner)
    BY <2>1, <2>2 DEF Current, app
  <2>6. ReadsOf(b)'
    BY <2>2, <2>3, <2>4, <2>5 DEF ReadsOf
  <2>7. ASSUME NEW o \in Beats \ {b} PROVE ReadsOf(o)'
    BY <2>1, <2>2, <2>4, SameReads DEF Reads
  <2> QED BY <2>6, <2>7 DEF Reads
<1>7. ASSUME NEW b \in Beats, MetricsAlertRulesForNode(b) PROVE Reads'
  <2>1. /\ beat' = [beat EXCEPT ![b].pc = "match", ![b].rows = Under(b)] /\ beat[b].pc = "rules"
        /\ UNCHANGED <<rules, labels, could, always>>
    BY <1>7 DEF MetricsAlertRulesForNode, Under
  <2>2. Current(b) \subseteq Under(b)
    BY DEF Current, Applying, Applies, Under
  <2>3. /\ beat'[b].pc = "match" /\ beat'[b].rows = Under(b)
        /\ beat'[b].read = beat[b].read /\ beat'[b].box = beat[b].box
        /\ beat'[b].owner = beat[b].owner
        /\ \A o \in Beats \ {b} : beat'[o] = beat[o]
    BY <2>1 DEF Typed, BeatStates
  <2>4. Current(b)' = Current(b) /\ Under(b)' = Under(b) /\ Matching(b)
    BY <2>1, <2>3 DEF Matching, Current, Under
  <2>5. ReadsOf(b)'
    BY <2>1, <2>2, <2>3, <2>4 DEF Reads, ReadsOf
  <2>6. ASSUME NEW o \in Beats \ {b} PROVE ReadsOf(o)'
    BY <2>1, <2>3, SameReads DEF Reads
  <2> QED BY <2>5, <2>6 DEF Reads
<1>8. ASSUME NEW b \in Beats, RulesUnread(b) PROVE Reads'
  <2>1. /\ beat'[b] = [beat[b] EXCEPT !.pc = "evaluate"] /\ always'[b] = {}
        /\ \A o \in Beats \ {b} : beat'[o] = beat[o] /\ always'[o] = always[o]
        /\ UNCHANGED <<rules, labels, could>>
    BY <1>8 DEF RulesUnread, Typed
  <2>2. /\ beat'[b].pc = "evaluate" /\ beat'[b].read = beat[b].read /\ ~Matching(b)'
    BY <2>1 DEF Typed, BeatStates, Matching
  <2>3. ReadsOf(b)'
    BY <2>1, <2>2 DEF Reads, ReadsOf
  <2>4. ASSUME NEW o \in Beats \ {b} PROVE ReadsOf(o)'
    BY <2>1, SameReads DEF Reads
  <2> QED BY <2>3, <2>4 DEF Reads
<1>9. ASSUME NEW b \in Beats, MatchRow(b) PROVE Reads'
  <2>1. PICK row \in beat[b].rows :
          /\ beat[b].pc = "match"
          /\ PassRow(b, row, {found \in {row} :
               found.scope = "fleet" => nodeMatchesTagSelector(found.selector, labels[beat[b].box])})
    BY <1>9 DEF MatchRow, AtRow
  <2> DEFINE found == {f \in {row} : f.scope = "fleet" => nodeMatchesTagSelector(f.selector, labels[beat[b].box])}
  <2>2. Matching(b) /\ row \in Rows(rules) /\ Selected(row, beat[b].box, beat[b].owner)
    BY <2>1 DEF Matching, Reads, ReadsOf, Under
  <2>3. found \subseteq Current(b)
    BY <2>2 DEF Current, Applying, Applies
  <2>4. row \in Current(b) => row \in found
    BY DEF Current, Applying, Applies
  <2>5. PassRow(b, row, found)
    BY <2>1
  <2> HIDE DEF found
  <2>6. found \subseteq could[b] /\ (row \in always[b] => row \in found)
    BY <2>2, <2>3, <2>4 DEF Reads, ReadsOf
  <2>7. UNCHANGED <<rules, labels, could, always>>
    BY <1>9 DEF MatchRow
  <2> QED BY <2>1, <2>5, <2>6, <2>7, MatchReads
<1>10. ASSUME NEW b \in Beats, RowMisread(b) PROVE Reads'
  <2>1. PICK row \in beat[b].rows :
          /\ beat[b].pc = "match"
          /\ \/ PassRow(b, row, {})
             \/ PassRow(b, row, {f \in {row} : nodeMatchesTagSelector(f.selector, {})})
          /\ always' = [always EXCEPT ![b] = @ \ {row}]
    BY <1>10 DEF RowMisread, AtRow
  <2> DEFINE some == {f \in {row} : nodeMatchesTagSelector(f.selector, {})}
  <2>2. Matching(b) /\ row \in Rows(rules) /\ Selected(row, beat[b].box, beat[b].owner)
    BY <2>1 DEF Matching, Reads, ReadsOf, Under
  <2>3. some \subseteq Current(b)
    BY <2>2, EmptyMatchesAll DEF Current, Applying, Applies
  <2>4. PICK found : PassRow(b, row, found) /\ found \subseteq some
    BY <2>1
  <2> HIDE DEF some
  <2>5. found \subseteq could[b]
    BY <2>2, <2>3, <2>4 DEF Reads, ReadsOf
  <2>6. UNCHANGED <<rules, labels, could>>
    BY <1>10 DEF RowMisread
  <2> QED BY <2>1, <2>4, <2>5, <2>6, MatchReads
<1>11. ASSUME NEW b \in Beats, RulesRead(b) PROVE Reads'
  <2>1. /\ beat'[b] = [beat[b] EXCEPT !.pc = "evaluate", !.rows = {}] /\ beat[b].pc = "match"
        /\ always'[b] = always[b] \ beat[b].rows
        /\ \A o \in Beats \ {b} : beat'[o] = beat[o] /\ always'[o] = always[o]
        /\ UNCHANGED <<rules, labels, could>>
    BY <1>11 DEF RulesRead, Typed
  <2>2. beat'[b].pc = "evaluate" /\ beat'[b].read = beat[b].read /\ ~Matching(b)'
    BY <2>1 DEF Typed, BeatStates, Matching
  <2>3. ReadsOf(b)'
    BY <2>1, <2>2 DEF Reads, ReadsOf
  <2>4. ASSUME NEW o \in Beats \ {b} PROVE ReadsOf(o)'
    BY <2>1, SameReads DEF Reads
  <2> QED BY <2>3, <2>4 DEF Reads
<1>12. ASSUME NEW b \in Beats, EvaluateMetricAlert(b) PROVE Reads'
  <2>1. /\ beat'[b] = NoBeat /\ always'[b] = {} /\ could'[b] = {}
        /\ \A o \in Beats \ {b} : beat'[o] = beat[o] /\ always'[o] = always[o] /\ could'[o] = could[o]
        /\ UNCHANGED <<rules, labels>>
    BY <1>12 DEF EvaluateMetricAlert, Typed
  <2>2. beat'[b].pc = "idle" /\ beat'[b].read = {} /\ ~Matching(b)'
    BY <2>1 DEF NoBeat, Matching
  <2>3. ReadsOf(b)'
    BY <2>1, <2>2 DEF Reads, ReadsOf
  <2>4. ASSUME NEW o \in Beats \ {b} PROVE ReadsOf(o)'
    BY <2>1, SameReads DEF Reads
  <2> QED BY <2>3, <2>4 DEF Reads
<1>13. ASSUME RulesRestart PROVE Reads'
  BY <1>13 DEF RulesRestart, NoBeat, Reads, ReadsOf, Matching
<1>14. ASSUME UNCHANGED rulesVars PROVE Reads'
  BY <1>14, SameReads DEF rulesVars, Reads
<1> QED
  BY <1>1, <1>2, <1>3, <1>4, <1>5, <1>6, <1>7, <1>8, <1>9, <1>10, <1>11, <1>12, <1>13, <1>14
  DEF RulesNext

(* A heartbeat is evaluated against rules as they stood, and applied for   *)
(* the owner it read, at one moment since that read; and it misses none    *)
(* that applied all the while since its labels were stored, however the    *)
(* node changed hands, but for what its own failed reads cost it: for any  *)
(* number of overlapping heartbeats, edits and owners (BindNode,           *)
(* UpsertNodeTags, GetNodeOwner and MetricsAlertRulesForNode).             *)
THEOREM ReadsCorrect == RulesSpec => []EvaluatedAsWritten
<1>1. Typed /\ Reads => EvaluatedAsWritten
  BY DEF Reads, ReadsOf, EvaluatedAsWritten
<1>2. RulesInit => Typed /\ Reads
  BY InitTyped, InitReads
<1>3. Typed /\ Reads /\ [RulesNext]_rulesVars => Typed' /\ Reads'
  BY NextTyped, NextReads
<1> QED BY <1>1, <1>2, <1>3, PTL DEF RulesSpec

(* A rule the page lists, that is enabled and the node owner's own, is one *)
(* that applies for this owner and the labels of now (ListMetricAlertRules *)
(* and MetricsAlertRulesForNode select by conditions of their own).        *)
THEOREM ListedCorrect == RulesSpec => []ListedRulesApply
<1>1. ListedRulesApply
  <2> SUFFICES ASSUME NEW box \in Boxes,
                      NEW row \in ListMetricAlertRules(boxOwner[box], box),
                      row.enabled, row.user = boxOwner[box]
               PROVE  row \in Applying(rules, box, boxOwner[box], labels[box])
    BY DEF ListedRulesApply
  <2>1. row \in Rows(rules) /\ Selected(row, box, boxOwner[box])
    BY DEF ListMetricAlertRules, Selected
  <2>2. row.scope = "fleet" => nodeMatchesTagSelector(row.selector, labels[box])
    BY DEF ListMetricAlertRules
  <2> QED BY <2>1, <2>2 DEF Applying, Applies
<1> QED BY <1>1, PTL

-----------------------------------------------------------------------------
(***************************************************************************)
(* What holds of Maintenance for any set of users, nodes and windows, any  *)
(* cooldown and any length of time.                                        *)
(*                                                                         *)
(* The table of windows may have lost, to the janitor, only what is over,  *)
(* so what operators have declared and what silences agree at every        *)
(* instant (Kept); and the stamp in an incident's row, which a page, a     *)
(* window and a failed read move alike, is never younger than the last     *)
(* page and the last wish for quiet together (Explained).                  *)
(***************************************************************************)
Kept ==
  \A w \in Windows :
    /\ window[w] # NoWindow => declared[w] = window[w]
    /\ window[w] = NoWindow /\ declared[w] # NoWindow => declared[w].end # 0 /\ declared[w].end < Unix

Explained ==
  \A n \in Hosts : alert[n].open => /\ alert[n].last # 0
                                    /\ alert[n].last <= paged[n] \/ alert[n].last <= quiet[n]

Sound == MaintTypeOK /\ Kept /\ Explained

(* What the last step has to answer for.                                   *)
Answered == NoPageInWindow /\ QuietOnlyAsAsked

-----------------------------------------------------------------------------
LEMMA UnixType == ASSUME now \in Instants PROVE Unix \in Nat \ {0} /\ Unix \in Seconds
  BY ClockAssumption DEF Instants, Unix, Seconds

(* While an operator's window lasts it silences, and nothing else does.    *)
LEMMA SilencedAsDeclared ==
  ASSUME Sound, NEW n \in Hosts
  PROVE  IsNodeSilenced(OwnerOf[n], n) <=> InDeclared(n)
<1>1. Unix \in Nat
  BY UnixType DEF Sound, MaintTypeOK
<1>2. ASSUME NEW w \in Present, Active(window[w]), Covers(window[w], OwnerOf[n], n)
      PROVE  InDeclared(n)
  <2>1. w \in Windows /\ declared[w] = window[w] /\ window[w] \in MaintRows /\ window[w] # NoWindow
    BY DEF Present, Sound, Kept, MaintTypeOK
  <2>2. window[w].end \in Nat
    BY <2>1, ClockAssumption DEF MaintRows, Seconds
  <2> QED BY <1>1, <1>2, <2>1, <2>2 DEF InDeclared, Active
<1>3. ASSUME NEW w \in Windows, declared[w] # NoWindow, Covers(declared[w], OwnerOf[n], n),
             declared[w].start <= Unix, declared[w].end = 0 \/ Unix < declared[w].end
      PROVE  IsNodeSilenced(OwnerOf[n], n)
  <2>1. declared[w] \in MaintRows
    BY <1>3 DEF Sound, MaintTypeOK
  <2>2. declared[w].end \in Nat
    BY <2>1, ClockAssumption DEF MaintRows, Seconds
  <2>3. window[w] # NoWindow
    BY <1>1, <1>3, <2>2 DEF Sound, Kept
  <2>4. w \in Present /\ window[w] = declared[w]
    BY <2>3 DEF Present, Sound, Kept
  <2> QED BY <1>1, <1>3, <2>2, <2>4 DEF IsNodeSilenced, Active
<1> QED BY <1>2, <1>3 DEF IsNodeSilenced, InDeclared

LEMMA InitSound == MaintInit => Sound /\ Answered
<1> SUFFICES ASSUME MaintInit PROVE Sound /\ Answered
  OBVIOUS
<1>1. now \in Instants
  BY ClockAssumption DEF MaintInit, ClockInit, Instants
<1>2. 0 \in Seconds /\ 0 \in 0 .. Unix
  BY <1>1, UnixType, ClockAssumption DEF Seconds
<1>3. Closed \in [open : BOOLEAN, last : Seconds, snoozed : Nat] /\ Closed.last = 0 /\ ~Closed.open
  BY <1>2 DEF Closed
<1>4. Quietly \in [host : Hosts \cup {NoHost}, page : BOOLEAN, unread : Unread]
  BY DEF Quietly, Unread
<1>5. MaintTypeOK
  BY <1>1, <1>2, <1>3, <1>4 DEF MaintInit, MaintStarts, MaintTypeOK
<1> QED BY <1>5 DEF MaintInit, MaintStarts, Sound, Kept, Explained, Closed, Quietly, Answered,
                    NoPageInWindow, QuietOnlyAsAsked

(* A step that raises nothing answers for nothing.                         *)
LEMMA QuietAnswers == ASSUME last' = Quietly PROVE Answered'
  BY DEF Quietly, Answered, NoPageInWindow, QuietOnlyAsAsked

(* A step of the operators or the janitor on the windows.                  *)
LEMMA WindowStep ==
  ASSUME Sound, NEW w \in Windows, NEW row \in MaintRows \cup {NoWindow},
         window' = [window EXCEPT ![w] = row], declared' = [declared EXCEPT ![w] = row],
         last' = Quietly, UNCHANGED <<now, alert, notify, quiet, paged>>
  PROVE  Sound'
<1>1. MaintTypeOK'
  BY DEF Sound, MaintTypeOK, Quietly, Unix, Unread
<1>2. Kept'
  BY DEF Sound, Kept, MaintTypeOK, Unix
<1>3. Explained'
  BY DEF Sound, Explained
<1> QED BY <1>1, <1>2, <1>3 DEF Sound

(* A step on the incident of n that leaves the windows alone.              *)
LEMMA AlertStep ==
  ASSUME Sound, NEW n \in Hosts, NEW row \in [open : BOOLEAN, last : Seconds, snoozed : Nat],
         alert' = [alert EXCEPT ![n] = row],
         row.last <= Unix, ~row.open => row = Closed,
         quiet' \in [Hosts -> Seconds], paged' \in [Hosts -> Seconds],
         \A other \in Hosts \ {n} : quiet'[other] = quiet[other] /\ paged'[other] = paged[other],
         quiet'[n] <= Unix, paged'[n] <= Unix,
         row.open => row.last # 0 /\ (row.last <= paged'[n] \/ row.last <= quiet'[n]),
         last' \in [host : Hosts \cup {NoHost}, page : BOOLEAN, unread : Unread],
         UNCHANGED <<now, window, notify, declared>>
  PROVE  Sound'
<1>1. alert'[n] = row /\ \A other \in Hosts \ {n} : alert'[other] = alert[other]
  BY DEF Sound, MaintTypeOK
<1>2. \A other \in Hosts : {alert'[other].last, quiet'[other], paged'[other]} \subseteq 0 .. Unix
  <2>1. \A t \in Seconds : t <= Unix => t \in 0 .. Unix
    BY ClockAssumption, UnixType DEF Seconds, Sound, MaintTypeOK
  <2>2. {alert'[n].last, quiet'[n], paged'[n]} \subseteq 0 .. Unix
    BY <1>1, <2>1
  <2>3. ASSUME NEW other \in Hosts \ {n}
        PROVE  {alert'[other].last, quiet'[other], paged'[other]} \subseteq 0 .. Unix
    BY <1>1 DEF Sound, MaintTypeOK
  <2> QED BY <2>2, <2>3
<1>3. MaintTypeOK'
  BY <1>1, <1>2 DEF Sound, MaintTypeOK, Unix
<1>4. Kept'
  BY DEF Sound, Kept, Unix
<1>5. Explained'
  BY <1>1 DEF Sound, Explained
<1> QED BY <1>3, <1>4, <1>5 DEF Sound

LEMMA NextSound == Sound /\ [MaintNext]_maintVars => Sound'
<1> SUFFICES ASSUME Sound, [MaintNext]_maintVars PROVE Sound'
  OBVIOUS
<1>0. Unix \in Nat \ {0} /\ Unix \in Seconds
  BY UnixType DEF Sound, MaintTypeOK
<1>1. ASSUME NEW w \in Windows, NEW u \in Operators, NEW for \in Scopes, NEW start \in Starts,
             NEW end \in Ends, CreateMaintenanceWindow(w, u, for, start, end)
      PROVE  Sound'
  <2>1. [user |-> u, for |-> for, start |-> start, end |-> end] \in MaintRows
    BY ClockAssumption DEF MaintRows, Starts, Ends, Seconds
  <2> QED BY <1>1, <2>1, WindowStep DEF CreateMaintenanceWindow
<1>2. ASSUME NEW w \in Windows, NEW u \in Operators, CloseMaintenanceWindow(w, u) PROVE Sound'
  <2>1. window[w] \in MaintRows /\ declared[w] = window[w]
    BY <1>2 DEF CloseMaintenanceWindow, Sound, Kept, MaintTypeOK
  <2>2. PICK row : row = [window[w] EXCEPT !.end = Unix]
    OBVIOUS
  <2>3. row \in MaintRows
    BY <1>0, <2>1, <2>2 DEF MaintRows
  <2>4. window' = [window EXCEPT ![w] = row] /\ declared' = [declared EXCEPT ![w] = row]
    BY <1>2, <2>1, <2>2 DEF CloseMaintenanceWindow, Sound, MaintTypeOK
  <2> QED BY <1>2, <2>3, <2>4, WindowStep DEF CloseMaintenanceWindow
<1>3. ASSUME NEW w \in Windows, NEW u \in Operators, DeleteMaintenanceWindow(w, u) PROVE Sound'
  BY <1>3, WindowStep DEF DeleteMaintenanceWindow
<1>4. ASSUME ExpireWindows PROVE Sound'
  <2>1. /\ window' = [w \in Windows |-> IF w \in ExpiredWindows THEN NoWindow ELSE window[w]]
        /\ last' = Quietly /\ UNCHANGED <<now, alert, notify, declared, quiet, paged>>
    BY <1>4 DEF ExpireWindows
  <2>2. \A w \in ExpiredWindows : w \in Windows /\ window[w] # NoWindow
                                   /\ window[w].end # 0 /\ window[w].end < Unix
    BY DEF ExpiredWindows, Present
  <2>3. MaintTypeOK'
    BY <2>1 DEF Sound, MaintTypeOK, Quietly, Unix, Unread
  <2>4. Kept'
    BY <2>1, <2>2 DEF Sound, Kept, Unix
  <2> QED BY <2>1, <2>3, <2>4 DEF Sound, Explained
<1>5. ASSUME NEW u \in Operators, NEW on \in BOOLEAN, UpdateSettings(u, on) PROVE Sound'
  BY <1>5 DEF UpdateSettings, Sound, MaintTypeOK, Kept, Explained, Quietly, Unix, Unread
<1>6. ASSUME NEW n \in Hosts, NEW unread \in Unread, Raise(n, unread) PROVE Sound'
  <2> DEFINE u == IF unread = "owner" THEN Admin ELSE OwnerOf[n]
             page == /\ Due(n)
                     /\ unread # "settings" /\ Wanted(u)
                     /\ unread = "windows" \/ ~IsNodeSilenced(u, n)
             wish == InDeclared(n) \/ ~notify[OwnerOf[n]] \/ alert[n].snoozed > Unix \/ unread # "nothing"
  <2>1. PICK row : row = IF ~alert[n].open THEN [Closed EXCEPT !.open = TRUE, !.last = Unix]
                         ELSE IF Due(n) THEN [alert[n] EXCEPT !.last = Unix] ELSE alert[n]
    OBVIOUS
  <2>2. /\ alert' = [alert EXCEPT ![n] = row]
        /\ last' = [host |-> n, page |-> page, unread |-> unread]
        /\ paged' = IF page THEN [paged EXCEPT ![n] = Unix] ELSE paged
        /\ quiet' = IF wish THEN [quiet EXCEPT ![n] = Unix] ELSE quiet
        /\ UNCHANGED <<now, window, notify, declared>>
    BY <1>6, <2>1 DEF Raise
  <2>3. Due(n) => page \/ wish
    BY SilencedAsDeclared DEF Wanted
  <2>4. page \in BOOLEAN
    BY DEF Due
  <2> HIDE DEF page, wish
  <2>5. alert[n] \in [open : BOOLEAN, last : Seconds, snoozed : Nat] /\ alert[n].last <= Unix
        /\ quiet[n] <= Unix /\ paged[n] <= Unix
    BY <1>0 DEF Sound, MaintTypeOK
  <2>6. row \in [open : BOOLEAN, last : Seconds, snoozed : Nat] /\ row.open
        /\ (IF Due(n) THEN row.last = Unix ELSE row = alert[n])
    BY <1>0, <2>1, <2>5 DEF Closed, Due, Seconds
  <2>7. /\ quiet' \in [Hosts -> Seconds] /\ paged' \in [Hosts -> Seconds]
        /\ \A other \in Hosts \ {n} : quiet'[other] = quiet[other] /\ paged'[other] = paged[other]
        /\ quiet'[n] = IF wish THEN Unix ELSE quiet[n]
        /\ paged'[n] = IF page THEN Unix ELSE paged[n]
    BY <1>0, <2>2 DEF Sound, MaintTypeOK
  <2>8. {row.last, quiet[n], paged[n]} \subseteq Nat
    BY <1>0, <2>6, ClockAssumption DEF Sound, MaintTypeOK, Seconds
  <2>9. row.last <= Unix /\ quiet'[n] <= Unix /\ paged'[n] <= Unix
    BY <1>0, <2>5, <2>6, <2>7
  <2>10. row.last # 0 /\ (row.last <= paged'[n] \/ row.last <= quiet'[n])
    <3>1. CASE Due(n)
      BY <1>0, <2>3, <2>6, <2>7, <3>1
    <3>2. CASE ~Due(n)
      BY <1>0, <2>5, <2>6, <2>7, <2>8, <3>2 DEF Due, Sound, Explained
    <3> QED BY <3>1, <3>2
  <2>11. last' \in [host : Hosts \cup {NoHost}, page : BOOLEAN, unread : Unread]
    BY <2>2, <2>4
  <2> QED BY <2>2, <2>6, <2>7, <2>9, <2>10, <2>11, AlertStep
<1>7. ASSUME NEW n \in Hosts, Resolves(n) PROVE Sound'
  <2>1. PICK row : row = Closed
    OBVIOUS
  <2>2. row \in [open : BOOLEAN, last : Seconds, snoozed : Nat] /\ ~row.open /\ row.last <= Unix
    BY <1>0, <2>1, ClockAssumption DEF Closed, Seconds
  <2>3. quiet'[n] <= Unix /\ paged'[n] <= Unix
    BY <1>7, <1>0 DEF Resolves, Sound, MaintTypeOK
  <2> QED BY <1>7, <2>1, <2>2, <2>3, AlertStep DEF Resolves, Sound, MaintTypeOK, Quietly, Unread
<1>8. ASSUME NEW n \in Hosts, NEW s \in SnoozeChoices, Snooze(n, s) PROVE Sound'
  <2>1. PICK row : row = [alert[n] EXCEPT !.snoozed = Unix + s, !.last = Unix]
    OBVIOUS
  <2>2. Unix + s \in Nat
    BY <1>0, MaintenanceAssumption
  <2>3. row \in [open : BOOLEAN, last : Seconds, snoozed : Nat] /\ row.open /\ row.last = Unix
    BY <1>0, <1>8, <2>1, <2>2 DEF Snooze, Sound, MaintTypeOK
  <2>4. alert' = [alert EXCEPT ![n] = row]
    BY <1>8, <2>1 DEF Snooze, Sound, MaintTypeOK
  <2>5. /\ quiet' \in [Hosts -> Seconds] /\ quiet'[n] = Unix /\ paged'[n] <= Unix
        /\ \A other \in Hosts \ {n} : quiet'[other] = quiet[other]
        /\ paged' = paged /\ paged \in [Hosts -> Seconds]
    BY <1>0, <1>8 DEF Snooze, Sound, MaintTypeOK
  <2>6. /\ last' \in [host : Hosts \cup {NoHost}, page : BOOLEAN, unread : Unread]
        /\ UNCHANGED <<now, window, notify, declared>>
    BY <1>8 DEF Snooze, Quietly, Unread
  <2>7. row.last <= Unix /\ quiet'[n] <= Unix /\ row.last # 0 /\ row.last <= quiet'[n]
    BY <1>0, <2>3, <2>5
  <2>8. paged' \in [Hosts -> Seconds] /\ \A other \in Hosts \ {n} : paged'[other] = paged[other]
    BY <2>5
  <2> QED BY <2>3, <2>4, <2>5, <2>6, <2>7, <2>8, AlertStep
<1>9. ASSUME MaintPasses PROVE Sound'
  <2>1. /\ now' \in Instants /\ Unix' = Unix + 1
        /\ last' = Quietly /\ UNCHANGED <<window, alert, notify, declared, quiet, paged>>
    BY <1>9, ClockAssumption DEF MaintPasses, Passes, Unix, Instants, Sound, MaintTypeOK
  <2>2. \A n \in Hosts : {alert[n].last, quiet[n], paged[n]} \subseteq 0 .. Unix'
    BY <1>0, <2>1 DEF Sound, MaintTypeOK
  <2>3. MaintTypeOK'
    BY <2>1, <2>2 DEF Sound, MaintTypeOK, Quietly, Unread
  <2>4. \A w \in Windows : declared[w] # NoWindow => declared[w].end \in Nat
    BY ClockAssumption DEF Sound, MaintTypeOK, MaintRows, Seconds
  <2>5. Kept'
    BY <1>0, <2>1, <2>4 DEF Sound, Kept
  <2>6. Explained'
    BY <2>1 DEF Sound, Explained
  <2> QED BY <2>3, <2>5, <2>6 DEF Sound
<1>10. ASSUME UNCHANGED maintVars PROVE Sound'
  BY <1>10 DEF maintVars, Sound, MaintTypeOK, Kept, Explained, Unix
<1> QED BY <1>1, <1>2, <1>3, <1>4, <1>5, <1>6, <1>7, <1>8, <1>9, <1>10 DEF MaintNext

(* Windows, incidents and histories keep their types, and no instant in    *)
(* them lies ahead of the clock but the ends of windows and snoozes.       *)
THEOREM MaintTyped == MaintSpec => []MaintTypeOK
<1>1. MaintInit => Sound
  BY InitSound
<1>2. Sound => MaintTypeOK
  BY DEF Sound
<1> QED BY <1>1, <1>2, NextSound, PTL DEF MaintSpec

-----------------------------------------------------------------------------
(* A raised condition is paged, or somebody's wish or a failed read kept   *)
(* it quiet, now or less than a cooldown ago.                              *)
LEMMA RaiseAnswers ==
  ASSUME Sound, NEW n \in Hosts, NEW unread \in Unread, Raise(n, unread)
  PROVE  Answered'
<1> DEFINE u == IF unread = "owner" THEN Admin ELSE OwnerOf[n]
           page == /\ Due(n)
                   /\ unread # "settings" /\ Wanted(u)
                   /\ unread = "windows" \/ ~IsNodeSilenced(u, n)
           wish == InDeclared(n) \/ ~notify[OwnerOf[n]] \/ alert[n].snoozed > Unix \/ unread # "nothing"
<1>1. /\ last' = [host |-> n, page |-> page, unread |-> unread]
      /\ paged' = IF page THEN [paged EXCEPT ![n] = Unix] ELSE paged
      /\ quiet' = IF wish THEN [quiet EXCEPT ![n] = Unix] ELSE quiet
      /\ UNCHANGED <<now, window, notify, declared>>
  BY DEF Raise
<1>2. Due(n) => page \/ wish
  BY SilencedAsDeclared DEF Wanted
<1>3. page /\ unread = "nothing" => ~InDeclared(n)
  BY SilencedAsDeclared
<1>4. InDeclared(n)' <=> InDeclared(n)
  BY <1>1 DEF InDeclared, Unix
<1>5. NoPageInWindow'
  BY <1>1, <1>3, <1>4 DEF NoPageInWindow
<1>6. ~Due(n) => alert[n].open /\ (wish \/ Unix - alert[n].last < PageGap)
  <2>1. Unix \in Nat /\ alert[n].snoozed \in Nat /\ alert[n].last \in Nat
    BY UnixType, ClockAssumption DEF Sound, MaintTypeOK, Seconds
  <2> QED BY <2>1, MaintenanceAssumption DEF Due, Sound, Explained
<1> HIDE DEF page, wish
<1>7. /\ Unix' = Unix /\ Unix \in Nat \ {0} /\ alert[n].last \in Nat
      /\ quiet[n] \in Nat /\ paged[n] \in Nat
      /\ quiet'[n] = IF wish THEN Unix ELSE quiet[n]
      /\ paged'[n] = IF page THEN Unix ELSE paged[n]
  BY <1>1, UnixType, ClockAssumption DEF Unix, Seconds, Sound, MaintTypeOK
<1>8. \/ Unix - paged'[n] < PageGap /\ paged'[n] # 0
      \/ Unix - quiet'[n] < PageGap /\ quiet'[n] # 0
  <2>1. CASE page \/ wish
    BY <1>7, <2>1, MaintenanceAssumption
  <2>2. CASE ~page /\ ~wish
    <3>1. Unix - alert[n].last < PageGap /\ alert[n].last # 0
          /\ (alert[n].last <= paged[n] \/ alert[n].last <= quiet[n])
      BY <1>2, <1>6, <2>2 DEF Sound, Explained
    <3> QED BY <1>7, <2>2, <3>1, MaintenanceAssumption
  <2> QED BY <2>1, <2>2
<1>9. QuietOnlyAsAsked'
  BY <1>1, <1>7, <1>8 DEF QuietOnlyAsAsked
<1> QED BY <1>5, <1>9 DEF Answered

LEMMA NextAnswers == Sound /\ Answered /\ [MaintNext]_maintVars => Answered'
<1> SUFFICES ASSUME Sound, Answered, [MaintNext]_maintVars PROVE Answered'
  OBVIOUS
<1>1. CASE last' = Quietly
  BY <1>1, QuietAnswers
<1>2. ASSUME NEW n \in Hosts, NEW unread \in Unread, Raise(n, unread) PROVE Answered'
  BY <1>2, RaiseAnswers
<1>3. CASE UNCHANGED maintVars
  BY <1>3 DEF maintVars, Answered, NoPageInWindow, QuietOnlyAsAsked, InDeclared, Unix
<1> QED BY <1>1, <1>2, <1>3
  DEF MaintNext, CreateMaintenanceWindow, CloseMaintenanceWindow, DeleteMaintenanceWindow,
      ExpireWindows, UpdateSettings, Resolves, Snooze, MaintPasses

LEMMA AlwaysAnswered == MaintSpec => [](Sound /\ Answered)
  BY InitSound, NextSound, NextAnswers, PTL DEF MaintSpec

(* No page goes out for a node while a window its owner declared lasts,    *)
(* for any number of windows, users and nodes and whenever the janitor     *)
(* runs (isNodeSilencedLocked, janitorTick).                               *)
THEOREM WindowsKept == MaintSpec => []NoPageInWindow
<1>1. Answered => NoPageInWindow
  BY DEF Answered
<1> QED BY <1>1, AlwaysAnswered, PTL

(* A condition that is raised again and again is paged once a cooldown at  *)
(* least, unless its owner wanted quiet or a read failed less than a       *)
(* cooldown ago (CreateIncident, SnoozeIncident, notifyAfterCreate).       *)
THEOREM QuietExplained == MaintSpec => []QuietOnlyAsAsked
<1>1. Answered => QuietOnlyAsAsked
  BY DEF Answered
<1> QED BY <1>1, AlwaysAnswered, PTL

(* What silences a node is public, as active and under its name, and on    *)
(* its owner's list but for windows that start no earlier and fill it; a   *)
(* node that is announced to be in maintenance under names without blanks  *)
(* is silenced: for any limit, windows and names (isNodeSilencedLocked,    *)
(* ListMaintenanceWindows, GetPublicMaintenanceWindows).                   *)
THEOREM SilenceShown == MaintSpec => []SilenceVisible
<1>1. ASSUME NEW w \in Present, NEW n \in Hosts, Active(window[w]), Covers(window[w], OwnerOf[n], n)
      PROVE  Announced(w, n)
  <2>1. StillOpen(window[w])
    BY <1>1 DEF Active, StillOpen
  <2>2. Notice(w) \in GetPublicMaintenanceWindows
    BY <2>1 DEF GetPublicMaintenanceWindows
  <2>3. /\ Notice(w).id = w /\ Notice(w).scope = window[w].for.scope /\ Notice(w).active
        /\ Notice(w).nodes = {TrimSpace[m] : m \in window[w].for.nodes} \ {NoHost}
    BY <1>1 DEF Notice
  <2>4. window[w].for.scope = "user" \/ TrimSpace[n] \in Notice(w).nodes
    BY <1>1, <2>3, MaintenanceAssumption DEF Covers
  <2> QED BY <2>2, <2>3, <2>4 DEF Announced
<1>2. ASSUME NEW w \in Present, NEW n \in Hosts, Active(window[w]), Covers(window[w], OwnerOf[n], n)
      PROVE  Listed(w, OwnerOf[n])
  <2>1. window[w].user = OwnerOf[n] /\ StillOpen(window[w])
    BY <1>2 DEF Covers, Active, StillOpen
  <2> DEFINE asked == {v \in Present : (OwnerOf[n] = Admin \/ window[v].user = OwnerOf[n])
                                         /\ (FALSE \/ StillOpen(window[v]))}
  <2>2. w \in asked
    BY <2>1
  <2> HIDE DEF asked
  <2>3. ASSUME NEW list \in ListMaintenanceWindows(OwnerOf[n], FALSE), w \notin list
        PROVE  Cardinality(list) = MaxListed /\ \A v \in list : window[v].start >= window[w].start
    <3>1. /\ list = asked \/ Cardinality(list) = MaxListed
          /\ \A v \in list, other \in asked \ list : window[other].start <= window[v].start
      BY DEF ListMaintenanceWindows, asked
    <3>2. \A v \in list : window[w].start <= window[v].start
      BY <2>2, <2>3, <3>1
    <3>3. \A v \in list : window[v].start >= window[w].start
      BY <3>2
    <3> QED BY <2>2, <2>3, <3>1, <3>3
  <2> QED BY <2>3 DEF Listed
<1>3. ASSUME NEW w \in Present, NEW n \in Hosts, Announced(w, n), window[w].user = OwnerOf[n],
             \A name \in window[w].for.nodes \cup {n} : TrimSpace[name] = name
      PROVE  IsNodeSilenced(OwnerOf[n], n)
  <2>1. PICK notice \in GetPublicMaintenanceWindows :
          notice.id = w /\ notice.active /\ (notice.scope = "user" \/ TrimSpace[n] \in notice.nodes)
    BY <1>3 DEF Announced
  <2>2. PICK v \in Present : notice = Notice(v)
    BY DEF GetPublicMaintenanceWindows
  <2>3. /\ v = w /\ Active(window[w])
        /\ window[w].for.scope = "user" \/ TrimSpace[n] \in {TrimSpace[m] : m \in window[w].for.nodes}
    BY <2>1, <2>2 DEF Notice
  <2>4. window[w].for.scope = "user" \/ n \in window[w].for.nodes
    BY <1>3, <2>3
  <2> QED BY <1>3, <2>3, <2>4 DEF IsNodeSilenced, Covers
<1>4. SilenceVisible
  BY <1>1, <1>2, <1>3 DEF SilenceVisible
<1> QED BY <1>4, PTL

-----------------------------------------------------------------------------
(***************************************************************************)
(* What holds of AutoHeal for any targets, strategies and mix of outcomes. *)
(***************************************************************************)
BreakerStates == [last : Instants, failures : SUBSET Instants, crashes : SUBSET Instants, until : Nat]
AgentStates == [pc : {"idle", "command", "execute"}, todo : SUBSET Targets,
                target : Targets \cup {NoTarget}]

(* What a breaker counts did happen, and lies behind its clock.            *)
Remembers(k) ==
  /\ breaker[k].failures \cup breaker[k].crashes \subseteq failed[k]
  /\ \A f \in failed[k] : f <= breaker[k].last
  /\ breaker[k].last <= now

(* A failing restart the breaker no longer counts is older than OpenFor,   *)
(* or will be when the circuit closes.                                     *)
Accounted(k) ==
  \A f \in failed[k] \ breaker[k].failures :
    f + OpenFor[k] <= now \/ (breaker[k].until # 0 /\ f + OpenFor[k] <= breaker[k].until)

BelowLimit(k) == Cardinality(breaker[k].failures) < BurstLimit[k]

(* The loop runs a command only once the circuit is closed and every       *)
(* failure of the target lies before this instant.                         *)
Executing ==
  agent.pc = "execute" =>
    /\ breaker[agent.target].until = 0
    /\ \A f \in failed[agent.target] : f < now

(* 0 stands for no instant.                                                *)
AfterZero == now # 0 /\ \A k \in Targets : 0 \notin failed[k]

HealInv ==
  /\ HealTypeOK
  /\ \A k \in Targets : Remembers(k) /\ Accounted(k) /\ BelowLimit(k)
  /\ Executing
  /\ AfterZero

LEMMA InstantsFinite ==
  ASSUME NEW S \in SUBSET Instants
  PROVE  IsFiniteSet(S) /\ Cardinality(S) \in Nat
<1>1. IsFiniteSet(Instants)
  BY ClockAssumption, FS_Interval DEF Instants
<1> QED BY <1>1, FS_Subset, FS_CardinalityType

LEMMA Fewer ==
  ASSUME NEW S \in SUBSET Instants, NEW T \in SUBSET S
  PROVE  Cardinality(T) <= Cardinality(S)
BY InstantsFinite, FS_Subset

LEMMA OneMore ==
  ASSUME NEW S \in SUBSET Instants, NEW t \in Instants
  PROVE  Cardinality(S \cup {t}) <= Cardinality(S) + 1
BY InstantsFinite, FS_AddElement

LEMMA HealInitInv == HealInit => HealInv
<1> SUFFICES ASSUME HealInit PROVE HealInv
  OBVIOUS
<1>1. now \in Instants /\ 0 \in Instants /\ now = 1
  BY ClockAssumption DEF HealInit, Instants
<1>2. HealTypeOK
  BY <1>1, StrategyAssumption DEF HealInit, HealStarts, HealTypeOK, NewBreaker, IdleAgent
<1>3. ASSUME NEW k \in Targets PROVE Remembers(k) /\ Accounted(k) /\ BelowLimit(k)
  <2>1. breaker[k].failures = {} /\ breaker[k].crashes = {} /\ breaker[k].last = 0 /\ failed[k] = {}
    BY DEF HealInit, HealStarts, NewBreaker
  <2>2. BurstLimit[k] \in Nat \ {0} /\ Cardinality({}) = 0
    BY StrategyAssumption, FS_EmptySet
  <2> QED BY <1>1, <2>1, <2>2 DEF Remembers, Accounted, BelowLimit
<1> QED BY <1>1, <1>2, <1>3 DEF HealInv, HealInit, HealStarts, Executing, IdleAgent, AfterZero

(* Rewriting the breaker and the failures of one target.                   *)
LEMMA MoveBreaker ==
  ASSUME HealInv, NEW k \in Targets, NEW b \in BreakerStates, NEW f \in SUBSET Instants,
         now' = now, breaker' = [breaker EXCEPT ![k] = b], failed' = [failed EXCEPT ![k] = f],
         b.failures \cup b.crashes \subseteq f,
         \A t \in f : t <= b.last, b.last <= now,
         \A t \in f \ b.failures : t + OpenFor[k] <= now \/ (b.until # 0 /\ t + OpenFor[k] <= b.until),
         Cardinality(b.failures) < BurstLimit[k],
         0 \notin f, active' \subseteq Targets, agent' \in AgentStates,
         agent'.pc = "execute" <=> agent'.target # NoTarget,
         agent'.pc = "idle" => agent'.todo = {},
         agent'.pc = "execute" => agent'.target = k /\ b.until = 0 /\ \A t \in f : t < now
  PROVE  HealInv'
<1>1. breaker'[k] = b /\ failed'[k] = f
  BY DEF HealInv, HealTypeOK
<1>2. \A j \in Targets \ {k} : breaker'[j] = breaker[j] /\ failed'[j] = failed[j]
  BY DEF HealInv, HealTypeOK
<1>3. HealTypeOK'
  BY DEF HealInv, HealTypeOK, BreakerStates, AgentStates, Instants
<1>4. ASSUME NEW j \in Targets PROVE (Remembers(j) /\ Accounted(j) /\ BelowLimit(j))'
  BY <1>1, <1>2 DEF HealInv, Remembers, Accounted, BelowLimit
<1>5. Executing'
  BY <1>1 DEF Executing
<1>6. AfterZero'
  BY <1>1, <1>2 DEF HealInv, AfterZero
<1> QED BY <1>3, <1>4, <1>5, <1>6 DEF HealInv

-----------------------------------------------------------------------------
(* What Record and RecordCrash make of a breaker when a restart ends.      *)
LEMMA Recorded ==
  ASSUME HealInv, agent.pc = "execute", NEW k \in Targets, k = agent.target,
         NEW outcome \in Outcomes, NEW r, r = Record(k, breaker[k], outcome),
         NEW f, f = failed[k] \cup IF outcome = "ok" THEN {} ELSE {now}
  PROVE  /\ f \in SUBSET Instants
         /\ r \in BreakerStates /\ r.last = now /\ r.crashes = breaker[k].crashes
         /\ r.failures \cup r.crashes \subseteq f
         /\ \A t \in f : t <= now
         /\ \A t \in f \ r.failures : t + OpenFor[k] <= now \/ (r.until # 0 /\ t + OpenFor[k] <= r.until)
         /\ Cardinality(r.failures) < BurstLimit[k]
         /\ r.until # 0 => r.until = now + OpenFor[k]
         /\ r.until # 0 => Cardinality(Recent(k, f)) >= BurstLimit[k]
<1> DEFINE g == Recent(k, breaker[k].failures \cup IF outcome = "ok" THEN {} ELSE {now})
<1>1. /\ breaker[k] \in BreakerStates /\ failed[k] \subseteq Instants /\ now \in Instants
      /\ Instants \subseteq Nat
      /\ BurstWindow[k] \in Nat \ {0} /\ OpenFor[k] \in Nat \ {0} /\ BurstLimit[k] \in Nat \ {0}
      /\ OpenFor[k] <= BurstWindow[k]
  BY StrategyAssumption, ClockAssumption DEF HealInv, HealTypeOK, BreakerStates, Instants
<1>2. /\ breaker[k].until = 0 /\ \A t \in failed[k] : t < now
      /\ breaker[k].failures \cup breaker[k].crashes \subseteq failed[k]
      /\ \A t \in failed[k] \ breaker[k].failures : t + OpenFor[k] <= now
  BY <1>1 DEF HealInv, Executing, Remembers, Accounted
<1>3. f \in SUBSET Instants /\ (\A t \in f : t <= now) /\ breaker[k].failures \cup breaker[k].crashes \subseteq f
  <2>1. failed[k] \subseteq f /\ f \subseteq failed[k] \cup {now}
    OBVIOUS
  <2>2. now \in Nat /\ now <= now
    BY <1>1
  <2>3. ASSUME NEW t \in failed[k] PROVE t <= now
    <3>1. t \in Nat /\ t < now
      BY <1>1, <1>2
    <3> QED BY <2>2, <3>1
  <2> QED BY <1>1, <1>2, <2>1, <2>2, <2>3
<1>4. g \subseteq f /\ g \subseteq Recent(k, f) /\ g \subseteq Instants
  BY <1>1, <1>2, <1>3 DEF Recent
<1>5. \A t \in f \ g : t + OpenFor[k] <= now
  <2> SUFFICES ASSUME NEW t \in f \ g PROVE t + OpenFor[k] <= now
    OBVIOUS
  <2>1. t \in Nat /\ now \in Nat
    BY <1>1, <1>3
  <2>2. CASE t \in breaker[k].failures \cup IF outcome = "ok" THEN {} ELSE {now}
    BY <1>1, <2>1, <2>2 DEF Recent
  <2>3. CASE t \in failed[k] \ breaker[k].failures
    BY <1>2, <2>3
  <2> QED BY <2>2, <2>3
<1>6. /\ Cardinality(g) \in Nat /\ Cardinality({}) = 0
      /\ Cardinality(g) <= Cardinality(Recent(k, f)) /\ Cardinality(Recent(k, f)) \in Nat
  <2>1. Recent(k, f) \subseteq Instants
    BY <1>3 DEF Recent
  <2> QED BY <1>4, <2>1, InstantsFinite, Fewer, FS_EmptySet
<1>7. r = IF Cardinality(g) >= BurstLimit[k]
          THEN [breaker[k] EXCEPT !.last = now, !.until = now + OpenFor[k], !.failures = {}]
          ELSE [breaker[k] EXCEPT !.last = now, !.failures = g]
  BY DEF Record
<1> HIDE DEF g
<1>8. CASE Cardinality(g) >= BurstLimit[k]
  <2>0. now + OpenFor[k] \in Nat /\ {} \in SUBSET Instants
    BY <1>1
  <2>1. /\ r.last = now /\ r.until = now + OpenFor[k] /\ r.failures = {} /\ r.crashes = breaker[k].crashes
        /\ r \in BreakerStates
    BY <1>1, <1>7, <1>8, <2>0 DEF BreakerStates
  <2>2. r.until # 0 /\ \A t \in f : t + OpenFor[k] <= r.until
    BY <1>1, <1>3, <2>1
  <2>3. now + OpenFor[k] <= r.until /\ Cardinality(r.failures) < BurstLimit[k]
        /\ Cardinality(Recent(k, f)) >= BurstLimit[k]
    BY <1>1, <1>6, <1>8, <2>0, <2>1
  <2>4. r.failures \cup r.crashes \subseteq f
    BY <1>3, <2>1
  <2>5. \A t \in f \ r.failures : t + OpenFor[k] <= now \/ (r.until # 0 /\ t + OpenFor[k] <= r.until)
    BY <2>2
  <2>6. /\ Cardinality(r.failures) < BurstLimit[k]
        /\ r.until # 0 => r.until = now + OpenFor[k]
        /\ r.until # 0 => Cardinality(Recent(k, f)) >= BurstLimit[k]
    BY <2>1, <2>3
  <2>7. /\ f \in SUBSET Instants
        /\ r \in BreakerStates /\ r.last = now /\ r.crashes = breaker[k].crashes
        /\ \A t \in f : t <= now
    BY <1>3, <2>1
  <2> QED BY <2>4, <2>5, <2>6, <2>7
<1>9. CASE ~(Cardinality(g) >= BurstLimit[k])
  <2>a. r = [breaker[k] EXCEPT !.last = now, !.failures = g] /\ g \in SUBSET Instants
    BY <1>4, <1>7, <1>9
  <2>b. breaker[k] \in BreakerStates /\ breaker[k].until = 0 /\ now \in Instants
    BY <1>1, <1>2
  <2>1. /\ r.last = now /\ r.until = 0 /\ r.failures = g /\ r.crashes = breaker[k].crashes
        /\ r \in BreakerStates
    BY <2>a, <2>b DEF BreakerStates
  <2>2. \A t \in f \ r.failures : t + OpenFor[k] <= now \/ (r.until # 0 /\ t + OpenFor[k] <= r.until)
    BY <1>5, <2>1
  <2>3. /\ Cardinality(r.failures) < BurstLimit[k] /\ r.until = 0
        /\ r.failures \cup r.crashes \subseteq f
    <3>1. Cardinality(g) < BurstLimit[k]
      BY <1>1, <1>6, <1>9
    <3>2. breaker[k].crashes \subseteq f /\ g \subseteq f
      BY <1>3, <1>4
    <3> QED BY <2>1, <3>1, <3>2
  <2>4. /\ f \in SUBSET Instants
        /\ r \in BreakerStates /\ r.last = now /\ r.crashes = breaker[k].crashes
        /\ \A t \in f : t <= now
    BY <1>3, <2>1
  <2> QED BY <2>2, <2>3, <2>4
<1> QED BY <1>8, <1>9

LEMMA CrashRecorded ==
  ASSUME HealInv, agent.pc = "execute", NEW k \in Targets, k = agent.target,
         NEW r, r = Record(k, breaker[k], "down"), NEW f, f = failed[k] \cup {now},
         NEW c, c = RecordCrash(k, r)
  PROVE  /\ f \in SUBSET Instants
         /\ c \in BreakerStates /\ c.last = now
         /\ c.failures \cup c.crashes \subseteq f
         /\ \A t \in f : t <= now
         /\ \A t \in f \ c.failures : t + OpenFor[k] <= now \/ (c.until # 0 /\ t + OpenFor[k] <= c.until)
         /\ Cardinality(c.failures) < BurstLimit[k]
         /\ c.until # 0 => Cardinality(Recent(k, f)) >= BurstLimit[k]
<1> DEFINE g == Recent(k, r.crashes) \cup {now}
<1>1. /\ now \in Instants /\ Instants \subseteq Nat
      /\ BurstWindow[k] \in Nat \ {0} /\ OpenFor[k] \in Nat \ {0} /\ BurstLimit[k] \in Nat \ {0}
  BY StrategyAssumption, ClockAssumption DEF HealInv, HealTypeOK, Instants
<1>2. /\ f \in SUBSET Instants
      /\ r \in BreakerStates /\ r.last = now
      /\ r.failures \cup r.crashes \subseteq f
      /\ \A t \in f : t <= now
      /\ \A t \in f \ r.failures : t + OpenFor[k] <= now \/ (r.until # 0 /\ t + OpenFor[k] <= r.until)
      /\ Cardinality(r.failures) < BurstLimit[k]
      /\ r.until # 0 => r.until = now + OpenFor[k]
      /\ r.until # 0 => Cardinality(Recent(k, f)) >= BurstLimit[k]
  <2>1. "down" \in Outcomes /\ f = failed[k] \cup IF "down" = "ok" THEN {} ELSE {now}
    BY DEF Outcomes
  <2> QED BY <2>1, Recorded
<1>3. g \subseteq f /\ g \subseteq Recent(k, f) /\ g \subseteq Instants
  BY <1>1, <1>2 DEF Recent
<1>4. Cardinality(g) \in Nat /\ Cardinality(g) <= Cardinality(Recent(k, f)) /\ Cardinality(Recent(k, f)) \in Nat
  <2>1. Recent(k, f) \subseteq Instants
    BY <1>2 DEF Recent
  <2> QED BY <1>3, <2>1, InstantsFinite, Fewer
<1>5. c = IF Cardinality(g) >= BurstLimit[k]
          THEN [r EXCEPT !.until = now + OpenFor[k], !.crashes = {}]
          ELSE [r EXCEPT !.crashes = g]
  BY DEF RecordCrash
<1> HIDE DEF g
<1>6. CASE Cardinality(g) >= BurstLimit[k]
  <2>0. now + OpenFor[k] \in Nat /\ {} \in SUBSET Instants
    BY <1>1
  <2>a. c = [r EXCEPT !.until = now + OpenFor[k], !.crashes = {}]
    BY <1>5, <1>6
  <2>b. r \in BreakerStates /\ r.last = now
    BY <1>2
  <2>1. /\ c.last = now /\ c.until = now + OpenFor[k] /\ c.failures = r.failures /\ c.crashes = {}
        /\ c \in BreakerStates
    BY <2>a, <2>b, <2>0 DEF BreakerStates
  <2>2. c.until # 0 /\ \A t \in f : t + OpenFor[k] <= c.until
    BY <1>1, <1>2, <2>1
  <2> QED BY <1>1, <1>2, <1>4, <1>6, <2>1, <2>2
<1>7. CASE ~(Cardinality(g) >= BurstLimit[k])
  <2>1. /\ c.last = now /\ c.until = r.until /\ c.failures = r.failures /\ c.crashes = g
        /\ c \in BreakerStates
    BY <1>1, <1>2, <1>3, <1>5, <1>7 DEF BreakerStates
  <2> QED BY <1>2, <1>3, <2>1
<1> QED BY <1>6, <1>7

LEMMA HealStep == HealInv /\ [HealNext]_healVars => HealInv'
<1> SUFFICES ASSUME HealInv, [HealNext]_healVars PROVE HealInv'
  OBVIOUS
<1>0. /\ HealTypeOK
      /\ now \in Instants /\ Instants \subseteq Nat /\ 0 \in Instants
      /\ breaker \in [Targets -> BreakerStates] /\ agent \in AgentStates
      /\ failed \in [Targets -> SUBSET Instants]
  BY ClockAssumption DEF HealInv, HealTypeOK, BreakerStates, AgentStates, Instants
<1>1. ASSUME Heartbeat PROVE HealInv'
  <2>1. agent' \in AgentStates /\ agent'.pc = "command" /\ agent'.target = NoTarget
    BY <1>1 DEF Heartbeat, IdleAgent, AgentStates
  <2> QED
    BY <1>1, <2>1 DEF Heartbeat, HealInv, HealTypeOK, AgentStates, Remembers, Accounted, BelowLimit, Executing, AfterZero
<1>2. ASSUME Sleep PROVE HealInv'
  BY <1>2 DEF Sleep, IdleAgent, HealInv, HealTypeOK, Remembers, Accounted, BelowLimit, Executing, AfterZero
<1>3. ASSUME NEW k \in Targets, Decide(k) PROVE HealInv'
  <2> DEFINE b == AfterAllow(k)
  <2>1. /\ breaker[k] \in BreakerStates /\ failed[k] \in SUBSET Instants
        /\ OpenFor[k] \in Nat \ {0} /\ Cooldown[k] \in Nat \ {0} /\ BurstWindow[k] \in Nat \ {0}
        /\ OpenFor[k] <= BurstWindow[k] /\ now \in Nat
        /\ Remembers(k) /\ Accounted(k) /\ BelowLimit(k)
    BY <1>0, StrategyAssumption DEF HealInv
  <2>2. /\ Purged(k) \in BreakerStates /\ Purged(k).last = breaker[k].last /\ Purged(k).until = breaker[k].until
        /\ Purged(k).failures = Recent(k, breaker[k].failures)
        /\ Purged(k).crashes = Recent(k, breaker[k].crashes)
    BY <2>1 DEF Purged, BreakerStates, Recent
  <2>3. /\ b \in BreakerStates
        /\ b.failures = Recent(k, breaker[k].failures) /\ b.crashes = Recent(k, breaker[k].crashes)
        /\ b.last \in {breaker[k].last, now}
        /\ b.until = breaker[k].until \/ (b.until = 0 /\ ~IsOpen(k))
        /\ Allowed(k) => b.until = 0 /\ b.last = now
    BY <1>0, <2>2 DEF AfterAllow, Allowed, BreakerStates
  <2>4. breaker' = [breaker EXCEPT ![k] = b] /\ failed' = [failed EXCEPT ![k] = failed[k]]
        /\ now' = now /\ active' = active /\ active \subseteq Targets
    BY <1>0, <1>3 DEF Decide, HealTypeOK
  <2>5. /\ agent' \in AgentStates
        /\ agent'.pc = (IF Allowed(k) THEN "execute" ELSE "command")
        /\ agent'.target = (IF Allowed(k) THEN k ELSE NoTarget)
    BY <1>0, <1>3 DEF Decide, AgentStates
  <2>6. agent'.pc = "execute" <=> agent'.target # NoTarget
    BY <2>5, StrategyAssumption
  <2>7. b.failures \cup b.crashes \subseteq failed[k]
    BY <2>1, <2>3 DEF Remembers, Recent
  <2>8. \A t \in failed[k] : t <= b.last
    <3> SUFFICES ASSUME NEW t \in failed[k] PROVE t <= b.last
      OBVIOUS
    <3>1. t \in Nat /\ breaker[k].last \in Nat /\ t <= breaker[k].last /\ breaker[k].last <= now
      BY <1>0, <2>1 DEF Remembers, BreakerStates
    <3> QED BY <2>1, <2>3, <3>1
  <2>9. ASSUME NEW t \in failed[k] \ b.failures
        PROVE  t + OpenFor[k] <= now \/ (b.until # 0 /\ t + OpenFor[k] <= b.until)
    <3>1. t \in Nat /\ breaker[k].until \in Nat
      BY <1>0, <2>1 DEF BreakerStates
    <3>2. CASE t \in breaker[k].failures
      BY <2>1, <2>3, <3>1, <3>2 DEF Recent
    <3>3. CASE t \notin breaker[k].failures
      BY <2>1, <2>3, <3>1, <3>3 DEF Accounted, IsOpen
    <3> QED BY <3>2, <3>3
  <2>10. Cardinality(b.failures) < BurstLimit[k]
    <3>1. b.failures \subseteq breaker[k].failures /\ breaker[k].failures \subseteq Instants
      BY <2>1, <2>3 DEF Recent, BreakerStates
    <3>2. Cardinality(b.failures) <= Cardinality(breaker[k].failures)
      BY <3>1, Fewer
    <3>3. Cardinality(b.failures) \in Nat /\ Cardinality(breaker[k].failures) \in Nat
      BY <3>1, InstantsFinite
    <3> QED BY <2>1, <3>2, <3>3, StrategyAssumption DEF BelowLimit
  <2>11. ASSUME Allowed(k), NEW t \in failed[k] PROVE t < now
    <3>1. /\ t \in Nat \ {0} /\ breaker[k].last \in Nat
          /\ t <= breaker[k].last /\ breaker[k].last <= now
      BY <1>0, <2>1 DEF Remembers, BreakerStates, HealInv, AfterZero
    <3>2. breaker[k].last = 0 \/ now - breaker[k].last >= Cooldown[k]
      BY <1>0, <2>1, <2>11, <3>1 DEF Allowed, CoolingDown
    <3> QED BY <2>1, <3>1, <3>2
  <2>12. b.last <= now
    BY <1>0, <2>1, <2>3 DEF Remembers
  <2>13. 0 \notin failed[k]
    BY DEF HealInv, AfterZero
  <2> HIDE DEF b
  <2> QED BY <2>1, <2>3, <2>13, <2>4, <2>5, <2>6, <2>7, <2>8, <2>9, <2>10, <2>11, <2>12, MoveBreaker
<1>4. ASSUME NEW k \in Targets, Change(k) PROVE HealInv'
  BY <1>4 DEF Change, HealInv, HealTypeOK, Remembers, Accounted, BelowLimit, Executing, AfterZero
<1>5. ASSUME NEW outcome \in Outcomes, Execute(outcome) PROVE HealInv'
  <2>1. PICK k \in Targets : k = agent.target
    BY <1>0, <1>5 DEF Execute, HealTypeOK, AgentStates
  <2>2. PICK f : f = failed[k] \cup IF outcome = "ok" THEN {} ELSE {now}
    OBVIOUS
  <2>3. PICK r : r = Record(k, breaker[k], outcome)
    OBVIOUS
  <2>4. PICK b : b = IF outcome = "down" THEN RecordCrash(k, r) ELSE r
    OBVIOUS
  <2>5. /\ f \in SUBSET Instants
        /\ b \in BreakerStates /\ b.last = now
        /\ b.failures \cup b.crashes \subseteq f
        /\ \A t \in f : t <= now
        /\ \A t \in f \ b.failures : t + OpenFor[k] <= now \/ (b.until # 0 /\ t + OpenFor[k] <= b.until)
        /\ Cardinality(b.failures) < BurstLimit[k]
    <3>1. agent.pc = "execute"
      BY <1>5 DEF Execute
    <3>2. CASE outcome = "down"
      BY <2>1, <2>2, <2>3, <2>4, <3>1, <3>2, CrashRecorded
    <3>3. CASE outcome # "down"
      BY <2>1, <2>2, <2>3, <2>4, <3>1, <3>3, Recorded
    <3> QED BY <3>2, <3>3
  <2>6. /\ breaker' = [breaker EXCEPT ![k] = b] /\ failed' = [failed EXCEPT ![k] = f]
        /\ now' = now /\ active' \subseteq Targets
    BY <1>0, <1>5, <2>1, <2>2, <2>3, <2>4 DEF Execute, HealTypeOK
  <2>7. agent' \in AgentStates /\ agent'.pc = "command" /\ agent'.target = NoTarget
    BY <1>0, <1>5 DEF Execute, AgentStates
  <2>8. b.last <= now /\ 0 \notin f
    BY <1>0, <2>2, <2>5 DEF HealInv, AfterZero
  <2> QED BY <2>5, <2>6, <2>7, <2>8, MoveBreaker
<1>6. ASSUME HealTick PROVE HealInv'
  <2>1. now' = now + 1 /\ now' \in Instants /\ UNCHANGED <<active, breaker, agent, failed>>
    BY <1>0, <1>6, ClockAssumption DEF HealTick, Passes, Instants
  <2>2. ASSUME NEW k \in Targets PROVE (Remembers(k) /\ Accounted(k) /\ BelowLimit(k))'
    <3>1. /\ failed[k] \subseteq Nat /\ breaker[k].last \in Nat /\ now \in Nat /\ OpenFor[k] \in Nat
          /\ Remembers(k) /\ Accounted(k) /\ BelowLimit(k)
      BY <1>0, StrategyAssumption DEF HealInv, BreakerStates
    <3> QED BY <2>1, <3>1 DEF Remembers, Accounted, BelowLimit
  <2>3. Executing'
    <3>1. \A k \in Targets : failed[k] \subseteq Nat
      BY <1>0
    <3>2. agent.pc = "execute" => agent.target \in Targets
      BY <1>0 DEF HealTypeOK, AgentStates
    <3> QED BY <1>0, <2>1, <3>1, <3>2 DEF HealInv, Executing
  <2>4. HealTypeOK'
    BY <1>0, <2>1 DEF HealTypeOK, BreakerStates, AgentStates, Instants
  <2>5. AfterZero'
    BY <1>0, <2>1 DEF HealInv, AfterZero
  <2> QED BY <2>2, <2>3, <2>4, <2>5 DEF HealInv
<1>7. ASSUME AgentRestart PROVE HealInv'
  <2>1. /\ breaker' = [k \in Targets |-> NewBreaker] /\ failed' = [k \in Targets |-> {}]
        /\ agent' = IdleAgent /\ now' = now /\ active' = active
    BY <1>7 DEF AgentRestart
  <2>2. ASSUME NEW k \in Targets PROVE (Remembers(k) /\ Accounted(k) /\ BelowLimit(k))'
    <3>1. /\ breaker'[k].failures = {} /\ breaker'[k].crashes = {} /\ breaker'[k].last = 0
          /\ failed'[k] = {} /\ now' \in Nat
      BY <1>0, <2>1 DEF NewBreaker
    <3>2. BurstLimit[k] \in Nat \ {0} /\ Cardinality({}) = 0
      BY StrategyAssumption, FS_EmptySet
    <3> QED BY <3>1, <3>2 DEF Remembers, Accounted, BelowLimit
  <2>3. HealTypeOK'
    BY <1>0, <2>1 DEF HealTypeOK, NewBreaker, IdleAgent, Instants
  <2> QED BY <2>1, <2>2, <2>3 DEF HealInv, Executing, AfterZero, IdleAgent
<1>8. ASSUME UNCHANGED healVars PROVE HealInv'
  BY <1>8 DEF healVars, HealInv, HealTypeOK, Remembers, Accounted, BelowLimit, Executing, AfterZero, Instants
<1> QED BY <1>1, <1>2, <1>3, <1>4, <1>5, <1>6, <1>7, <1>8 DEF HealNext

(* Breakers, windows and the loop keep their types.                        *)
THEOREM HealTyped == HealSpec => []HealTypeOK
<1>1. HealInv => HealTypeOK
  BY DEF HealInv
<1> QED BY <1>1, HealInitInv, HealStep, PTL DEF HealSpec

-----------------------------------------------------------------------------
(* Failing restarts of k in the window of OpenFor that begins at t.        *)
InSpan(k, t) == {f \in failed[k] : t <= f /\ f < t + OpenFor[k]}

(* The step that adds a failure adds it to a window that holds, besides    *)
(* it, only failures the closed breaker still counts.                      *)
LEMMA RateStep == HealInv /\ RateBounded /\ [HealNext]_healVars => RateBounded'
<1> SUFFICES ASSUME HealInv, RateBounded, [HealNext]_healVars, NEW k \in Targets, NEW t \in Instants
             PROVE  Cardinality(InSpan(k, t)') <= BurstLimit[k]
  BY DEF RateBounded, InSpan, Instants
<1>0. /\ now \in Instants /\ Instants \subseteq Nat /\ failed[k] \in SUBSET Instants /\ InSpan(k, t) \in SUBSET Instants
      /\ BurstLimit[k] \in Nat \ {0} /\ OpenFor[k] \in Nat \ {0}
      /\ Cardinality(InSpan(k, t)) <= BurstLimit[k]
  BY StrategyAssumption, ClockAssumption DEF HealInv, HealTypeOK, RateBounded, InSpan, Instants
<1>1. CASE failed'[k] \subseteq failed[k]
  <2>1. InSpan(k, t)' \subseteq InSpan(k, t)
    BY <1>1 DEF InSpan
  <2>2. Cardinality(InSpan(k, t)') <= Cardinality(InSpan(k, t))
    BY <1>0, <2>1, Fewer
  <2>3. Cardinality(InSpan(k, t)') \in Nat /\ Cardinality(InSpan(k, t)) \in Nat
    BY <1>0, <2>1, InstantsFinite
  <2> QED BY <1>0, <2>2, <2>3
<1>2. CASE agent.pc = "execute" /\ agent.target = k /\ failed'[k] = failed[k] \cup {now}
  <2>1. CASE now \notin InSpan(k, t)'
    <3>1. InSpan(k, t)' = InSpan(k, t)
      BY <1>2, <2>1 DEF InSpan
    <3> QED BY <1>0, <3>1
  <2>2. CASE now \in InSpan(k, t)'
    <3>1. t <= now /\ now < t + OpenFor[k]
      BY <2>2 DEF InSpan
    <3>2. InSpan(k, t)' \subseteq breaker[k].failures \cup {now}
      <4> SUFFICES ASSUME NEW f \in InSpan(k, t)', f # now PROVE f \in breaker[k].failures
        OBVIOUS
      <4>1. f \in failed[k] /\ t <= f
        BY <1>2 DEF InSpan
      <4>2. breaker[k].until = 0 /\ Accounted(k)
        BY <1>2 DEF HealInv, Executing
      <4>3. {f, t, now, OpenFor[k]} \subseteq Nat
        BY <1>0, <4>1
      <4>4. f \notin breaker[k].failures => f + OpenFor[k] <= now
        BY <4>1, <4>2 DEF Accounted
      <4> QED BY <3>1, <4>1, <4>3, <4>4
    <3>3. /\ breaker[k].failures \in SUBSET Instants /\ Cardinality(breaker[k].failures) < BurstLimit[k]
          /\ breaker[k].failures \cup {now} \in SUBSET Instants
      BY <1>0 DEF HealInv, HealTypeOK, BelowLimit
    <3>4. /\ Cardinality(InSpan(k, t)') <= Cardinality(breaker[k].failures \cup {now})
          /\ Cardinality(breaker[k].failures \cup {now}) <= Cardinality(breaker[k].failures) + 1
      BY <1>0, <3>2, <3>3, Fewer, OneMore
    <3>5. {Cardinality(InSpan(k, t)'), Cardinality(breaker[k].failures \cup {now}),
           Cardinality(breaker[k].failures)} \subseteq Nat
      BY <3>2, <3>3, InstantsFinite
    <3> QED BY <1>0, <3>3, <3>4, <3>5
  <2> QED BY <2>1, <2>2
<1>3. \/ failed'[k] \subseteq failed[k]
      \/ agent.pc = "execute" /\ agent.target = k /\ failed'[k] = failed[k] \cup {now}
  <2>1. ASSUME NEW outcome \in Outcomes, Execute(outcome)
        PROVE  failed'[k] = failed[k] \/ (agent.pc = "execute" /\ agent.target = k
                                          /\ failed'[k] = failed[k] \cup {now})
    BY <2>1 DEF Execute, HealInv, HealTypeOK
  <2>2. CASE UNCHANGED failed
    BY <2>2
  <2>3. CASE AgentRestart
    BY <2>3 DEF AgentRestart
  <2> QED BY <2>1, <2>2, <2>3 DEF HealNext, healVars, Heartbeat, Decide, Sleep, Change, HealTick
<1> QED BY <1>1, <1>2, <1>3

(* At most BurstLimit failing restarts of a target in any OpenFor, for any *)
(* strategy of any number of targets (Allow, Record, RecordCrash).         *)
THEOREM RestartsBounded == HealSpec => []RateBounded
<1>1. HealInit => RateBounded
  <2> SUFFICES ASSUME HealInit, NEW k \in Targets, NEW t \in Instants
               PROVE  Cardinality({f \in failed[k] : t <= f /\ f < t + OpenFor[k]}) <= BurstLimit[k]
    BY DEF RateBounded
  <2>1. {f \in failed[k] : t <= f /\ f < t + OpenFor[k]} = {}
    BY DEF HealInit, HealStarts
  <2>2. Cardinality({}) = 0 /\ BurstLimit[k] \in Nat
    BY FS_EmptySet, StrategyAssumption
  <2> QED BY <2>1, <2>2
<1> QED BY <1>1, HealInitInv, HealStep, RateStep, PTL DEF HealSpec

-----------------------------------------------------------------------------
LEMMA OpensStep ==
  HealInv /\ [HealNext]_healVars
    => [\A k \in Targets : breaker'[k].until > breaker[k].until
          => Cardinality(Recent(k, failed'[k])) >= BurstLimit[k]]_healVars
<1> SUFFICES ASSUME HealInv, HealNext, NEW k \in Targets, breaker'[k].until > breaker[k].until
             PROVE  Cardinality(Recent(k, failed'[k])) >= BurstLimit[k]
  OBVIOUS
<1>1. breaker[k].until \in Nat
  BY DEF HealInv, HealTypeOK
<1>2. ASSUME NEW outcome \in Outcomes, Execute(outcome)
      PROVE  Cardinality(Recent(k, failed'[k])) >= BurstLimit[k]
  <2> DEFINE f == failed[k] \cup IF outcome = "ok" THEN {} ELSE {now}
             r == Record(k, breaker[k], outcome)
  <2>1. agent.pc = "execute" /\ k = agent.target
    BY <1>1, <1>2 DEF Execute, HealInv, HealTypeOK
  <2>2. failed'[k] = f /\ breaker'[k] = IF outcome = "down" THEN RecordCrash(k, r) ELSE r
    BY <1>2, <2>1 DEF Execute, HealInv, HealTypeOK
  <2>3. breaker'[k].until # 0
    BY <1>1
  <2>4. CASE outcome = "down"
    BY <2>1, <2>2, <2>3, <2>4, CrashRecorded
  <2>5. CASE outcome # "down"
    BY <2>1, <2>2, <2>3, <2>5, Recorded
  <2> QED BY <2>4, <2>5
<1>3. ASSUME NEW j \in Targets, Decide(j) PROVE FALSE
  <2>1. AfterAllow(j).until \in {breaker[j].until, 0}
    BY DEF AfterAllow, Purged, HealInv, HealTypeOK
  <2>2. breaker'[k].until \in {breaker[k].until, 0}
    BY <1>3, <2>1 DEF Decide, HealInv, HealTypeOK
  <2> QED BY <1>1, <2>2
<1>4. ASSUME AgentRestart PROVE FALSE
  BY <1>1, <1>4 DEF AgentRestart, NewBreaker
<1>5. ASSUME UNCHANGED breaker PROVE FALSE
  BY <1>1, <1>5
<1> QED BY <1>2, <1>3, <1>4, <1>5 DEF HealNext, Heartbeat, Sleep, Change, HealTick

(* The circuit opens on BurstLimit failures inside the window and nothing  *)
(* less, whichever of the two counters trips it.                           *)
THEOREM OpensRightly == HealSpec => OpensOnFailures
BY HealInitInv, HealStep, OpensStep, PTL DEF HealSpec, OpensOnFailures
=============================================================================
