----------------------------- MODULE AlertRules -----------------------------
(***************************************************************************)
(* Which threshold rules a heartbeat is evaluated against: the table of    *)
(* rules the operators edit (pkg/store/alert_rules.go), the owner each     *)
(* heartbeat binds its node to (BindNode) and the labels it leaves in      *)
(* node_tags (pkg/store/tags.go), and the reads of all three that Ingest   *)
(* makes between them and AlertEvaluator.                                  *)
(*                                                                         *)
(* The edits, BindNode and the read of the rules take p.mu; UpsertNodeTags *)
(* and the reads of the owner and the labels do not, so another heartbeat  *)
(* of the node may rebind it between them, or change its labels while the  *)
(* selectors of one read are matched, one row at a time.                   *)
(* A rule's metric, threshold, dwell and title are AlertEvaluator's.       *)
(***************************************************************************)
EXTENDS Naturals, FiniteSets

CONSTANTS
  Authors,    \* users who edit rules
  Chief,      \* the admin, user 1: owner of nodes without one, too
  Boxes,      \* nodes
  NoBox,      \* the empty node_id
  Labels,     \* tags a node can carry
  NoSelector, \* the empty tag_selector
  Requests,   \* bodies of POST and PUT
  Beats,      \* heartbeat handlers that may overlap
  Nobody,     \* p.mu is free, for all that happens here
  MaxRules    \* bound: rules ever created

(* A selector asks for some labels, all of them or (any:) at least one.    *)
Selectors == [any : BOOLEAN, labels : SUBSET Labels]

ASSUME AlertRulesAssumption ==
  /\ Chief \in Authors
  /\ NoBox \notin Boxes /\ NoSelector \notin Selectors
  /\ Nobody \notin Beats
  /\ MaxRules \in Nat
  /\ Requests \subseteq [scope : {"node", "fleet"}, node : Boxes \cup {NoBox},
                         selector : Selectors \cup {NoSelector}, enabled : BOOLEAN]

VARIABLES
  rules,     \* metric_alert_rules: the rows by id
  lastRule,  \* its AUTOINCREMENT
  labels,    \* node_tags
  boxOwner,  \* node_owners
  mu,        \* the heartbeat that holds p.mu across its read, or none
  beat,      \* the heartbeats in Ingest
  could,     \* history: rows that applied, for the owner that was read, at some
             \* moment since
  always     \* history: rows that applied, for whoever was the owner, at every
             \* moment since the labels were stored

rulesVars == <<rules, lastRule, labels, boxOwner, mu, beat, could, always>>

RuleIds == 1 .. MaxRules

(* owner is the one that was read, rows the cursor, read the rules found   *)
(* to apply so far.                                                        *)
NoBeat == [pc |-> "idle", box |-> NoBox, owner |-> Chief, rows |-> {}, read |-> {}]

-----------------------------------------------------------------------------
(* What the queries select: a row is a request with its id and its author. *)
Rows(table) == {table[id] : id \in DOMAIN table}

nodeMatchesTagSelector(selector, carried) ==
  \/ selector = NoSelector
  \/ selector # NoSelector /\ selector.any /\ selector.labels \cap carried # {}
  \/ selector # NoSelector /\ ~selector.any /\ selector.labels \subseteq carried

\* Bug: the rules of the node's owner are left out.
SelectedPinnedOnly(row, box, owner) ==
  row.enabled /\ row.scope = "node" /\ row.node = box
(* The WHERE clause.  Its last alternative, owner = 1, compares the text   *)
(* the owner id was formatted to with an integer and is never true; no row *)
(* has the author 0 of its third.                                          *)
Selected(row, box, owner) ==
  /\ row.enabled
  /\ (row.scope = "node" /\ row.node = box) \/ row.user = owner

Applies(row, box, owner, carried) ==
  /\ Selected(row, box, owner)
  /\ row.scope = "fleet" => nodeMatchesTagSelector(row.selector, carried)

Applying(table, box, owner, carried) ==
  {row \in Rows(table) : Applies(row, box, owner, carried)}

(* GET /api/v1/alert-rules?node_id=box: the admin sees everyone's rules.   *)
ListMetricAlertRules(user, box) ==
  {row \in Rows(rules) :
     /\ row.user = user \/ user = Chief
     /\ \/ row.scope = "node" /\ row.node = box
        \/ row.scope = "fleet" /\ nodeMatchesTagSelector(row.selector, labels[box])}

-----------------------------------------------------------------------------
(* The histories of the heartbeats whose labels are stored and whose rules *)
(* are not all read, after a step that changes the table, the labels or    *)
(* the owners.                                                             *)
Matching(b) == beat[b].pc \in {"rules", "match"}
Stored(b) == beat[b].pc = "owner" \/ Matching(b)

Could(b, table, carried) ==
  LET box == beat[b].box IN
  IF Matching(b) THEN could[b] \cup Applying(table, box, beat[b].owner, carried[box]) ELSE could[b]
Always(b, table, carried, owners) ==
  LET box == beat[b].box IN
  IF Stored(b) THEN always[b] \cap Applying(table, box, owners[box], carried[box]) ELSE always[b]

Remember(table, carried, owners) ==
  /\ could' = [b \in Beats |-> Could(b, table, carried)]
  /\ always' = [b \in Beats |-> Always(b, table, carried, owners)]

validateAlertRuleRequest(req) ==
  /\ req.scope = "node" => req.node # NoBox
  /\ req.scope = "fleet" => req.selector # NoSelector

Row(id, user, req) == [id |-> id, user |-> user, scope |-> req.scope, node |-> req.node,
                       selector |-> req.selector, enabled |-> req.enabled]

Store(table) ==
  rules' = table /\ Remember(table, labels, boxOwner) /\ UNCHANGED <<labels, boxOwner, mu, beat>>

CreateMetricAlertRule(user, req) ==
  /\ mu = Nobody /\ validateAlertRuleRequest(req) /\ lastRule < MaxRules
  /\ lastRule' = lastRule + 1
  /\ Store([id \in DOMAIN rules \cup {lastRule + 1} |->
              IF id = lastRule + 1 THEN Row(id, user, req) ELSE rules[id]])

\* Bug: the edit does not wait for p.mu.
UpdateWithoutMutex(user, id, req) ==
  /\ validateAlertRuleRequest(req)
  /\ id \in DOMAIN rules /\ rules[id].user = user
  /\ Store([rules EXCEPT ![id] = Row(id, user, req)])
  /\ UNCHANGED lastRule
UpdateMetricAlertRule(user, id, req) ==
  /\ mu = Nobody /\ validateAlertRuleRequest(req)
  /\ id \in DOMAIN rules /\ rules[id].user = user
  /\ Store([rules EXCEPT ![id] = Row(id, user, req)])
  /\ UNCHANGED lastRule

DeleteMetricAlertRule(user, id) ==
  /\ mu = Nobody
  /\ id \in DOMAIN rules /\ rules[id].user = user
  /\ Store([other \in DOMAIN rules \ {id} |-> rules[other]])
  /\ UNCHANGED lastRule

-----------------------------------------------------------------------------
(* BindNode, for a heartbeat with the token of one of the users.           *)
Bind(b, box, user) ==
  /\ beat[b].pc = "idle" /\ mu = Nobody
  /\ boxOwner' = [boxOwner EXCEPT ![box] = user]
  /\ Remember(rules, labels, [boxOwner EXCEPT ![box] = user])
  /\ beat' = [beat EXCEPT ![b] = [NoBeat EXCEPT !.pc = "tags", !.box = box]]
  /\ UNCHANGED <<rules, lastRule, labels, mu>>

(* Ingest stores the heartbeat's labels, if it has any: without, or when   *)
(* the transaction fails, those of the last one stay in place.             *)
UpsertNodeTags(b, carried) ==
  LET box == beat[b].box
      stored == IF carried = {} THEN labels ELSE [labels EXCEPT ![box] = carried]
  IN
  /\ beat[b].pc = "tags"
  /\ labels' = stored
  /\ could' = [other \in Beats |-> Could(other, rules, stored)]
  /\ always' = [other \in Beats |->
       IF other = b THEN Applying(rules, box, boxOwner[box], stored[box])
                    ELSE Always(other, rules, stored, boxOwner)]
  /\ beat' = [beat EXCEPT ![b].pc = "owner"]
  /\ UNCHANGED <<rules, lastRule, boxOwner, mu>>

(* Without p.mu, and the admin when the query fails: then what stays in    *)
(* force of the owner's rules are those pinned to the node.                *)
GetNodeOwner(b) ==
  LET box == beat[b].box IN
  /\ beat[b].pc = "owner"
  /\ \E owner \in {boxOwner[box], Chief} :
       /\ beat' = [beat EXCEPT ![b].pc = "rules", ![b].owner = owner]
       /\ could' = [could EXCEPT ![b] = Applying(rules, box, owner, labels[box])]
       /\ always' = [always EXCEPT ![b] = @ \cap Applying(rules, box, owner, labels[box])]
  /\ UNCHANGED <<rules, lastRule, labels, boxOwner, mu>>

(* The query of MetricsAlertRulesForNode, under p.mu.                      *)
MetricsAlertRulesForNode(b) ==
  /\ beat[b].pc = "rules" /\ mu = Nobody
  /\ mu' = b
  /\ beat' = [beat EXCEPT ![b].pc = "match",
                 ![b].rows = {row \in Rows(rules) : Selected(row, beat[b].box, beat[b].owner)}]
  /\ UNCHANGED <<rules, lastRule, labels, boxOwner, could, always>>

(* It fails: no rules at all, and nothing is logged.                       *)
RulesUnread(b) ==
  /\ beat[b].pc = "rules" /\ mu = Nobody
  /\ beat' = [beat EXCEPT ![b].pc = "evaluate"]
  /\ always' = [always EXCEPT ![b] = {}]
  /\ UNCHANGED <<rules, lastRule, labels, boxOwner, mu, could>>

(* The row the cursor of b is at, and what the loop makes of it.           *)
AtRow(b, row) == beat[b].pc = "match" /\ \A other \in beat[b].rows : row.id <= other.id
PassRow(b, row, found) == beat' = [beat EXCEPT ![b].rows = @ \ {row}, ![b].read = @ \cup found]

(* A fleet rule reads the node's labels with a query of its own.           *)
MatchRow(b) ==
  /\ \E row \in beat[b].rows :
       /\ AtRow(b, row)
       /\ PassRow(b, row, {found \in {row} :
            found.scope = "fleet" => nodeMatchesTagSelector(found.selector, labels[beat[b].box])})
  /\ UNCHANGED <<rules, lastRule, labels, boxOwner, mu, could, always>>

(* The row does not scan and is skipped; or TagsForNode fails, and the     *)
(* node carries no labels as far as this row goes.                         *)
RowMisread(b) ==
  /\ \E row \in beat[b].rows :
       /\ AtRow(b, row)
       /\ \/ PassRow(b, row, {})
          \/ /\ row.scope = "fleet"
             /\ PassRow(b, row, {found \in {row} : nodeMatchesTagSelector(found.selector, {})})
       /\ always' = [always EXCEPT ![b] = @ \ {row}]
  /\ UNCHANGED <<rules, lastRule, labels, boxOwner, mu, could>>

(* rows.Next ends the loop: at the last row, or before it on an error that *)
(* is not looked at.                                                       *)
RulesRead(b) ==
  /\ beat[b].pc = "match"
  /\ mu' = Nobody
  /\ beat' = [beat EXCEPT ![b].pc = "evaluate", ![b].rows = {}]
  /\ always' = [always EXCEPT ![b] = @ \ beat[b].rows]
  /\ UNCHANGED <<rules, lastRule, labels, boxOwner, could>>

(* AlertEvaluator takes the copies that were read, and Ingest ends.        *)
EvaluateMetricAlert(b) ==
  /\ beat[b].pc = "evaluate"
  /\ beat' = [beat EXCEPT ![b] = NoBeat]
  /\ could' = [could EXCEPT ![b] = {}] /\ always' = [always EXCEPT ![b] = {}]
  /\ UNCHANGED <<rules, lastRule, labels, boxOwner, mu>>

(* The tables survive, the heartbeats do not.                              *)
RulesRestart ==
  /\ beat' = [b \in Beats |-> NoBeat] /\ mu' = Nobody
  /\ could' = [b \in Beats |-> {}] /\ always' = [b \in Beats |-> {}]
  /\ UNCHANGED <<rules, lastRule, labels, boxOwner>>

RulesInit ==
  /\ rules = [id \in {} |-> {}] /\ lastRule = 0
  /\ labels = [box \in Boxes |-> {}] /\ boxOwner = [box \in Boxes |-> Chief]
  /\ beat = [b \in Beats |-> NoBeat] /\ mu = Nobody
  /\ could = [b \in Beats |-> {}] /\ always = [b \in Beats |-> {}]

RulesNext ==
  \/ \E user \in Authors :
       \/ \E req \in Requests : CreateMetricAlertRule(user, req)
       \/ \E id \in RuleIds, req \in Requests : UpdateMetricAlertRule(user, id, req)
       \/ \E id \in RuleIds : DeleteMetricAlertRule(user, id)
  \/ \E b \in Beats :
       \/ \E box \in Boxes, user \in Authors : Bind(b, box, user)
       \/ \E carried \in SUBSET Labels : UpsertNodeTags(b, carried)
       \/ GetNodeOwner(b)
       \/ MetricsAlertRulesForNode(b) \/ RulesUnread(b)
       \/ MatchRow(b) \/ RowMisread(b) \/ RulesRead(b)
       \/ EvaluateMetricAlert(b)
  \/ RulesRestart

RulesSpec == RulesInit /\ [][RulesNext]_rulesVars

-----------------------------------------------------------------------------
RuleRows == [id : RuleIds, user : Authors, scope : {"node", "fleet"}, node : Boxes \cup {NoBox},
             selector : Selectors \cup {NoSelector}, enabled : BOOLEAN]

(* Rows keep the shape validateAlertRuleRequest let in, each under its own *)
(* id; p.mu is held by the heartbeat that walks its cursor and no other.   *)
RulesTypeOK ==
  /\ lastRule \in 0 .. MaxRules /\ DOMAIN rules \subseteq 1 .. lastRule
  /\ \A id \in DOMAIN rules :
       rules[id] \in RuleRows /\ rules[id].id = id /\ validateAlertRuleRequest(rules[id])
  /\ labels \in [Boxes -> SUBSET Labels] /\ boxOwner \in [Boxes -> Authors]
  /\ mu \in Beats \cup {Nobody}
  /\ \A b \in Beats : beat[b].pc = "match" <=> mu = b
  /\ \A b \in Beats :
       /\ beat[b].pc \in {"idle", "tags", "owner", "rules", "match", "evaluate"}
       /\ beat[b].pc = "idle" <=> beat[b].box = NoBox
       /\ beat[b].box \in Boxes \cup {NoBox} /\ beat[b].owner \in Authors
       /\ beat[b].rows \subseteq RuleRows /\ beat[b].read \subseteq RuleRows

(* A heartbeat is never evaluated against a rule as it no longer was, or   *)
(* as it was not yet: at some one moment since it read the node's owner,   *)
(* the row stood in the table as it was read, enabled, pinned to the node  *)
(* or of the owner it read, and it took the labels the node had then.  And *)
(* no rule is missed that applied all the while since the labels were      *)
(* stored, for everyone who owned the node meanwhile, whatever operators   *)
(* and the other heartbeats do, unless one of the reads failed: the query  *)
(* (it misses all), its cursor (what is left), a row or its labels (that   *)
(* row), or the owner (all of the owner's that are not pinned).            *)
EvaluatedAsWritten ==
  \A b \in Beats :
    /\ beat[b].read \subseteq could[b]
    /\ beat[b].pc = "evaluate" => always[b] \subseteq beat[b].read

(* What an owner sees listed for a node of theirs, as enabled rules of     *)
(* their own, applies: a heartbeat that meets no other owner, labels and   *)
(* rules than those of now is evaluated against all of it.                 *)
ListedRulesApply ==
  \A box \in Boxes :
    {row \in ListMetricAlertRules(boxOwner[box], box) : row.enabled /\ row.user = boxOwner[box]}
      \subseteq Applying(rules, box, boxOwner[box], labels[box])

-----------------------------------------------------------------------------
(* protocol/alert_rules.go says that scope "node" means "scoped to NodeID  *)
(* only"; the query lets every rule of the owner through, pinned or not.   *)
NodeRuleOnItsNode ==
  \A b \in Beats : \A row \in beat[b].read : row.scope = "node" => row.node = beat[b].box
=============================================================================
