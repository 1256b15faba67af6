--------------------------- MODULE IncidentLedger ---------------------------
(***************************************************************************)
(* What the incident table promises its readers (dashboard, public status  *)
(* page, history), whoever writes it: a numbered ledger in which an entry  *)
(* is raised for a key no open entry has, is closed once and for all with  *)
(* at most one notice to the owner, and may later be dropped.              *)
(***************************************************************************)
EXTENDS Integers

CONSTANTS
  Ids,      \* entry numbers, handed out in order
  Keys,     \* what an entry is about: node and title
  NoKey     \* the key of an entry not yet raised, or dropped

VARIABLES st, key, notices

vars == <<st, key, notices>>

Init ==
  /\ st = [id \in Ids |-> "free"]
  /\ key = [id \in Ids |-> NoKey]
  /\ notices = [id \in Ids |-> 0]

Raise(id, k) ==
  /\ st[id] = "free"
  /\ \A other \in Ids : st[other] = "free" => id <= other
  /\ \A other \in Ids : ~(st[other] = "open" /\ key[other] = k)
  /\ st' = [st EXCEPT ![id] = "open"]
  /\ key' = [key EXCEPT ![id] = k]
  /\ UNCHANGED notices

CloseSilently(id) ==
  /\ st[id] = "open"
  /\ st' = [st EXCEPT ![id] = "resolved"]
  /\ UNCHANGED <<key, notices>>

CloseWithNotice(id) ==
  /\ st[id] = "open"
  /\ st' = [st EXCEPT ![id] = "resolved"]
  /\ notices' = [notices EXCEPT ![id] = @ + 1]
  /\ UNCHANGED key

Drop(S) ==
  /\ \A id \in S : st[id] = "resolved"
  /\ st' = [id \in Ids |-> IF id \in S THEN "pruned" ELSE st[id]]
  /\ key' = [id \in Ids |-> IF id \in S THEN NoKey ELSE key[id]]
  /\ UNCHANGED notices

Next ==
  \/ \E id \in Ids, k \in Keys : Raise(id, k)
  \/ \E id \in Ids : CloseSilently(id) \/ CloseWithNotice(id)
  \/ \E S \in SUBSET Ids : Drop(S)

Spec == Init /\ [][Next]_vars
=============================================================================
