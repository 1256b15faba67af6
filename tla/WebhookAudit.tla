---------------------------- MODULE WebhookAudit ----------------------------
(***************************************************************************)
(* The audit trail of webhook deliveries: WebhookRecorder's bounded buffer *)
(* (pkg/alerter/webhook_recorder.go), the janitor that drains it into      *)
(* SQLite and re-queues what it could not write (pkg/store/janitor.go,     *)
(* webhook_log.go) and the operator's manual retry, which drains the same  *)
(* buffer (pkg/store/webhook_retry.go).                                    *)
(*                                                                         *)
(* A row is the number of its delivery, in the order Record took them; all *)
(* deliveries are one user's.  r.mu is held for the whole of Record, Drain *)
(* and Requeue, and a flush is one transaction: each is one action.        *)
(* flushedTotal, which the program only adds to, is left out.              *)
(***************************************************************************)
EXTENDS Integers, SequencesExt

CONSTANTS
  MaxLen,       \* capacity of the buffer
  MaxMade,      \* bound: deliveries ever made
  Retries,      \* retry requests the server can be serving at once
  FlushMayFail,    \* whether a flush may be rolled back
  RecorderMayDie

ASSUME AuditAssumption ==
  /\ MaxLen \in Nat \ {0} /\ MaxMade \in Nat
  /\ FlushMayFail \in BOOLEAN /\ RecorderMayDie \in BOOLEAN

VARIABLES
  made,       \* deliveries made
  records,    \* r.records
  dropped,    \* r.droppedTotal
  table,      \* webhook_deliveries, by id
  jan,        \* [pc, hand]: the janitor and the rows it drained
  retry,      \* [pc, hand]: the retry requests
  gone        \* history: rows the buffer had no room for, or whose hands died

recorder == <<records, dropped>>
auditVars == <<made, records, dropped, table, jan, retry, gone>>

Rows == 1 .. MaxMade
IdleJanitor == [pc |-> "idle", hand |-> <<>>]
IdleRetry == [pc |-> "idle", hand |-> <<>>]

-----------------------------------------------------------------------------
(* The recorder's operations.                                              *)

\* Bug: one row more than the buffer holds.
recordOffByOne(d) ==
  \/ Len(records) <= MaxLen /\ records' = Append(records, d) /\ UNCHANGED <<dropped, gone>>
  \/ Len(records) > MaxLen /\ dropped' = dropped + 1 /\ gone' = gone \cup {d} /\ UNCHANGED records
record(d) ==
  \/ Len(records) < MaxLen /\ records' = Append(records, d) /\ UNCHANGED <<dropped, gone>>
  \/ Len(records) >= MaxLen /\ dropped' = dropped + 1 /\ gone' = gone \cup {d} /\ UNCHANGED records

Drain == records # <<>> /\ records' = <<>> /\ UNCHANGED dropped

Newest(items, n) == SubSeq(items, Len(items) - n + 1, Len(items))

\* Bug: the items go behind what was recorded in the meantime.
RequeueAppends(items) ==
  /\ records' = records \o items
  /\ UNCHANGED <<dropped, gone>>
\* Bug: every item of a batch that does not fit is counted as dropped.
RequeueCountsAll(items) ==
  LET room == MaxLen - Len(records)
      kept == IF room < Len(items) THEN Newest(items, room) ELSE items IN
  /\ records' = kept \o records
  /\ dropped' = dropped + (IF room < Len(items) THEN Len(items) ELSE 0)
  /\ gone' = gone \cup (ToSet(items) \ ToSet(kept))
(* The counter is bumped after items was cut down to room rows.            *)
Requeue(items) ==
  LET room == MaxLen - Len(records)
      kept == IF room < Len(items) THEN Newest(items, room) ELSE items IN
  /\ \/ /\ room <= 0
        /\ dropped' = dropped + Len(items)
        /\ UNCHANGED records
     \/ /\ room > 0
        /\ dropped' = dropped + (IF room < Len(items) THEN Len(kept) - room ELSE 0)
        /\ records' = kept \o records
  /\ gone' = gone \cup (ToSet(items) \ ToSet(records'))

FlushWebhookDeliveries(items) == table' = table \o items

-----------------------------------------------------------------------------
(* A delivery made by a notification: sent first, recorded afterwards.     *)
Dispatch ==
  /\ made < MaxMade
  /\ made' = made + 1
  /\ record(made + 1)
  /\ UNCHANGED <<table, jan, retry>>

JanitorDrain ==
  /\ jan.pc = "idle"
  /\ \/ Drain /\ jan' = [pc |-> "flush", hand |-> records]
     \/ records = <<>> /\ UNCHANGED <<recorder, jan>>
  /\ UNCHANGED <<made, table, retry, gone>>

JanitorFlush ==
  /\ jan.pc = "flush"
  /\ FlushWebhookDeliveries(jan.hand)
  /\ jan' = IdleJanitor
  /\ UNCHANGED <<made, recorder, retry, gone>>

\* Bug: rows that could not be written are not put back.
JanitorGivesUp ==
  /\ jan.pc = "flush" /\ FlushMayFail
  /\ jan' = IdleJanitor
  /\ UNCHANGED <<made, recorder, table, retry, gone>>
JanitorFlushFails ==
  /\ jan.pc = "flush" /\ FlushMayFail
  /\ jan' = [jan EXCEPT !.pc = "requeue"]
  /\ UNCHANGED <<made, recorder, table, retry, gone>>

JanitorRequeue ==
  /\ jan.pc = "requeue"
  /\ Requeue(jan.hand)
  /\ jan' = IdleJanitor
  /\ UNCHANGED <<made, table, retry>>

(* RetryWebhookDelivery replays an existing row, drains whatever is in the *)
(* buffer and writes it, the rows of other deliveries included; what it    *)
(* cannot write it forgets.                                                *)
RetryDispatch(q) ==
  /\ retry[q].pc = "idle" /\ table # <<>>
  /\ made < MaxMade
  /\ made' = made + 1
  /\ record(made + 1)
  /\ retry' = [retry EXCEPT ![q].pc = "drain"]
  /\ UNCHANGED <<table, jan>>

RetryDrain(q) ==
  /\ retry[q].pc = "drain"
  /\ \/ Drain /\ retry' = [retry EXCEPT ![q] = [pc |-> "flush", hand |-> records]]
     \/ records = <<>> /\ retry' = [retry EXCEPT ![q] = IdleRetry] /\ UNCHANGED recorder
  /\ UNCHANGED <<made, table, jan, gone>>

RetryFlush(q) ==
  /\ retry[q].pc = "flush"
  /\ \/ FlushWebhookDeliveries(retry[q].hand) /\ UNCHANGED gone
     \/ FlushMayFail /\ gone' = gone \cup ToSet(retry[q].hand) /\ UNCHANGED table
  /\ retry' = [retry EXCEPT ![q] = IdleRetry]
  /\ UNCHANGED <<made, recorder, jan>>

Held == ToSet(jan.hand) \cup UNION {ToSet(retry[q].hand) : q \in Retries}

(* The recorder lives in memory.                                           *)
AuditRestart ==
  /\ RecorderMayDie
  /\ records' = <<>> /\ dropped' = 0
  /\ jan' = IdleJanitor /\ retry' = [q \in Retries |-> IdleRetry]
  /\ gone' = gone \cup ToSet(records) \cup Held
  /\ UNCHANGED <<made, table>>

AuditInit ==
  /\ made = 0 /\ records = <<>> /\ dropped = 0
  /\ table = <<>>
  /\ jan = IdleJanitor /\ retry = [q \in Retries |-> IdleRetry]
  /\ gone = {}

JanitorStep == JanitorDrain \/ JanitorFlush \/ JanitorFlushFails \/ JanitorRequeue

RetryStep(q) == RetryDrain(q) \/ RetryFlush(q)

AuditNext ==
  \/ Dispatch
  \/ JanitorStep
  \/ \E q \in Retries : RetryDispatch(q) \/ RetryStep(q)
  \/ AuditRestart

AuditSpec == AuditInit /\ [][AuditNext]_auditVars

(* The janitor's ticker fires and its goroutine runs; a flush it attempts  *)
(* again and again succeeds at last; a request runs to its end.            *)
AuditFairness ==
  /\ WF_auditVars(JanitorStep)
  /\ SF_auditVars(JanitorFlush)
  /\ \A q \in Retries : WF_auditVars(RetryStep(q))

FairAuditSpec == AuditSpec /\ AuditFairness

-----------------------------------------------------------------------------
AuditTypeOK ==
  /\ made \in 0 .. MaxMade
  /\ records \in Seq(Rows) /\ Len(records) <= MaxLen
  /\ dropped \in Nat
  /\ table \in Seq(Rows)
  /\ jan \in [pc : {"idle", "flush", "requeue"}, hand : Seq(Rows)]
  /\ retry \in [Retries -> [pc : {"idle", "drain", "flush"}, hand : Seq(Rows)]]
  /\ \A q \in Retries : Len(retry[q].hand) <= MaxLen
  /\ Len(jan.hand) <= MaxLen
  /\ gone \subseteq Rows

Increasing(s) == \A i, j \in 1 .. Len(s) : i < j => s[i] < s[j]

Lost == (1 .. made) \ (ToSet(records) \cup ToSet(table) \cup Held)

(* What the janitor puts back is older than what was recorded meanwhile.   *)
InOrder ==
  /\ Increasing(records) /\ Increasing(jan.hand)
  /\ \A d \in ToSet(jan.hand), e \in ToSet(records) : d < e

(* A delivery is in one place at a time.                                   *)
EachOnce ==
  /\ \A i, j \in 1 .. Len(table) : table[i] = table[j] => i = j
  /\ ToSet(records) \cap ToSet(table) = {}
  /\ Held \cap (ToSet(records) \cup ToSet(table)) = {}
  /\ \A q \in Retries :
       /\ ToSet(retry[q].hand) \cap ToSet(jan.hand) = {}
       /\ \A p \in Retries \ {q} : ToSet(retry[q].hand) \cap ToSet(retry[p].hand) = {}

(* The buffer stays in the order the deliveries were made and each has one *)
(* audit row at most, however drains, failed flushes, new deliveries and   *)
(* the operator's retries interleave (Drain, Requeue).                     *)
OnceInOrder == InOrder /\ EachOnce

(* The dropped counter never reports a row that is still on its way or was *)
(* written (Requeue and record under every interleaving).                  *)
DroppedSound == dropped <= Cardinality(Lost)

(* A delivery is in the table in the end, however often its flush fails    *)
(* and whoever drains it, unless the buffer had no room for it, the retry  *)
(* that held it could not write it, or the process died.                   *)
Persisted == \A d \in Rows : d <= made ~> d \in ToSet(table) \cup gone
=============================================================================
