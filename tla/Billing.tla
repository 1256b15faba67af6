------------------------------ MODULE Billing ------------------------------
(***************************************************************************)
(* Invoices and the paid plan: the boot-time tables of                     *)
(* pkg/store/billing.go, the create-invoice and webhook handlers of        *)
(* cmd/server, and the payment provider that repeats its webhook until it  *)
(* is answered 200.                                                        *)
(*                                                                         *)
(* MarkInvoicePaid holds p.mu but its two UPDATEs are two transactions: a  *)
(* failure or a crash may come between them.                               *)
(***************************************************************************)
EXTENDS Integers, FiniteSetsExt

CONSTANTS
  Users, Invoices,
  NoUser,
  Window,        \* the 30 days an invoice buys
  MaxTime,       \* bound: last instant of the clock
  BillingMayFail,     \* whether a statement may fail before anything is written
  HalfMayFail,   \* whether the second UPDATE may fail, or the process die before it
  MayCrash,      \* whether the process may die between requests
  BootMayDie     \* whether it may die inside InitBillingSchema

ASSUME BillingAssumption ==
  /\ NoUser \notin Users
  /\ Window \in Nat \ {0} /\ MaxTime \in Nat \ {0}
  /\ {BillingMayFail, HalfMayFail, MayCrash, BootMayDie} \subseteq BOOLEAN

VARIABLES
  now,
  up,        \* whether the server is serving
  tables,    \* what InitBillingSchema has created so far
  invoice,   \* [st, user, paidAt]; "issued": the provider knows it, the table does not
  plan,      \* users.plan
  until,     \* users.pro_until, 0 for NULL
  hook,      \* the provider's webhook: "none", "due" or "acked"
  half       \* history: invoices stamped without the plan being extended

billingVars == <<now, up, tables, invoice, plan, until, hook, half>>

NoInvoice == [st |-> "none", user |-> NoUser, paidAt |-> 0]
FullSchema == {"invoices", "plan", "pro_until"}

-----------------------------------------------------------------------------
(* BillingBoot.  ALTER TABLE ... ADD COLUMN fails when the column exists, and     *)
(* InitBillingSchema returns at the first failure, which main ignores.     *)
Reached == IF "plan" \in tables THEN {"invoices"} ELSE FullSchema

InitBillingSchema ==
  /\ ~up
  /\ up' = TRUE
  /\ tables' = tables \cup Reached
  /\ UNCHANGED <<now, invoice, plan, until, hook, half>>

InitBillingSchemaDies ==
  /\ ~up /\ BootMayDie
  /\ \E done \in {{"invoices"}, {"invoices", "plan"}} :
       done \subseteq Reached /\ tables' = tables \cup done
  /\ UNCHANGED <<now, up, invoice, plan, until, hook, half>>

Crash ==
  /\ up /\ MayCrash
  /\ up' = FALSE
  /\ UNCHANGED <<now, tables, invoice, plan, until, hook, half>>

-----------------------------------------------------------------------------
(* handleBillingCreateInvoice: the provider issues, then SaveInvoice; only *)
(* a saved invoice's pay URL is shown to the user.                         *)
CreateInvoice(i, u) ==
  /\ up /\ invoice[i].st = "none"
  /\ \E st \in {"saved"} \cup IF BillingMayFail THEN {"issued"} ELSE {} :
       invoice' = [invoice EXCEPT ![i] = [st |-> st, user |-> u, paidAt |-> 0]]
  /\ UNCHANGED <<now, up, tables, plan, until, hook, half>>

Pay(i) ==
  /\ invoice[i].st = "saved" /\ hook[i] = "none"
  /\ hook' = [hook EXCEPT ![i] = "due"]
  /\ UNCHANGED <<now, up, tables, invoice, plan, until, half>>

Extended(u) == (IF until[u] # 0 THEN until[u] ELSE now) + Window

StampPaid(i) == invoice' = [invoice EXCEPT ![i].paidAt = now]

ExtendPro(u) ==
  /\ "pro_until" \in tables
  /\ plan' = [plan EXCEPT ![u] = "pro"]
  /\ until' = [until EXCEPT ![u] = Extended(u)]

\* Bug: the paid_at of an earlier delivery is not looked at.
MarkInvoicePaidAgain(i) == StampPaid(i) /\ ExtendPro(invoice[i].user)
MarkInvoicePaid(i) ==
  IF invoice[i].paidAt # 0 THEN UNCHANGED <<invoice, plan, until>>
  ELSE StampPaid(i) /\ ExtendPro(invoice[i].user)

MarkInvoicePaidFails(i) ==
  /\ invoice[i].paidAt = 0
  /\ UNCHANGED <<plan, until>>
  /\ \/ BillingMayFail /\ UNCHANGED <<invoice, half>>
     \/ (HalfMayFail \/ "pro_until" \notin tables) /\ StampPaid(i) /\ half' = half \cup {i}

(* The provider calls while the webhook is due, answer 200 or not; an      *)
(* answer may get lost on the way back.                                    *)
HandleWebhook(i) ==
  /\ up /\ hook[i] = "due"
  /\ MarkInvoicePaid(i)
  /\ \E answer \in {"acked", "due"} : hook' = [hook EXCEPT ![i] = answer]
  /\ UNCHANGED <<now, up, tables, half>>

\* Bug: the handler logs the error and answers 200.
HandleWebhookSwallowsError(i) ==
  /\ up /\ hook[i] = "due"
  /\ MarkInvoicePaidFails(i)
  /\ hook' = [hook EXCEPT ![i] = "acked"]
  /\ UNCHANGED <<now, up, tables>>
HandleWebhookFails(i) ==
  /\ up /\ hook[i] = "due"
  /\ MarkInvoicePaidFails(i)
  /\ UNCHANGED <<now, up, tables, hook>>

Tick ==
  /\ now < MaxTime
  /\ now' = now + 1
  /\ UNCHANGED <<up, tables, invoice, plan, until, hook, half>>

BillingInit ==
  /\ now = 1 /\ up = FALSE /\ tables = {}
  /\ invoice = [i \in Invoices |-> NoInvoice]
  /\ plan = [u \in Users |-> "free"] /\ until = [u \in Users |-> 0]
  /\ hook = [i \in Invoices |-> "none"] /\ half = {}

BillingBoot == InitBillingSchema \/ InitBillingSchemaDies

BillingNext ==
  \/ BillingBoot \/ Crash
  \/ \E i \in Invoices : \/ \E u \in Users : CreateInvoice(i, u)
                         \/ Pay(i)
                         \/ HandleWebhook(i) \/ HandleWebhookFails(i)
  \/ Tick

BillingSpec == BillingInit /\ [][BillingNext]_billingVars

(* The server is restarted until it stays up long enough, the provider     *)
(* repeats its call, and a call it repeats for ever gets through once.     *)
BillingFairness ==
  /\ SF_billingVars(InitBillingSchema)
  /\ \A i \in Invoices : SF_billingVars(HandleWebhook(i) /\ hook'[i] = "acked")

FairBillingSpec == BillingSpec /\ BillingFairness

-----------------------------------------------------------------------------
BillingTypeOK ==
  /\ now \in 1 .. MaxTime
  /\ up \in BOOLEAN /\ tables \subseteq FullSchema
  /\ invoice \in [Invoices -> [st : {"none", "issued", "saved"}, user : Users \cup {NoUser},
                               paidAt : 0 .. MaxTime]]
  /\ plan \in [Users -> {"free", "pro"}] /\ until \in [Users -> Nat]
  /\ hook \in [Invoices -> {"none", "due", "acked"}]
  /\ \A i \in Invoices : /\ invoice[i].st # "none" => invoice[i].user \in Users
                         /\ hook[i] # "none" => invoice[i].st = "saved"
  /\ half \subseteq Invoices

Pros == {u \in Users : plan[u] = "pro"}

Served(u) == {i \in Invoices \ half : invoice[i].user = u /\ invoice[i].paidAt # 0}

(* However often the provider repeats a webhook and wherever the server    *)
(* dies, a user's paid time runs from the first payment that reached the   *)
(* plan for exactly one window per such payment, whether or not the time   *)
(* paid before has run out (MarkInvoicePaid, and its test says otherwise   *)
(* of the latter: RenewalFromNow).                                         *)
PaidTimeExact ==
  \A u \in Users :
    until[u] = IF Served(u) = {} THEN 0
               ELSE Min({invoice[i].paidAt : i \in Served(u)}) + Window * Cardinality(Served(u))

(* The provider stops calling only once the invoice is stamped and its     *)
(* customer pro, or the one stamp was made without the plan (the handler   *)
(* answers 500 whenever MarkInvoicePaid fails).                            *)
AckedServed ==
  \A i \in Invoices : hook[i] = "acked" =>
    invoice[i].paidAt # 0 /\ (i \in half \/ invoice[i].user \in Pros)

(* Nobody who has paid waits for ever to become pro, through lost answers, *)
(* failing statements and crashes, unless the payment met a half made      *)
(* schema or its second UPDATE failed.                                     *)
PaidUpgrades ==
  []<>(\A i \in Invoices :
         hook[i] # "none" => invoice[i].user \in Pros \/ i \in half \/ tables # FullSchema)

-----------------------------------------------------------------------------
(* billing_webhook_handlers.go promises that a failed MarkInvoicePaid is   *)
(* made good by the provider's next attempt; the code does not keep it:    *)
(* the repeat finds the stamp of the attempt that failed half way.         *)
AckedIsPro == \A i \in Invoices : hook[i] = "acked" => invoice[i].user \in Pros

(* billing.go:54-57 says that the window is added to pro_until "if the     *)
(* user already has paid time remaining, otherwise the standard 30-day     *)
(* window from now", and billing_idempotency_test.go:122-125 that the      *)
(* "correct behavior is max(existing_pro_until, now) + 30d": an invoice    *)
(* paid buys a window from then on at least.  The UPDATE adds it to any    *)
(* pro_until there is, one that has run out included.                      *)
RenewalFromNow ==
  \A i \in Invoices \ half :
    invoice[i].paidAt # 0 => until[invoice[i].user] >= invoice[i].paidAt + Window
=============================================================================
