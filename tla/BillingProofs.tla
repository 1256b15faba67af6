---------------------------- MODULE BillingProofs ----------------------------
(***************************************************************************)
(* What holds of Billing for any set of users and invoices, any window and *)
(* any faults.                                                             *)
(*                                                                         *)
(* The stamp and the extension of the plan are two transactions, so what a *)
(* stamp stands for depends on how MarkInvoicePaid ended: Books counts the *)
(* stamps that reached the plan, and carries along that they are finitely  *)
(* many and have a first, which the sum of the windows is counted from.    *)
(***************************************************************************)
EXTENDS Billing, FiniteSetTheorems, TLAPS

(* A first payment; every later one is stamped at an instant not before.   *)
First(u, i) == i \in Served(u) /\ \A j \in Served(u) : invoice[i].paidAt <= invoice[j].paidAt

Books ==
  /\ BillingTypeOK
  /\ \A i \in Invoices :
       /\ invoice[i].paidAt <= now
       /\ invoice[i].paidAt # 0 =>
            invoice[i].st = "saved" /\ (i \in half \/ plan[invoice[i].user] = "pro")
       /\ i \in half => invoice[i].paidAt # 0

SumOf(u) ==
  /\ IsFiniteSet(Served(u))
  /\ Served(u) = {} => until[u] = 0
  /\ Served(u) # {} => \E i \in Invoices :
       First(u, i) /\ until[u] = invoice[i].paidAt + Window * Cardinality(Served(u))

Sums == \A u \in Users : SumOf(u)

-----------------------------------------------------------------------------
LEMMA InitBooks == BillingInit => Books
<1> SUFFICES ASSUME BillingInit PROVE Books
  OBVIOUS
<1>1. now \in 1 .. MaxTime
  BY BillingAssumption DEF BillingInit
<1>2. NoInvoice \in [st : {"none", "issued", "saved"}, user : Users \cup {NoUser}, paidAt : 0 .. MaxTime]
  BY BillingAssumption DEF NoInvoice
<1>3. BillingTypeOK
  BY <1>1, <1>2 DEF BillingInit, BillingTypeOK, NoInvoice
<1> QED BY <1>1, <1>3 DEF BillingInit, Books, NoInvoice

(* The plan and the stamps of MarkInvoicePaid.                             *)
LEMMA MarkedBooks ==
  ASSUME Books, NEW i \in Invoices, HandleWebhook(i)
  PROVE  Books'
<1>1. /\ invoice[i].st = "saved" /\ invoice[i].user \in Users
      /\ hook' \in [Invoices -> {"none", "due", "acked"}]
      /\ \A j \in Invoices \ {i} : hook'[j] = hook[j]
      /\ UNCHANGED <<now, up, tables, half>>
  BY DEF HandleWebhook, Books, BillingTypeOK
<1>2. CASE invoice[i].paidAt # 0
  <2>1. UNCHANGED <<invoice, plan, until>>
    BY <1>2 DEF HandleWebhook, MarkInvoicePaid
  <2> QED BY <1>1, <2>1 DEF Books, BillingTypeOK
<1>3. CASE invoice[i].paidAt = 0
  <2>1. /\ invoice' = [invoice EXCEPT ![i].paidAt = now]
        /\ plan' = [plan EXCEPT ![invoice[i].user] = "pro"]
        /\ until' = [until EXCEPT ![invoice[i].user] = Extended(invoice[i].user)]
    BY <1>3 DEF HandleWebhook, MarkInvoicePaid, StampPaid, ExtendPro
  <2>2. Extended(invoice[i].user) \in Nat
    BY <1>1, BillingAssumption DEF Extended, Books, BillingTypeOK
  <2>3. /\ invoice'[i] = [invoice[i] EXCEPT !.paidAt = now]
        /\ \A j \in Invoices \ {i} : invoice'[j] = invoice[j]
        /\ \A u \in Users : plan[u] = "pro" => plan'[u] = "pro"
        /\ plan'[invoice[i].user] = "pro"
    BY <1>1, <2>1 DEF Books, BillingTypeOK
  <2>4. BillingTypeOK'
    BY <1>1, <2>1, <2>2, BillingAssumption DEF Books, BillingTypeOK
  <2>5. \A j \in Invoices : invoice[j].paidAt # 0 => invoice[j].user \in Users
    BY DEF Books, BillingTypeOK
  <2> QED BY <1>1, <2>3, <2>4, <2>5 DEF Books, BillingTypeOK
<1> QED BY <1>2, <1>3

LEMMA NextBooks == Books /\ [BillingNext]_billingVars => Books'
<1> SUFFICES ASSUME Books, [BillingNext]_billingVars PROVE Books'
  OBVIOUS
<1>1. ASSUME BillingBoot PROVE Books'
  <2>1. tables \cup Reached \subseteq FullSchema
    BY DEF Reached, FullSchema, Books, BillingTypeOK
  <2>2. CASE InitBillingSchema
    BY <2>1, <2>2 DEF InitBillingSchema, Books, BillingTypeOK
  <2>3. CASE InitBillingSchemaDies
    <3>1. tables' \subseteq FullSchema /\ UNCHANGED <<now, up, invoice, plan, until, hook, half>>
      BY <2>1, <2>3 DEF InitBillingSchemaDies
    <3> QED BY <3>1 DEF Books, BillingTypeOK
  <2> QED BY <1>1, <2>2, <2>3 DEF BillingBoot
<1>2. ASSUME Crash PROVE Books'
  BY <1>2 DEF Crash, Books, BillingTypeOK
<1>3. ASSUME NEW i \in Invoices, NEW u \in Users, CreateInvoice(i, u) PROVE Books'
  <2>1. PICK st \in {"saved", "issued"} :
          invoice' = [invoice EXCEPT ![i] = [st |-> st, user |-> u, paidAt |-> 0]]
    BY <1>3 DEF CreateInvoice
  <2>2. hook[i] = "none" /\ invoice[i].paidAt = 0 /\ i \notin half
    BY <1>3 DEF CreateInvoice, Books, BillingTypeOK
  <2>3. UNCHANGED <<now, up, tables, plan, until, hook, half>>
    BY <1>3 DEF CreateInvoice
  <2>4. BillingTypeOK'
    BY <2>1, <2>2, <2>3, BillingAssumption DEF Books, BillingTypeOK
  <2> QED BY <2>1, <2>2, <2>3, <2>4 DEF Books, BillingTypeOK
<1>4. ASSUME NEW i \in Invoices, Pay(i) PROVE Books'
  BY <1>4 DEF Pay, Books, BillingTypeOK
<1>5. ASSUME NEW i \in Invoices, HandleWebhook(i) PROVE Books'
  BY <1>5, MarkedBooks
<1>6. ASSUME NEW i \in Invoices, HandleWebhookFails(i) PROVE Books'
  <2>1. /\ hook[i] = "due" /\ invoice[i].paidAt = 0
        /\ UNCHANGED <<now, up, tables, hook, plan, until>>
    BY <1>6 DEF HandleWebhookFails, MarkInvoicePaidFails
  <2>2. CASE UNCHANGED <<invoice, half>>
    BY <2>1, <2>2 DEF Books, BillingTypeOK
  <2>3. CASE invoice' = [invoice EXCEPT ![i].paidAt = now] /\ half' = half \cup {i}
    BY <2>1, <2>3, BillingAssumption DEF Books, BillingTypeOK
  <2> QED BY <1>6, <2>2, <2>3 DEF HandleWebhookFails, MarkInvoicePaidFails, StampPaid
<1>7. ASSUME Tick PROVE Books'
  BY <1>7, BillingAssumption DEF Tick, Books, BillingTypeOK
<1>8. ASSUME UNCHANGED billingVars PROVE Books'
  BY <1>8 DEF billingVars, Books, BillingTypeOK
<1> QED BY <1>1, <1>2, <1>3, <1>4, <1>5, <1>6, <1>7, <1>8 DEF BillingNext

(* Tables and plans keep their types; what the provider has a webhook for  *)
(* is a saved invoice of a user (SaveInvoice comes before the pay URL).    *)
THEOREM BillingTyped == BillingSpec => []BillingTypeOK
<1>1. BillingSpec => []Books
  BY InitBooks, NextBooks, PTL DEF BillingSpec
<1>2. Books => BillingTypeOK
  BY DEF Books
<1> QED BY <1>1, <1>2, PTL

-----------------------------------------------------------------------------
(* What the provider was told stays told, and a stamp stays.               *)
Told == \A i \in Invoices : hook[i] = "acked" => invoice[i].paidAt # 0

LEMMA NextTold == Books /\ Told /\ [BillingNext]_billingVars => Told'
<1> SUFFICES ASSUME Books, Told, [BillingNext]_billingVars PROVE Told'
  OBVIOUS
<1>1. ASSUME UNCHANGED <<invoice, hook>> PROVE Told'
  BY <1>1 DEF Told
<1>2. ASSUME NEW i \in Invoices, NEW u \in Users, CreateInvoice(i, u) PROVE Told'
  BY <1>2 DEF CreateInvoice, Told, Books, BillingTypeOK
<1>3. ASSUME NEW i \in Invoices, Pay(i) PROVE Told'
  BY <1>3 DEF Pay, Told, Books, BillingTypeOK
<1>4. ASSUME NEW i \in Invoices, HandleWebhook(i) PROVE Told'
  <2>1. now # 0
    BY DEF Books, BillingTypeOK
  <2>2. invoice'[i].paidAt # 0 /\ \A j \in Invoices \ {i} : invoice'[j] = invoice[j] /\ hook'[j] = hook[j]
    BY <1>4, <2>1 DEF HandleWebhook, MarkInvoicePaid, StampPaid, Books, BillingTypeOK
  <2> QED BY <2>2 DEF Told
<1>5. ASSUME NEW i \in Invoices, HandleWebhookFails(i) PROVE Told'
  BY <1>5 DEF HandleWebhookFails, MarkInvoicePaidFails, StampPaid, Told, Books, BillingTypeOK
<1> QED BY <1>1, <1>2, <1>3, <1>4, <1>5
  DEF BillingNext, billingVars, BillingBoot, InitBillingSchema, InitBillingSchemaDies, Crash, Tick

(* The provider is told 200 only for an invoice that is stamped, and whose *)
(* customer is pro unless that one stamp was made without the plan (the    *)
(* answers of handleBillingWebhook).                                       *)
THEOREM AckedCorrect == BillingSpec => []AckedServed
<1>1. BillingInit => Told
  BY DEF BillingInit, Told
<1>2. Books /\ Told => AckedServed
  BY DEF Books, BillingTypeOK, Told, AckedServed, Pros
<1> QED BY <1>1, <1>2, InitBooks, NextBooks, NextTold, PTL DEF BillingSpec

-----------------------------------------------------------------------------
(* A step that changes neither what counts nor until.                      *)
LEMMA SameSums ==
  ASSUME Sums, until' = until,
         \A u \in Users : Served(u)' = Served(u),
         \A u \in Users : \A i \in Served(u) : invoice'[i].paidAt = invoice[i].paidAt
  PROVE  Sums'
<1> SUFFICES ASSUME NEW u \in Users
             PROVE  /\ IsFiniteSet(Served(u)')
                    /\ Served(u)' = {} => until'[u] = 0
                    /\ Served(u)' # {} => \E i \in Invoices :
                         First(u, i)' /\ until'[u] = invoice'[i].paidAt + Window * Cardinality(Served(u)')
  BY DEF Sums, SumOf
<1>1. \A i \in Invoices : First(u, i) => First(u, i)'
  BY DEF First
<1>2. \A i \in Invoices : First(u, i) => invoice'[i].paidAt = invoice[i].paidAt
  BY DEF First
<1> QED BY <1>1, <1>2 DEF Sums, SumOf

(* The payment that reaches the plan of v now.                             *)
LEMMA PaidSums ==
  ASSUME Books, Sums, NEW i \in Invoices, NEW v \in Users, invoice[i].user = v,
         invoice[i].paidAt = 0, i \notin half,
         StampPaid(i), until' = [until EXCEPT ![v] = Extended(v)], half' = half
  PROVE  Sums'
<1>1. /\ invoice'[i].paidAt = now /\ invoice'[i].user = v
      /\ \A j \in Invoices \ {i} : invoice'[j] = invoice[j]
      /\ now \in Nat \ {0} /\ \A j \in Invoices : invoice[j].paidAt \in Nat /\ invoice[j].paidAt <= now
  BY BillingAssumption DEF StampPaid, Books, BillingTypeOK
<1>2. Served(v)' = Served(v) \cup {i} /\ i \notin Served(v)
  BY <1>1 DEF Served
<1>3. ASSUME NEW u \in Users \ {v}
      PROVE  Served(u)' = Served(u) /\ until'[u] = until[u] /\ i \notin Served(u)
  BY <1>1 DEF Served, Books, BillingTypeOK
<1>4. until'[v] = Extended(v)
  BY DEF Books, BillingTypeOK
<1>5. /\ IsFiniteSet(Served(v)) /\ IsFiniteSet(Served(v)') /\ Cardinality(Served(v)) \in Nat
      /\ Cardinality(Served(v)') = Cardinality(Served(v)) + 1
  BY <1>2, FS_AddElement, FS_CardinalityType DEF Sums, SumOf
<1>6. \E j \in Invoices : First(v, j)' /\ until'[v] = invoice'[j].paidAt + Window * Cardinality(Served(v)')
  <2>1. CASE Served(v) = {}
    <3>1. until'[v] = now + Window /\ Cardinality(Served(v)') = 1
      BY <1>4, <1>5, <2>1, FS_EmptySet DEF Sums, SumOf, Extended
    <3>2. First(v, i)'
      BY <1>1, <1>2, <2>1 DEF First
    <3> QED BY <1>1, <3>1, <3>2, BillingAssumption
  <2>2. CASE Served(v) # {}
    <3>1. PICK j \in Invoices : First(v, j) /\ until[v] = invoice[j].paidAt + Window * Cardinality(Served(v))
      BY <2>2 DEF Sums, SumOf
    <3>2. j # i /\ invoice'[j] = invoice[j] /\ invoice[j].paidAt \in Nat \ {0}
      BY <1>1, <1>2, <3>1 DEF First, Served
    <3>3. First(v, j)'
      BY <1>1, <1>2, <3>1, <3>2 DEF First, Served
    <3>4. Window * Cardinality(Served(v)) \in Nat
          /\ Window * (Cardinality(Served(v)) + 1) = Window * Cardinality(Served(v)) + Window
      BY <1>5, BillingAssumption
    <3>5. until'[v] = until[v] + Window
      BY <1>4, <3>1, <3>2, <3>4 DEF Extended
    <3>6. until'[v] = invoice'[j].paidAt + Window * Cardinality(Served(v)')
      BY <1>5, <3>1, <3>2, <3>4, <3>5, BillingAssumption
    <3> QED BY <3>3, <3>6
  <2> QED BY <2>1, <2>2
<1>7. ASSUME NEW u \in Users \ {v}, Served(u) # {}
      PROVE  \E j \in Invoices : First(u, j)' /\ until'[u] = invoice'[j].paidAt + Window * Cardinality(Served(u)')
  <2>1. PICK j \in Invoices : First(u, j) /\ until[u] = invoice[j].paidAt + Window * Cardinality(Served(u))
    BY <1>7 DEF Sums, SumOf
  <2>2. Served(u)' = Served(u) /\ \A k \in Served(u) : invoice'[k] = invoice[k]
    BY <1>1, <1>3 DEF Served
  <2>3. First(u, j)' /\ invoice'[j] = invoice[j]
    BY <2>1, <2>2 DEF First
  <2> QED BY <1>3, <2>1, <2>2, <2>3
<1>8. SumOf(v)'
  BY <1>2, <1>5, <1>6 DEF SumOf
<1>9. ASSUME NEW u \in Users \ {v} PROVE SumOf(u)'
  BY <1>3, <1>7 DEF Sums, SumOf
<1> QED BY <1>8, <1>9 DEF Sums

LEMMA NextSums == Books /\ Sums /\ [BillingNext]_billingVars => Sums'
<1> SUFFICES ASSUME Books, Sums, [BillingNext]_billingVars PROVE Sums'
  OBVIOUS
<1>1. ASSUME UNCHANGED <<invoice, until, half>> PROVE Sums'
  BY <1>1, SameSums DEF Served
<1>2. ASSUME NEW i \in Invoices, NEW u \in Users, CreateInvoice(i, u) PROVE Sums'
  <2>1. /\ invoice[i].paidAt = 0 /\ invoice'[i].paidAt = 0
        /\ \A j \in Invoices \ {i} : invoice'[j] = invoice[j]
        /\ until' = until /\ half' = half
    BY <1>2 DEF CreateInvoice, Books, BillingTypeOK
  <2>2. \A v \in Users : Served(v)' = Served(v)
    BY <2>1 DEF Served
  <2> QED BY <2>1, <2>2, SameSums DEF Served
<1>3. ASSUME NEW i \in Invoices, HandleWebhook(i) PROVE Sums'
  <2>1. invoice[i].user \in Users /\ (i \in half => invoice[i].paidAt # 0) /\ half' = half
    BY <1>3 DEF HandleWebhook, Books, BillingTypeOK
  <2>2. CASE invoice[i].paidAt # 0
    BY <1>1, <1>3, <2>1, <2>2 DEF HandleWebhook, MarkInvoicePaid
  <2>3. CASE invoice[i].paidAt = 0
    <3>1. PICK v \in Users : v = invoice[i].user
      BY <2>1
    <3>2. StampPaid(i) /\ until' = [until EXCEPT ![v] = Extended(v)]
      BY <1>3, <2>3, <3>1 DEF HandleWebhook, MarkInvoicePaid, ExtendPro
    <3> QED BY <2>1, <2>3, <3>1, <3>2, PaidSums
  <2> QED BY <2>2, <2>3
<1>4. ASSUME NEW i \in Invoices, HandleWebhookFails(i) PROVE Sums'
  <2>1. invoice[i].paidAt = 0 /\ until' = until
    BY <1>4 DEF HandleWebhookFails, MarkInvoicePaidFails
  <2>2. CASE UNCHANGED <<invoice, half>>
    BY <1>1, <2>1, <2>2
  <2>3. CASE StampPaid(i) /\ half' = half \cup {i}
    <3>1. \A j \in Invoices \ {i} : invoice'[j] = invoice[j]
      BY <2>3 DEF StampPaid, Books, BillingTypeOK
    <3>2. \A u \in Users : Served(u)' = Served(u) /\ i \notin Served(u)
      BY <2>1, <2>3, <3>1 DEF Served
    <3> QED BY <2>1, <3>1, <3>2, SameSums DEF Served
  <2> QED BY <1>4, <2>2, <2>3 DEF HandleWebhookFails, MarkInvoicePaidFails
<1> QED BY <1>1, <1>2, <1>3, <1>4
  DEF BillingNext, billingVars, BillingBoot, InitBillingSchema, InitBillingSchemaDies, Crash, Pay, Tick

(* The first of finitely many stamps is their minimum.                     *)
LEMMA FirstIsMin ==
  ASSUME Books, NEW u \in Users, NEW i \in Invoices, First(u, i)
  PROVE  Min({invoice[j].paidAt : j \in Served(u)}) = invoice[i].paidAt
<1> DEFINE stamps == {invoice[j].paidAt : j \in Served(u)}
<1>1. invoice[i].paidAt \in stamps /\ \A t \in stamps : t \in Nat /\ invoice[i].paidAt <= t
  BY BillingAssumption DEF First, Served, Books, BillingTypeOK
<1> HIDE DEF stamps
<1>2. \A t \in stamps : (\A other \in stamps : t <= other) => t = invoice[i].paidAt
  BY <1>1
<1>3. Min(stamps) = invoice[i].paidAt
  BY <1>1, <1>2 DEF Min
<1> QED BY <1>3 DEF stamps

(* Paid time is the first payment that reached the plan and one window for *)
(* each that did, however often the provider repeats its call, wherever    *)
(* the server dies and whichever statement of MarkInvoicePaid fails.       *)
THEOREM PaidTimeCorrect == BillingSpec => []PaidTimeExact
<1>1. BillingInit => Sums
  <2> SUFFICES ASSUME BillingInit PROVE Sums
    OBVIOUS
  <2>1. \A u \in Users : Served(u) = {}
    BY DEF BillingInit, NoInvoice, Served
  <2> QED BY <2>1, FS_EmptySet DEF BillingInit, Sums, SumOf
<1>2. Books /\ Sums => PaidTimeExact
  BY FirstIsMin DEF Sums, SumOf, PaidTimeExact
<1> QED BY <1>1, <1>2, InitBooks, NextBooks, NextSums, PTL DEF BillingSpec
=============================================================================
