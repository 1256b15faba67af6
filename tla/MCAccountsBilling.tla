------------------------- MODULE MCAccountsBilling -------------------------
(* An instance for TLC of what the database keeps of its users: accounts   *)
(* and payments.  They share nothing, so a behaviour takes the steps of    *)
(* one of them.                                                            *)
EXTENDS Accounts, Billing

CONSTANTS u1, u2, p1, p2

VARIABLE part

allVars == <<vars, billingVars, part>>

(* Accounts at rest: up, migrated and without a request.                   *)
Resting ==
  /\ boot = "up" /\ minted = 0 /\ deaths = 0
  /\ schema = Tables \cup Tenants \cup {"user_id", "name", "kind"}
  /\ id = [n \in Names |-> 0] /\ linked = {} /\ rows = {}
  /\ adminID = 0 /\ master = 0 /\ login = [h \in Handlers |-> 0]
  /\ invite = [i \in Invites |-> [minted |-> FALSE, expired |-> FALSE, chat |-> NoChat]]
  /\ blind = FALSE /\ handed = {} /\ served = {} /\ granted = {}

AllInit ==
  /\ BillingInit
  /\ \/ part = "accounts" /\ Init
     \/ part = "billing" /\ Resting

AccountStep(A) == part = "accounts" /\ A /\ UNCHANGED <<billingVars, part>>
BillingStep(A) == part = "billing" /\ A /\ UNCHANGED <<vars, part>>

AllNext == AccountStep(Next) \/ BillingStep(BillingNext)

(* Fairness and BillingFairness, each of the behaviours that take its      *)
(* steps.                                                                  *)
AllSpec ==
  /\ AllInit /\ [][AllNext]_allVars
  /\ WF_allVars(AccountStep(NewPersistentStore))
  /\ SF_allVars(BillingStep(InitBillingSchema))
  /\ \A i \in Invoices : SF_allVars(BillingStep(HandleWebhook(i) /\ hook'[i] = "acked"))
=============================================================================
