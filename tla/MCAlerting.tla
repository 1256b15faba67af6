----------------------------- MODULE MCAlerting -----------------------------
(* An instance for TLC of whether a page may go out (Maintenance), of      *)
(* sending it (Delivery), and of the restarts the agent makes of services  *)
(* that failed (AutoHeal).  They share nothing but the clock, so a         *)
(* behaviour takes the steps of one of them.                               *)
EXTENDS Maintenance, Delivery, AutoHeal

CONSTANTS
  w1, w2, web, db, s1,
  LastWindow    \* bound: last instant of the steps of Maintenance

VARIABLE part

maintOnly == <<window, alert, notify, declared, quiet, paged, last>>
healOnly == <<active, breaker, agent, failed>>
vars == <<now, maintOnly, delivVars, healOnly, part>>

(* What Delivery's Init leaves open is open for its own steps only.        *)
Init ==
  /\ MaintStarts /\ DelivInit /\ HealStarts
  /\ \/ part \in {"maintenance", "windows"} /\ MaintInit
     \/ part = "delivery" /\ ClockInit
     \/ part = "heal" /\ HealInit
  /\ part # "delivery" => conf["telegram"] = "good"
  /\ part # "delivery" \/ conf["telegram"] = "none" => secret = NoSecret

(* One window, named as its nodes are, and all that pages; or two windows  *)
(* and nothing raised.                                                     *)
OneWindow ==
  /\ window'[w2] = NoWindow
  /\ window'[w1] # NoWindow => window'[w1].for.nodes \subseteq Hosts
NothingRaised == last' = Quietly /\ UNCHANGED <<alert, notify, paged>>

(* Without Telegram there are no buttons to sign.                          *)
SecretMatters == conf["telegram"] = "none" => secret' = NoSecret

MaintSteps == MaintNext /\ now' <= LastWindow /\ UNCHANGED <<delivVars, healOnly, part>>

Next ==
  \/ part = "maintenance" /\ MaintSteps /\ OneWindow
  \/ part = "windows" /\ MaintSteps /\ NothingRaised
  \/ part = "delivery" /\ DelivNext /\ SecretMatters /\ UNCHANGED <<now, maintOnly, healOnly, part>>
  \/ part = "heal" /\ HealNext /\ UNCHANGED <<maintOnly, delivVars, part>>

Spec == Init /\ [][Next]_vars

(* Maintenance: one node of a user's, whose name may be written with a     *)
(* blank.                                                                  *)
OneOwned == [n \in Hosts |-> "u1"]
Trimmed == [name \in Names |-> "h1"]

(* Delivery: Telegram alone, the chats alone, and a webhook with an URL    *)
(* that is no chat's.                                                      *)
TwoIncidents == <<"1", "2">>
Settings ==
  {[telegram |-> "good", webhook |-> "none", slack |-> "none", discord |-> "none"],
   [telegram |-> "none", webhook |-> "none", slack |-> "good", discord |-> "good"],
   [telegram |-> "none", webhook |-> "good", slack |-> "bad", discord |-> "none"]}

(* AutoHeal: two targets with strategies of their own, one that opens at   *)
(* the first failure and one that needs two in a row.                      *)
All(n) == [k \in Targets |-> n]
Three == All(3)
Four == All(4)
TwoForWeb == [k \in Targets |-> IF k = web THEN 2 ELSE 1]
TwoForDb == [k \in Targets |-> IF k = db THEN 2 ELSE 1]
=============================================================================
