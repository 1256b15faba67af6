---------------------------- MODULE MCHeartbeats ----------------------------
(* An instance for TLC of what a heartbeat meets in the server: the limits *)
(* of its user (NodeQuota) and the rules of its node (AlertRules).  They   *)
(* share nothing that is modelled here, so a behaviour takes the steps of  *)
(* one of them.                                                            *)
EXTENDS MCNodeQuota, MCAlertRules

VARIABLE part

AllInit == Init /\ RulesInit /\ part \in {"quota", "rules"}

(* The exempt user has no use for a plan, and one rule, of the other user, *)
(* may be disabled.                                                        *)
NoPlanForRoot == root \notin pro'
OneDisabled ==
  \A id \in DOMAIN rules' :
    ~rules'[id].enabled => id = 1 /\ rules'[id].user # Chief

AllNext ==
  \/ part = "quota" /\ Next /\ NoPlanForRoot /\ UNCHANGED <<rulesVars, part>>
  \/ part = "rules" /\ RulesNext /\ OneDisabled /\ UNCHANGED <<vars, part>>

AllSpec == AllInit /\ [][AllNext]_<<vars, rulesVars, part>>
=============================================================================
