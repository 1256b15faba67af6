----------------------------- MODULE MCBilling -----------------------------
(* An instance of Billing for TLC.                                         *)
EXTENDS Billing

CONSTANTS u1, u2, i1, i2, i3
=============================================================================
