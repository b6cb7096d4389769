---------------------------- MODULE MCExchange -----------------------------
(* Two recipients, so that one's channel can be lost while the loop waits for *)
(* the other's.                                                             *)
EXTENDS Exchange
=============================================================================
