------------------------ MODULE SharedStateExchange ------------------------
(***************************************************************************)
(* What createMultisig relies on when it awaits                            *)
(* exchangeSharedStateViaWebRTC (webrtc-signaling.ts): the creator hands    *)
(* the account's keys to the recipients one by one; the call returns only  *)
(* when every one was handed them, may throw at any time before, and hands *)
(* nothing to anyone once it is over.                                      *)
(***************************************************************************)
EXTENDS Naturals

CONSTANT Recipient

VARIABLES outcome, handed

Init ==
  /\ outcome = "running"
  /\ handed = {}

Hand(rs) ==
  /\ outcome = "running"
  /\ rs \subseteq Recipient
  /\ handed' = handed \cup rs
  /\ UNCHANGED outcome

Return ==
  /\ outcome = "running"
  /\ outcome' = "succeeded"
  /\ handed' = Recipient

Throw ==
  /\ outcome = "running"
  /\ outcome' = "failed"
  /\ UNCHANGED handed

Next == (\E rs \in SUBSET Recipient : Hand(rs)) \/ Return \/ Throw

Spec == Init /\ [][Next]_<<outcome, handed>>
=============================================================================
