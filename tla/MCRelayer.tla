----------------------------- MODULE MCRelayer -----------------------------
(* Two VAAs for Arbitrum, so that nonces can collide, one for Aztec, one for *)
(* neither chain, and bytes that are none.                                 *)
EXTENDS Relayer

MCRoute ==
  [v \in Vaa |-> CASE v \in {"intent1", "intent2"} -> "arbitrum"
                   [] v = "hello" -> "aztec"
                   [] v = "foreign" -> "other"
                   [] v = "garbage" -> "unparsable"]
=============================================================================
