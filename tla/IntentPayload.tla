---------------------------- MODULE IntentPayload ----------------------------
(***************************************************************************)
(* How a cross-chain intent travels: execute_cross_chain_intent publishes  *)
(* each field without its top byte, Wormhole's message carries the          *)
(* transaction id and the fields, and _processIntentPayload reads windows   *)
(* of it.  The offsets in the message are not in the repository's code; they *)
(* are those of the sample in ArbitrumIntentVault.t.sol: three zero bytes   *)
(* follow the third field.                                                 *)
(***************************************************************************)
EXTENDS Integers

Byte == 0..255
Word == [0..31 -> Byte]      \* a Field, or a transaction id: to_be_bytes

Field  == {"target_chain", "target_contract", "intent_type", "amount", "recipient"}
IntentBytes == [Field -> Word]

FieldAt == <<"target_chain", "target_contract", "intent_type", "amount", "recipient">>

\* payload[k], for k up to 4; the other three fields are zero.
Published(intent) == [k \in 1..5 |-> [i \in 0..30 |-> intent[FieldAt[k]][i + 1]]]

MessageLength == 190

Payload(txId, intent) ==
  LET payload == Published(intent) IN
  [i \in 0..MessageLength-1 |->
     CASE i < 32              -> txId[i]
       [] i \in 32..62        -> payload[1][i - 32]
       [] i \in 63..93        -> payload[2][i - 63]
       [] i \in 94..124       -> payload[3][i - 94]
       [] i \in 125..127      -> 0
       [] i \in 128..158      -> payload[4][i - 128]
       [] i > 158             -> payload[5][i - 159]]

\* mload and the shifts: n bytes from the offset on.
Window(message, offset, n) == [i \in 0..n-1 |-> message[offset + i]]

TxIdRead(message)           == Window(message, 0, 32)
TargetChainRead(message)    == Window(message, 32, 31)
TargetContractRead(message) == Window(message, 74, 20)
IntentTypeRead(message)     == Window(message, 95, 30)
UnpaddedAmount(message)     == Window(message, 127, 31)   \* (mutant)
AmountRead(message)         == Window(message, 128, 31)
RecipientRead(message)      == Window(message, 170, 20)

Decoded(message) ==
  [txId |-> TxIdRead(message), targetChain |-> TargetChainRead(message),
   targetContract |-> TargetContractRead(message), intentType |-> IntentTypeRead(message),
   amount |-> AmountRead(message), recipient |-> RecipientRead(message)]

\* How many low bytes of a field arrive.
Width == [f \in Field |-> CASE f \in {"target_chain", "amount"} -> 31
                            [] f = "intent_type" -> 30
                            [] f \in {"target_contract", "recipient"} -> 20]

\* An intent that loses nothing on the way.
Fits(intent) == \A f \in Field, i \in 0..31 : i < 32 - Width[f] => intent[f][i] = 0

\* uint256 of n bytes.
Value(bytes, n) ==
  LET value[i \in 0..n] == IF i = 0 THEN 0 ELSE 256 * value[i - 1] + bytes[i - 1]
  IN  value[n]
=============================================================================
