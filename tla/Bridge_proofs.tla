---------------------------- MODULE Bridge_proofs ----------------------------
(* What arrives of an intent, for every intent; and for every set of VAAs, of *)
(* publications and of goroutines, what the vault has on record, and how      *)
(* often it pays: what Relayer_proofs shows of the relayer's transactions is   *)
(* carried through the node's mempool to the vault.                          *)
EXTENDS EndToEnd, MultisigAccount_proofs, Relayer_proofs, SequenceTheorems,
        WellFoundedInduction

-----------------------------------------------------------------------------
(* The bytes of an intent *)

\* The least element of a set of naturals: the counterexample with which an
\* induction is refuted below.
LEMMA LeastElement ==
  ASSUME NEW S, S \subseteq Nat, S # {}
  PROVE  \E m \in S : \A n \in S : m <= n
<1> DEFINE R == OpToRel(<, Nat)
<1>1. \A m, n \in Nat : <<m, n>> \in R <=> m < n
  BY DEF OpToRel
<1>2. IsWellFoundedOn(R, Nat)
  BY NatLessThanWellFounded
<1> HIDE DEF R
<1>3. PICK m \in S : \A n \in S : ~ (<<n, m>> \in R)
  BY <1>2, WFMin
<1>4. m \in Nat /\ \A n \in S : n \in Nat /\ ~ (n < m)
  BY <1>1, <1>3
<1>5. \A n \in S : m <= n
  BY <1>4
<1> QED
  BY <1>3, <1>5

\* The low n bytes of a field.
Low(intent, f, n) == [i \in 0..n-1 |-> intent[f][i + 32 - n]]

\* A byte of the message is the byte of the field it was cut from.
LEMMA MessageBytes ==
  ASSUME NEW txId \in Word, NEW intent \in IntentBytes, NEW m, m = Payload(txId, intent)
  PROVE  /\ \A i \in 0..31 : m[i] = txId[i]
         /\ \A i \in 0..30 : /\ m[32 + i] = intent["target_chain"][i + 1]
                             /\ m[63 + i] = intent["target_contract"][i + 1]
                             /\ m[94 + i] = intent["intent_type"][i + 1]
                             /\ m[128 + i] = intent["amount"][i + 1]
                             /\ m[159 + i] = intent["recipient"][i + 1]
<1> DEFINE p == Published(intent)
<1>1. \A i \in 0..30 : /\ p[1][i] = intent["target_chain"][i + 1]
                       /\ p[2][i] = intent["target_contract"][i + 1]
                       /\ p[3][i] = intent["intent_type"][i + 1]
                       /\ p[4][i] = intent["amount"][i + 1]
                       /\ p[5][i] = intent["recipient"][i + 1]
  BY DEF Published, FieldAt
<1>2. \A i \in 0..31 : m[i] = txId[i]
  BY DEF Payload, MessageLength
<1>3. \A i \in 0..30 : m[32 + i] = p[1][i]
  BY DEF Payload, MessageLength
<1>4. \A i \in 0..30 : m[63 + i] = p[2][i]
  BY DEF Payload, MessageLength
<1>5. \A i \in 0..30 : m[94 + i] = p[3][i]
  BY DEF Payload, MessageLength
<1>6. \A i \in 0..30 : m[128 + i] = p[4][i]
  BY DEF Payload, MessageLength
<1>7. \A i \in 0..30 : m[159 + i] = p[5][i]
  BY DEF Payload, MessageLength
<1> HIDE DEF p
<1>8. ASSUME NEW i \in 0..30
      PROVE  /\ m[32 + i] = intent["target_chain"][i + 1]
             /\ m[63 + i] = intent["target_contract"][i + 1]
             /\ m[94 + i] = intent["intent_type"][i + 1]
             /\ m[128 + i] = intent["amount"][i + 1]
             /\ m[159 + i] = intent["recipient"][i + 1]
  BY <1>1, <1>3, <1>4, <1>5, <1>6, <1>7
<1> QED
  BY <1>2, <1>8

\* What the vault reads of a message is what the account published: of each
\* field its low bytes, 31 of the target chain and of the amount, 30 of the type
\* and 20 of the two addresses.
THEOREM FieldsArrive ==
  ASSUME NEW txId \in Word, NEW intent \in IntentBytes
  PROVE  Decoded(Payload(txId, intent)) =
           [txId |-> txId,
            targetChain |-> Low(intent, "target_chain", 31),
            targetContract |-> Low(intent, "target_contract", 20),
            intentType |-> Low(intent, "intent_type", 30),
            amount |-> Low(intent, "amount", 31),
            recipient |-> Low(intent, "recipient", 20)]
<1> DEFINE m == Payload(txId, intent)
<1>0. /\ \A i \in 0..31 : m[i] = txId[i]
      /\ \A i \in 0..30 : /\ m[32 + i] = intent["target_chain"][i + 1]
                          /\ m[63 + i] = intent["target_contract"][i + 1]
                          /\ m[94 + i] = intent["intent_type"][i + 1]
                          /\ m[128 + i] = intent["amount"][i + 1]
                          /\ m[159 + i] = intent["recipient"][i + 1]
  BY MessageBytes
<1> HIDE DEF m
<1>1. TxIdRead(m) = txId
  BY <1>0 DEF TxIdRead, Window, Word
<1>2. TargetChainRead(m) = Low(intent, "target_chain", 31)
  BY <1>0 DEF TargetChainRead, Window, Low
<1>3. TargetContractRead(m) = Low(intent, "target_contract", 20)
  <2>1. \A i \in 0..19 : m[74 + i] = intent["target_contract"][i + 12]
    <3> TAKE i \in 0..19
    <3>1. i + 11 \in 0..30 /\ 63 + (i + 11) = 74 + i /\ (i + 11) + 1 = i + 12
      OBVIOUS
    <3> QED
      BY <1>0, <3>1
  <2> QED
    BY <2>1 DEF TargetContractRead, Window, Low
<1>4. IntentTypeRead(m) = Low(intent, "intent_type", 30)
  <2>1. \A i \in 0..29 : m[95 + i] = intent["intent_type"][i + 2]
    <3> TAKE i \in 0..29
    <3>1. i + 1 \in 0..30 /\ 94 + (i + 1) = 95 + i /\ (i + 1) + 1 = i + 2
      OBVIOUS
    <3> QED
      BY <1>0, <3>1
  <2> QED
    BY <2>1 DEF IntentTypeRead, Window, Low
<1>5. AmountRead(m) = Low(intent, "amount", 31)
  BY <1>0 DEF AmountRead, Window, Low
<1>6. RecipientRead(m) = Low(intent, "recipient", 20)
  <2>1. \A i \in 0..19 : m[170 + i] = intent["recipient"][i + 12]
    <3> TAKE i \in 0..19
    <3>1. i + 11 \in 0..30 /\ 159 + (i + 11) = 170 + i /\ (i + 11) + 1 = i + 12
      OBVIOUS
    <3> QED
      BY <1>0, <3>1
  <2> QED
    BY <2>1 DEF RecipientRead, Window, Low
<1> QED
  BY <1>1, <1>2, <1>3, <1>4, <1>5, <1>6 DEF Decoded, m

\* Of intents that fit no two are confused: the vault tells any two apart.
THEOREM FittingIntentsDiffer ==
  ASSUME NEW txId \in Word, NEW a \in IntentBytes, NEW b \in IntentBytes, Fits(a), Fits(b),
         Decoded(Payload(txId, a)) = Decoded(Payload(txId, b))
  PROVE  a = b
<1>1. \A f \in Field : Low(a, f, Width[f]) = Low(b, f, Width[f])
  <2>1. /\ Low(a, "target_chain", 31) = Low(b, "target_chain", 31)
        /\ Low(a, "target_contract", 20) = Low(b, "target_contract", 20)
        /\ Low(a, "intent_type", 30) = Low(b, "intent_type", 30)
        /\ Low(a, "amount", 31) = Low(b, "amount", 31)
        /\ Low(a, "recipient", 20) = Low(b, "recipient", 20)
    BY FieldsArrive
  <2> QED
    BY <2>1 DEF Field, Width
<1>2. \A f \in Field : Width[f] \in 20..31
  BY DEF Field, Width
<1>3. ASSUME NEW f \in Field, NEW j \in 0..31 PROVE a[f][j] = b[f][j]
  <2>1. CASE j < 32 - Width[f]
    BY <2>1 DEF Fits
  <2>2. CASE j >= 32 - Width[f]
    <3> DEFINE n == Width[f]
               i == j - (32 - n)
    <3>1. n \in Int /\ i \in 0..n-1 /\ i + 32 - n = j
      BY <1>2, <2>2
    <3>2. Low(a, f, n)[i] = a[f][i + 32 - n] /\ Low(b, f, n)[i] = b[f][i + 32 - n]
      BY <3>1 DEF Low
    <3> QED
      BY <1>1, <3>1, <3>2
  <2> QED
    BY <1>2, <2>1, <2>2
<1>4. \A f \in Field : a[f] = b[f]
  <2>1. \A f \in Field : a[f] \in [0..31 -> Byte] /\ b[f] \in [0..31 -> Byte]
    BY DEF IntentBytes, Word
  <2> QED
    BY <1>3, <2>1
<1> QED
  BY <1>4 DEF IntentBytes

\* Value's recursion has a solution, which the CHOOSE in its definition takes.
IsValue(v, bytes, n) ==
  v = [i \in 0..n |-> IF i = 0 THEN 0 ELSE 256 * v[i - 1] + bytes[i - 1]]

LEMMA ValueExists ==
  ASSUME NEW bytes, NEW n \in Nat
  PROVE  \E v : IsValue(v, bytes, n)
<1> DEFINE T == {k \in Nat : ~\E v : IsValue(v, bytes, k)}
<1> SUFFICES ASSUME T # {} PROVE FALSE
  OBVIOUS
<1>1. PICK k \in T : \A j \in T : k <= j
  BY LeastElement
<1>2. k # 0
  <2> DEFINE z == [i \in 0..0 |-> 0]
  <2>1. IsValue(z, bytes, 0)
    BY DEF IsValue
  <2> QED
    BY <2>1
<1>3. PICK v : IsValue(v, bytes, k - 1)
  BY <1>1, <1>2
<1>4. \E w : IsValue(w, bytes, k)
  <2> DEFINE w == [i \in 0..k |-> IF i < k THEN v[i] ELSE 256 * v[k - 1] + bytes[k - 1]]
  <2>1. IsValue(w, bytes, k)
    BY <1>2, <1>3 DEF IsValue
  <2> HIDE DEF w
  <2> QED
    BY <2>1
<1> QED
  BY <1>4

LEMMA ValueUnfolds ==
  ASSUME NEW bytes, NEW n \in Nat
  PROVE  \E v : IsValue(v, bytes, n) /\ Value(bytes, n) = v[n]
<1> DEFINE v == CHOOSE v : IsValue(v, bytes, n)
<1>1. IsValue(v, bytes, n)
  BY ValueExists
<1>2. Value(bytes, n) = v[n]
  BY DEF Value, IsValue
<1> QED
  BY <1>1, <1>2

\* Leading zeros add nothing.
LEMMA LeadingZeros ==
  ASSUME NEW bytes, NEW n \in 0..32,
         \A i \in 0..31 : i < 32 - n => bytes[i] = 0
  PROVE  Value([i \in 0..n-1 |-> bytes[i + 32 - n]], n) = Value(bytes, 32)
<1> DEFINE low == [i \in 0..n-1 |-> bytes[i + 32 - n]]
<1>0. n \in Nat /\ 32 \in Nat
  OBVIOUS
<1>1. PICK v : IsValue(v, low, n) /\ Value(low, n) = v[n]
  <2> HIDE DEF low
  <2> QED
    BY <1>0, ValueUnfolds
<1>2. PICK u : IsValue(u, bytes, 32) /\ Value(bytes, 32) = u[32]
  BY ValueUnfolds
<1>3. ASSUME NEW i \in 0..32-n PROVE u[i] = 0
  <2> DEFINE T == {j \in 0..32-n : u[j] # 0}
  <2> SUFFICES ASSUME T # {} PROVE FALSE
    BY <1>3
  <2>1. PICK j \in T : \A k \in T : j <= k
    <3>1. T \subseteq Nat
      OBVIOUS
    <3> HIDE DEF T
    <3> QED
      BY <3>1, LeastElement
  <2>2. j # 0
    BY <1>2, <2>1 DEF IsValue
  <2>3. u[j - 1] = 0 /\ bytes[j - 1] = 0
    BY <2>1, <2>2
  <2> QED
    BY <1>2, <2>1, <2>2, <2>3 DEF IsValue
<1>4. ASSUME NEW i \in 0..n PROVE u[32 - n + i] = v[i]
  <2> DEFINE T == {j \in 0..n : u[32 - n + j] # v[j]}
  <2> SUFFICES ASSUME T # {} PROVE FALSE
    BY <1>4
  <2>1. PICK j \in T : \A k \in T : j <= k
    <3>1. T \subseteq Nat
      OBVIOUS
    <3> HIDE DEF T
    <3> QED
      BY <3>1, LeastElement
  <2>2. j # 0
    <3>1. v[0] = 0 /\ u[32 - n] = 0 /\ 32 - n + 0 = 32 - n
      BY <1>1, <1>3 DEF IsValue
    <3> QED
      BY <2>1, <3>1
  <2>3. u[32 - n + (j - 1)] = v[j - 1]
    BY <2>1, <2>2
  <2>4. v[j] = 256 * v[j - 1] + low[j - 1]
    BY <1>1, <2>1, <2>2 DEF IsValue
  <2>5. u[32 - n + j] = 256 * u[32 - n + j - 1] + bytes[32 - n + j - 1]
    BY <1>2, <2>1, <2>2 DEF IsValue
  <2>6. low[j - 1] = bytes[32 - n + j - 1]
    <3>1. j - 1 \in 0..n-1 /\ (j - 1) + 32 - n = 32 - n + j - 1
      BY <2>1, <2>2
    <3> QED
      BY <3>1
  <2>7. 32 - n + (j - 1) = 32 - n + j - 1
    BY <2>1
  <2> QED
    BY <2>1, <2>3, <2>4, <2>5, <2>6, <2>7
<1> QED
  BY <1>1, <1>2, <1>4

-----------------------------------------------------------------------------
(* How often the vault pays *)

\* The node mines what it accepted, once: a call of the vault, a transaction
\* that waits, and one that reverted are each another nonce.
CallsCovered ==
  /\ mempool \in Seq(Vaa)
  /\ calls \in Nat
  /\ outside \in Nat
  /\ calls + Len(mempool) <= pendingNonce + outside

BridgeInv == RInv /\ CallsCovered

LEMMA BridgeInitInv == BridgeInit => BridgeInv
<1> SUFFICES ASSUME BridgeInit PROVE BridgeInv
  OBVIOUS
<1>1. RInv
  BY InitRInv DEF BridgeInit
<1>2. CallsCovered
  BY DEF BridgeInit, RelayerInit, CallsCovered, V!IntentInit
<1> QED
  BY <1>1, <1>2 DEF BridgeInv

\* A step of the bridge is one of the relayer or leaves the relayer alone.
LEMMA StepsOfRelayer == BridgeNext \/ UNCHANGED bridgeVars => [RelayerNext]_relayerVars
<1>1. ASSUME NEW t \in TxId, Publish(t) PROVE UNCHANGED relayerVars
  BY <1>1 DEF Publish
<1>2. ASSUME NEW v \in Vaa, Deliver(v) PROVE RelayerNext
  BY <1>2 DEF Deliver, RelayerNext
<1>3. ASSUME NEW v \in Vaa, SubmitOutside(v) PROVE UNCHANGED relayerVars
  BY <1>3 DEF SubmitOutside
<1>4. ASSUME NEW w \in Worker, Send(w) PROVE RelayerNext
  BY <1>4 DEF Send, RelayerNext, WorkerStep
<1>5. RelayerStep => RelayerNext
  BY DEF RelayerStep, RelayerNext, WorkerStep
<1>6. Mine => UNCHANGED relayerVars
  BY DEF Mine
<1>7. UNCHANGED bridgeVars => UNCHANGED relayerVars
  BY DEF bridgeVars
<1> QED
  BY <1>1, <1>2, <1>3, <1>4, <1>5, <1>6, <1>7 DEF BridgeNext

\* The relayer's other steps send nothing.
LEMMA OthersSendNothing ==
  ASSUME RelayerStep \/ \E v \in Vaa : Deliver(v)
  PROVE  pendingNonce' = pendingNonce /\ UNCHANGED <<mempool, outside, calls>>
BY DEF RelayerStep, Deliver, DropProcessed, DropInflight, Accept, Dispatch, GetNonce, RpcError,
   NonceTaken, Finish, StreamError, Resubscribe, Shutdown, Stop, Crash, Restart, Tick,
   chainVars, ledger, vaultVars

LEMMA BridgeStepInv == BridgeInv /\ (BridgeNext \/ UNCHANGED bridgeVars) => BridgeInv'
<1> SUFFICES ASSUME BridgeInv, BridgeNext \/ UNCHANGED bridgeVars PROVE BridgeInv'
  OBVIOUS
<1>1. RInv'
  BY StepsOfRelayer, NextRInv DEF BridgeInv
<1>2. RelayerTypeOK /\ pendingNonce \in Nat
  BY MaxDeliveriesAssumption DEF BridgeInv, RInv, RelayerTypeOK
<1>3. CallsCovered'
  <2>1. ASSUME NEW t \in TxId, Publish(t) PROVE CallsCovered'
    BY <2>1 DEF Publish, relayerVars, ledger, vaultVars, BridgeInv, CallsCovered
  <2>2. ASSUME RelayerStep \/ \E v \in Vaa : Deliver(v) PROVE CallsCovered'
    BY <2>2, OthersSendNothing DEF BridgeInv, CallsCovered
  <2>3. ASSUME NEW v \in Vaa, SubmitOutside(v) PROVE CallsCovered'
    BY <1>2, <2>3 DEF SubmitOutside, Take, relayerVars, BridgeInv, CallsCovered, V!Verify
  <2>4. ASSUME NEW w \in Worker, Send(w) PROVE CallsCovered'
    <3>1. worker[w].vaa \in Vaa
      BY <1>2, <2>4, BusyFields DEF Send, SendTransaction, At
    <3>2. pendingNonce' = pendingNonce + 1 /\ mempool' = Append(mempool, worker[w].vaa)
          /\ outside' = outside /\ calls' = calls
      BY <2>4 DEF Send, SendTransaction, ledger, vaultVars
    <3> QED
      BY <1>2, <3>1, <3>2, AppendProperties DEF BridgeInv, CallsCovered
  <2>5. ASSUME Mine PROVE CallsCovered'
    <3>1. mempool # <<>> /\ mempool' = Tail(mempool)
          /\ outside' = outside /\ pendingNonce' = pendingNonce
      BY <2>5 DEF Mine, relayerVars
    <3>2. calls' \in {calls, calls + 1}
      BY <2>5 DEF Mine, Take, V!Verify, ledger, vaultVars
    <3>3. mempool' \in Seq(Vaa) /\ Len(mempool') = Len(mempool) - 1
      BY <3>1, HeadTailProperties DEF BridgeInv, CallsCovered
    <3> QED
      BY <1>2, <3>1, <3>2, <3>3 DEF BridgeInv, CallsCovered
  <2>6. CASE UNCHANGED bridgeVars
    BY <2>6 DEF bridgeVars, relayerVars, ledger, vaultVars, BridgeInv, CallsCovered
  <2> QED
    BY <2>1, <2>2, <2>3, <2>4, <2>5, <2>6 DEF BridgeNext
<1> QED
  BY <1>1, <1>3 DEF BridgeInv

\* Whatever is retried, restarted, late or redelivered, the vault executes at
\* most one call for each delivery of the spy, beyond those of others.
THEOREM OnePaymentPerDelivery == BridgeSpec => []PaidPerDelivery
<1>1. BridgeInv => PaidPerDelivery
  <2> SUFFICES ASSUME BridgeInv PROVE PaidPerDelivery
    OBVIOUS
  <2>1. Cardinality(Attempting) >= 0 /\ Cardinality(Attempting) \in Nat
    BY AttemptingFinite
  <2>2. pendingNonce \in Nat /\ deliveries \in Nat
    BY MaxDeliveriesAssumption DEF BridgeInv, RInv, RelayerTypeOK
  <2>3. Len(mempool) \in Nat
    BY DEF BridgeInv, CallsCovered
  <2> QED
    BY <2>1, <2>2, <2>3 DEF BridgeInv, CallsCovered, RInv, NoncesCovered, PaidPerDelivery
<1> QED
  BY <1>1, BridgeInitInv, BridgeStepInv, PTL DEF BridgeSpec

-----------------------------------------------------------------------------
(* What the vault has on record *)

\* What the vault decodes of a VAA is, of each field, the low bytes.
LEMMA DecodedVaa ==
  ASSUME NEW v \in Vaa
  PROVE  LET p == PayloadOf[v] IN
         /\ p \in IntentBytes
         /\ Vm[v].txId = TxIdOf[v] /\ TxIdOf[v] \in TxId
         /\ Vm[v].targetChain = Value(Low(p, "target_chain", 31), 31)
         /\ Vm[v].targetContract = Value(Low(p, "target_contract", 20), 20)
         /\ Vm[v].intentType = Value(Low(p, "intent_type", 30), 30)
         /\ Vm[v].amount = Value(Low(p, "amount", 31), 31)
         /\ Vm[v].recipient = Value(Low(p, "recipient", 20), 20)
<1> DEFINE t == TxIdOf[v]
           p == PayloadOf[v]
           zero == [i \in 0..31 |-> 0]
<1>1. t \in TxId /\ p \in IntentBytes /\ zero \in Word
  BY PublicationAssumption DEF Word, Byte
<1>2. Decoded(Payload(zero, p)) =
           [txId |-> zero,
            targetChain |-> Low(p, "target_chain", 31),
            targetContract |-> Low(p, "target_contract", 20),
            intentType |-> Low(p, "intent_type", 30),
            amount |-> Low(p, "amount", 31),
            recipient |-> Low(p, "recipient", 20)]
  <2> HIDE DEF p, zero
  <2> QED
    BY <1>1, FieldsArrive
<1>3. Vm[v] =
        [chain |-> 56, emitter |-> EmitterOf[v], valid |-> TRUE, long |-> TRUE,
         txId |-> t,
         targetChain |-> Value(Low(p, "target_chain", 31), 31),
         targetContract |-> Value(Low(p, "target_contract", 20), 20),
         intentType |-> Value(Low(p, "intent_type", 30), 30),
         amount |-> Value(Low(p, "amount", 31), 31),
         recipient |-> Value(Low(p, "recipient", 20), 20)]
  <2>1. Vm[v] =
         LET d == Decoded(Payload(zero, p))
         IN  [chain |-> 56, emitter |-> EmitterOf[v], valid |-> TRUE, long |-> TRUE,
              txId |-> t,
              targetChain |-> Value(d.targetChain, 31),
              targetContract |-> Value(d.targetContract, 20),
              intentType |-> Value(d.intentType, 30),
              amount |-> Value(d.amount, 31),
              recipient |-> Value(d.recipient, 20)]
    BY DEF Vm
  <2> HIDE DEF p, t, zero
  <2> QED
    BY <1>2, <2>1
<1> HIDE DEF p
<1> QED
  BY <1>1, <1>3 DEF p

\* What the vault decodes of a VAA of the account is what its transaction meant.
LEMMA DecodedIsMeant ==
  ASSUME NEW v \in Vaa, OfAccount(v)
  PROVE  LET m == Meant[TxIdOf[v]] IN
         /\ Vm[v].targetChain = m["target_chain"]
         /\ Vm[v].targetContract = m["target_contract"]
         /\ Vm[v].intentType = m["intent_type"]
         /\ Vm[v].amount = m["amount"]
         /\ Vm[v].recipient = m["recipient"]
<1> DEFINE t == TxIdOf[v]
           p == Publication[t]
<1>1. t \in TxId /\ p \in IntentBytes /\ Fits(p) /\ PayloadOf[v] = p
  BY PublicationAssumption
<1>2. ASSUME NEW f \in Field
      PROVE  Value(Low(p, f, Width[f]), Width[f]) = Value(p[f], 32)
  <2>1. Width[f] \in 0..32
    BY DEF Field, Width
  <2>2. \A i \in 0..31 : i < 32 - Width[f] => p[f][i] = 0
    BY <1>1 DEF Fits
  <2> HIDE DEF p
  <2> QED
    BY <2>1, <2>2, LeadingZeros DEF Low
<1>3. \A f \in Field : Meant[t][f] = Value(p[f], 32)
  BY <1>1 DEF Meant
<1>4. /\ Width["target_chain"] = 31 /\ Width["amount"] = 31
      /\ Width["target_contract"] = 20 /\ Width["recipient"] = 20
      /\ Width["intent_type"] = 30
  BY DEF Width, Field
<1>5. /\ Value(Low(p, "target_chain", 31), 31) = Meant[t]["target_chain"]
      /\ Value(Low(p, "target_contract", 20), 20) = Meant[t]["target_contract"]
      /\ Value(Low(p, "intent_type", 30), 30) = Meant[t]["intent_type"]
      /\ Value(Low(p, "amount", 31), 31) = Meant[t]["amount"]
      /\ Value(Low(p, "recipient", 20), 20) = Meant[t]["recipient"]
  <2> HIDE DEF t, p
  <2> QED
    BY <1>2, <1>3, <1>4 DEF Field
<1> HIDE DEF p
<1> QED
  BY <1>1, <1>5, DecodedVaa

\* Whatever the relayer works on, and whatever waits to be mined, was published, if
\* it is the account's.
SignedOnly ==
  /\ \A w \in Worker : worker[w] # Idle => Signed(worker[w].vaa)
  /\ \A i \in DOMAIN mempool : mempool[i] \in Vaa /\ Signed(mempool[i])

RecordsInv ==
  /\ DOMAIN arbitrumMessages = TxId
  /\ DOMAIN intentAmounts = TxId
  /\ DOMAIN intentTypes = TxId
  /\ DOMAIN intentTargets = TxId
  /\ OwnRecordsArePublished

DeliveryInv == BridgeInv /\ SignedOnly /\ RecordsInv

LEMMA DeliveryInitInv == BridgeInit => DeliveryInv
<1> SUFFICES ASSUME BridgeInit PROVE DeliveryInv
  OBVIOUS
<1>1. BridgeInv
  BY BridgeInitInv
<1>2. SignedOnly
  BY DEF BridgeInit, RelayerInit, SignedOnly
<1>3. RecordsInv
  BY DEF BridgeInit, V!IntentInit, V!StateInit, RecordsInv, OwnRecordsArePublished
<1> QED
  BY <1>1, <1>2, <1>3 DEF DeliveryInv

\* The vault records the VAA it executes.
LEMMA TakeRecords ==
  ASSUME RecordsInv, NEW v \in Vaa, Signed(v), Take(v), UNCHANGED published
  PROVE  RecordsInv'
<1> DEFINE t == TxIdOf[v]
           m == Meant[t]
           Own(u) == \A w \in taken : TxIdOf[w] = u => OfAccount(w)
<1>1. Vm[v].txId = t /\ t \in TxId
  BY DecodedVaa
<1>2. /\ arbitrumMessages' = [arbitrumMessages EXCEPT ![t] = Vm[v].amount]
      /\ intentAmounts' = [intentAmounts EXCEPT ![t] = Vm[v].amount]
      /\ intentTypes' = [intentTypes EXCEPT ![t] = Vm[v].intentType]
      /\ intentTargets' = [intentTargets EXCEPT ![t] = Vm[v].recipient]
      /\ blockChainId' = blockChainId
      /\ taken' = taken \cup {v}
  BY <1>1 DEF Take, V!Verify
<1>3. Meant' = Meant
  BY DEF Meant
<1>4. \A u \in TxId : Own(u)' => Own(u)
  BY <1>2
<1>5. Own(t)' => OfAccount(v)
  BY <1>2
<1>6. ASSUME OfAccount(v)
      PROVE  /\ t \in published
             /\ m["target_chain"] = blockChainId /\ m["target_contract"] = ThisVault
             /\ Vm[v].intentType = m["intent_type"]
             /\ Vm[v].amount = m["amount"]
             /\ Vm[v].recipient = m["recipient"]
  BY <1>6, DecodedIsMeant DEF Signed, Take, V!Verify, V!Accepts, V!AddressedHere
<1> HIDE DEF t, m, Own
<1>7. ASSUME NEW u \in TxId, arbitrumMessages'[u] > 0, Own(u)'
      PROVE  /\ u \in published'
             /\ Meant'[u]["target_chain"] = blockChainId'
             /\ Meant'[u]["target_contract"] = ThisVault
             /\ intentTypes'[u] = Meant'[u]["intent_type"]
             /\ intentAmounts'[u] = Meant'[u]["amount"]
             /\ intentTargets'[u] = Meant'[u]["recipient"]
  <2>1. CASE u = t
    BY <1>1, <1>2, <1>3, <1>5, <1>6, <1>7, <2>1 DEF RecordsInv, m
  <2>2. CASE u # t
    BY <1>1, <1>2, <1>3, <1>4, <1>7, <2>2 DEF RecordsInv, OwnRecordsArePublished, Own
  <2> QED
    BY <2>1, <2>2
<1>8. OwnRecordsArePublished'
  BY <1>7 DEF OwnRecordsArePublished, Own
<1> QED
  BY <1>2, <1>8 DEF RecordsInv

\* A step of the relayer takes VAAs from deliveries only.
LEMMA WorkersKeepTheirVaa ==
  ASSUME RelayerTypeOK, RelayerStep \/ \E w \in Worker : Send(w)
  PROVE  \A w \in Worker : worker'[w] # Idle =>
           worker[w] # Idle /\ worker'[w].vaa = worker[w].vaa
<1>1. \A w \in Worker : worker[w] # Idle => worker[w] \in Busy
  BY BusyFields
<1>2. worker \in [Worker -> {Idle} \cup Busy]
  BY DEF RelayerTypeOK
<1>3. ASSUME NEW w \in Worker, worker[w] # Idle, NEW u \in Worker,
             \/ \E pc : Goto(w, pc)
             \/ \E ok : Done(w, ok)
             \/ \E n : worker' = [worker EXCEPT ![w].pc = "send", ![w].nonce = n]
             \/ GoroutineEnds(w)
      PROVE  worker'[u] # Idle => worker[u] # Idle /\ worker'[u].vaa = worker[u].vaa
  BY <1>1, <1>2, <1>3 DEF Goto, Done, GoroutineEnds, Busy
<1>4. ASSUME NEW w \in Worker,
             Dispatch(w) \/ GetNonce(w) \/ RpcError(w) \/ NonceTaken(w) \/ Finish(w) \/ Send(w)
      PROVE  /\ worker[w] # Idle
             /\ \/ \E pc : Goto(w, pc)
                \/ \E ok : Done(w, ok)
                \/ \E n : worker' = [worker EXCEPT ![w].pc = "send", ![w].nonce = n]
                \/ GoroutineEnds(w)
  BY <1>4 DEF Dispatch, GetNonce, RpcError, NonceTaken, Finish, Send, SendTransaction, At
<1>5. ASSUME StreamError \/ Resubscribe \/ Shutdown \/ Stop \/ Restart \/ Tick
      PROVE  worker' = worker
  BY <1>5 DEF StreamError, Resubscribe, Shutdown, Stop, Restart, Tick
<1>6. Crash => \A w \in Worker : worker'[w] = Idle
  BY DEF Crash
<1> QED
  BY <1>3, <1>4, <1>5, <1>6 DEF RelayerStep

LEMMA DeliveryStepInv == DeliveryInv /\ (BridgeNext \/ UNCHANGED bridgeVars) => DeliveryInv'
<1> SUFFICES ASSUME DeliveryInv, BridgeNext \/ UNCHANGED bridgeVars PROVE DeliveryInv'
  OBVIOUS
<1>1. BridgeInv'
  BY BridgeStepInv DEF DeliveryInv
<1>2. RelayerTypeOK /\ SignedOnly /\ RecordsInv /\ mempool \in Seq(Vaa)
  BY DEF DeliveryInv, BridgeInv, RInv, CallsCovered
<1>3. ASSUME UNCHANGED <<published, ledger>> PROVE RecordsInv'
  BY <1>2, <1>3 DEF ledger, vaultVars, RecordsInv, OwnRecordsArePublished, Meant
<1>4. ASSUME NEW t \in TxId, Publish(t) PROVE SignedOnly' /\ RecordsInv'
  BY <1>2, <1>4 DEF Publish, relayerVars, ledger, vaultVars, SignedOnly, Signed, RecordsInv, OwnRecordsArePublished,
     Meant
<1>5. ASSUME NEW v \in Vaa, Deliver(v) PROVE SignedOnly' /\ RecordsInv'
  <2>1. \A w \in Worker : worker'[w] # Idle =>
          (worker[w] # Idle /\ worker'[w].vaa = worker[w].vaa) \/ worker'[w].vaa = v
    BY <1>2, <1>5 DEF Deliver, DropProcessed, DropInflight, Accept, RelayerTypeOK
  <2> QED
    BY <1>2, <1>3, <1>5, <2>1 DEF Deliver, SignedOnly, Signed
<1>6. ASSUME NEW v \in Vaa, SubmitOutside(v) PROVE SignedOnly' /\ RecordsInv'
  BY <1>2, <1>6, TakeRecords DEF SubmitOutside, relayerVars, SignedOnly, Signed
<1>7. ASSUME NEW w \in Worker, Send(w) PROVE SignedOnly' /\ RecordsInv'
  <2>1. worker[w].vaa \in Vaa /\ Signed(worker[w].vaa)
    BY <1>2, <1>7, BusyFields DEF Send, SendTransaction, At, SignedOnly
  <2>2. mempool' = Append(mempool, worker[w].vaa) /\ UNCHANGED <<published, ledger>>
    BY <1>7 DEF Send
  <2>3. \A i \in DOMAIN mempool' : mempool'[i] \in Vaa /\ Signed(mempool'[i])
    BY <1>2, <2>1, <2>2, AppendProperties DEF SignedOnly
  <2>4. \A u \in Worker : worker'[u] # Idle => Signed(worker'[u].vaa)
    BY <1>2, <1>7, WorkersKeepTheirVaa DEF SignedOnly
  <2> QED
    BY <1>3, <2>2, <2>3, <2>4 DEF SignedOnly, Signed
<1>8. ASSUME RelayerStep PROVE SignedOnly' /\ RecordsInv'
  <2>1. UNCHANGED <<published, mempool, ledger>>
    BY <1>8 DEF RelayerStep
  <2>2. \A u \in Worker : worker'[u] # Idle => Signed(worker'[u].vaa)
    BY <1>2, <1>8, WorkersKeepTheirVaa DEF SignedOnly
  <2> QED
    BY <1>2, <1>3, <2>1, <2>2 DEF SignedOnly, Signed
<1>9. ASSUME Mine PROVE SignedOnly' /\ RecordsInv'
  <2>1. mempool # <<>> /\ mempool' = Tail(mempool) /\ UNCHANGED <<relayerVars, published>>
    BY <1>9 DEF Mine
  <2>2. Head(mempool) \in Vaa /\ Signed(Head(mempool))
    BY <1>2, <2>1 DEF SignedOnly
  <2>3. \A i \in DOMAIN mempool' : i + 1 \in DOMAIN mempool /\ mempool'[i] = mempool[i + 1]
    BY <1>2, <2>1, HeadTailProperties
  <2>4. SignedOnly'
    BY <1>2, <2>1, <2>3 DEF SignedOnly, Signed, relayerVars
  <2>5. Take(Head(mempool)) \/ UNCHANGED ledger
    BY <1>9 DEF Mine
  <2>6. RecordsInv'
    BY <1>2, <1>3, <2>1, <2>2, <2>5, TakeRecords
  <2> QED
    BY <2>4, <2>6
<1>10. ASSUME UNCHANGED bridgeVars PROVE SignedOnly' /\ RecordsInv'
  BY <1>2, <1>3, <1>10 DEF bridgeVars, relayerVars, SignedOnly, Signed
<1> QED
  BY <1>1, <1>4, <1>5, <1>6, <1>7, <1>8, <1>9, <1>10 DEF BridgeNext, DeliveryInv

\* Whatever the relayer, the node and others do in whatever order, the vault
\* holds of a transaction nothing but what the account published in it, until it
\* takes a VAA of another emitter with the transaction's id.
THEOREM OwnRecordsStayPublished == BridgeSpec => []OwnRecordsArePublished
<1>1. DeliveryInv => OwnRecordsArePublished
  BY DEF DeliveryInv, RecordsInv
<1> QED
  BY <1>1, DeliveryInitInv, DeliveryStepInv, PTL DEF BridgeSpec

-----------------------------------------------------------------------------
(* Types *)

LEMMA ValueIsNat ==
  ASSUME NEW n \in Nat, NEW bytes \in [0..n-1 -> Byte]
  PROVE  Value(bytes, n) \in Nat
<1>1. PICK v : IsValue(v, bytes, n) /\ Value(bytes, n) = v[n]
  BY ValueUnfolds
<1> DEFINE T == {i \in 0..n : v[i] \notin Nat}
<1> SUFFICES ASSUME T # {} PROVE FALSE
  BY <1>1
<1>2. PICK i \in T : \A j \in T : i <= j
  <2>1. T \subseteq Nat
    OBVIOUS
  <2> HIDE DEF T
  <2> QED
    BY <2>1, LeastElement
<1>3. i # 0
  BY <1>1, <1>2 DEF IsValue
<1>4. i \in 0..n /\ v[i] \notin Nat /\ i - 1 \in 0..n-1
  BY <1>2, <1>3
<1>5. v[i - 1] \in Nat
  BY <1>2, <1>4
<1>6. bytes[i - 1] \in 0..255
  BY <1>4 DEF Byte
<1>7. v[i] = 256 * v[i - 1] + bytes[i - 1]
  BY <1>1, <1>3, <1>4 DEF IsValue
<1>8. \A x \in Nat, y \in 0..255 : 256 * x + y \in Nat
  OBVIOUS
<1>9. v[i] \in Nat
  <2> DEFINE x == v[i - 1]
             y == bytes[i - 1]
  <2>1. x \in Nat /\ y \in 0..255 /\ v[i] = 256 * x + y
    BY <1>5, <1>6, <1>7
  <2> HIDE DEF x, y
  <2> QED
    BY <2>1, <1>8
<1> QED
  BY <1>4, <1>9

LEMMA MeantIsNat == ASSUME NEW t \in TxId PROVE Meant[t]["amount"] \in Nat
<1> DEFINE a == Publication[t]["amount"]
<1>1. Meant[t]["amount"] = Value(a, 32)
  BY DEF Meant, Field
<1>2. a \in [0..32-1 -> Byte] /\ 32 \in Nat
  BY PublicationAssumption DEF IntentBytes, Word, Field
<1> HIDE DEF a
<1> QED
  BY <1>1, <1>2, ValueIsNat

LEMMA AmountIsNat == ASSUME NEW v \in Vaa PROVE Vm[v].amount \in Nat
<1> DEFINE a == Low(PayloadOf[v], "amount", 31)
<1>1. Vm[v].amount = Value(a, 31) /\ PayloadOf[v] \in IntentBytes
  BY DecodedVaa
<1>2. PayloadOf[v]["amount"] \in [0..31 -> Byte]
  BY <1>1 DEF IntentBytes, Word, Field
<1>3. a \in [0..31-1 -> Byte] /\ 31 \in Nat
  BY <1>2 DEF Low
<1> HIDE DEF a
<1> QED
  BY <1>1, <1>3, ValueIsNat

\* Each of the others' calls was a call.
BridgeTypeInv ==
  /\ BridgeInv
  /\ V!IntentTypeOK
  /\ published \subseteq TxId
  /\ outside \in 0..MaxOutside
  /\ outside <= calls
  /\ taken \subseteq Vaa
  /\ DOMAIN ownPaid = Account
  /\ \A a \in Account : ownPaid[a] \in 0..paid[a]

LEMMA BridgeTypeInit == BridgeInit => BridgeTypeInv
BY BridgeInitInv, MaxOutsideAssumption
   DEF BridgeInit, BridgeTypeInv, V!IntentInit, V!StateInit, V!IntentTypeOK, V!StateTypeOK,
       V!IntentType

\* A call that returns pays the recipient that the vault reads, or nobody.
LEMMA TakePays ==
  ASSUME V!IntentTypeOK, NEW v \in Vaa, Take(v)
  PROVE  /\ Vm[v].recipient \in Account /\ Vm[v].amount \in Nat
         /\ \/ paid' = paid
            \/ /\ Vm[v].intentType = V!TRANSFER
               /\ paid' = [paid EXCEPT ![Vm[v].recipient] = @ + Vm[v].amount]
         /\ paid' \in [Account -> Nat]
         /\ \A a \in Account : paid'[a] >= paid[a]
<1>1. Vm[v].recipient \in Account /\ Vm[v].amount \in Nat
  BY RecipientAssumption, AmountIsNat DEF Take, V!Verify, V!Accepts, V!WellFormed
<1>2. \/ paid' = paid
      \/ /\ Vm[v].intentType = V!TRANSFER
         /\ paid' = [paid EXCEPT ![Vm[v].recipient] = @ + Vm[v].amount]
  BY DEF Take, V!Verify, V!ExecuteIntent, V!Donate
<1>3. paid \in [Account -> Nat]
  BY DEF V!IntentTypeOK, V!StateTypeOK
<1> QED
  BY <1>1, <1>2, <1>3

LEMMA TakeTypes ==
  ASSUME BridgeTypeInv, calls \in Nat, NEW v \in Vaa, Take(v)
  PROVE  /\ V!IntentTypeOK' /\ calls' = calls + 1
         /\ (taken \subseteq Vaa)'
         /\ (DOMAIN ownPaid = Account)'
         /\ (\A a \in Account : ownPaid[a] \in 0..paid[a])'
<1>1. Vm[v].txId \in TxId /\ Vm[v].amount \in Nat
  BY DecodedVaa, AmountIsNat
<1>2. Vm[v].recipient \in Account /\ Vm[v].intentType \in V!IntentType
  BY RecipientAssumption DEF Take, V!Verify, V!Accepts, V!WellFormed
<1>3. paid' \in [Account -> Nat] /\ \A a \in Account : paid'[a] >= paid[a]
  BY TakePays DEF BridgeTypeInv
<1>4. V!IntentTypeOK' /\ calls' = calls + 1
  BY <1>1, <1>2, <1>3 DEF Take, V!Verify, BridgeTypeInv, V!IntentTypeOK, V!StateTypeOK
<1>5. (taken \subseteq Vaa)'
  BY DEF Take, BridgeTypeInv
<1>6. paid \in [Account -> Nat]
  BY DEF BridgeTypeInv, V!IntentTypeOK, V!StateTypeOK
<1>7. DOMAIN ownPaid' = Account /\ \A a \in Account : ownPaid'[a] \in 0..paid'[a]
  <2>1. \A a \in Account : ownPaid[a] \in 0..paid[a] /\ paid[a] \in Nat /\ paid'[a] \in Nat
    BY <1>3, <1>6 DEF BridgeTypeInv
  <2>2. CASE ownPaid' = ownPaid
    BY <1>3, <2>1, <2>2 DEF BridgeTypeInv
  <2>3. CASE ownPaid' = [a \in Account |-> ownPaid[a] + paid'[a] - paid[a]]
    BY <1>3, <2>1, <2>3
  <2> QED
    BY <2>2, <2>3 DEF Take
<1> QED
  BY <1>4, <1>5, <1>7

LEMMA BridgeTypeStep == BridgeTypeInv /\ (BridgeNext \/ UNCHANGED bridgeVars) => BridgeTypeInv'
<1> SUFFICES ASSUME BridgeTypeInv, BridgeNext \/ UNCHANGED bridgeVars PROVE BridgeTypeInv'
  OBVIOUS
<1>1. BridgeInv' /\ calls \in Nat /\ outside \in Nat
  BY BridgeStepInv DEF BridgeTypeInv, BridgeInv, CallsCovered
<1>2. CASE UNCHANGED <<ledger, published, outside>>
  BY <1>1, <1>2 DEF ledger, vaultVars, BridgeTypeInv, V!IntentTypeOK, V!StateTypeOK
<1>3. ASSUME NEW t \in TxId, Publish(t) PROVE BridgeTypeInv'
  BY <1>1, <1>3 DEF Publish, ledger, vaultVars, BridgeTypeInv, V!IntentTypeOK, V!StateTypeOK
<1>4. ASSUME NEW v \in Vaa, SubmitOutside(v) PROVE BridgeTypeInv'
  BY <1>1, <1>4, TakeTypes, MaxOutsideAssumption DEF SubmitOutside, BridgeTypeInv
<1>5. ASSUME Mine PROVE BridgeTypeInv'
  <2>1. mempool # <<>> /\ UNCHANGED <<published, outside>>
    BY <1>5 DEF Mine
  <2>2. Head(mempool) \in Vaa
    BY <2>1 DEF BridgeTypeInv, BridgeInv, CallsCovered
  <2>3. Take(Head(mempool)) \/ UNCHANGED ledger
    BY <1>5 DEF Mine
  <2> QED
    BY <1>1, <1>2, <2>1, <2>2, <2>3, TakeTypes DEF BridgeTypeInv
<1>6. ASSUME NEW v \in Vaa, Deliver(v) PROVE UNCHANGED <<ledger, published, outside>>
  BY <1>6 DEF Deliver
<1>7. ASSUME NEW w \in Worker, Send(w) PROVE UNCHANGED <<ledger, published, outside>>
  BY <1>7 DEF Send
<1>8. ASSUME RelayerStep PROVE UNCHANGED <<ledger, published, outside>>
  BY <1>8 DEF RelayerStep
<1>9. ASSUME UNCHANGED bridgeVars PROVE UNCHANGED <<ledger, published, outside>>
  BY <1>9 DEF bridgeVars
<1> QED
  BY <1>2, <1>3, <1>4, <1>5, <1>6, <1>7, <1>8, <1>9 DEF BridgeNext

\* Every part of the bridge keeps its type; no more transactions wait than the
\* node gave out nonces.
THEOREM BridgeTypeCorrect == BridgeSpec => []BridgeTypeOK
<1>1. BridgeTypeInv => BridgeTypeOK
  BY DEF BridgeTypeInv, BridgeInv, RInv, CallsCovered, BridgeTypeOK, RelayerTypeOK
<1> QED
  BY <1>1, BridgeTypeInit, BridgeTypeStep, PTL DEF BridgeSpec

-----------------------------------------------------------------------------
(* Whom the vault has paid *)

\* t is a transfer to a that the account published for this vault, with an amount
\* that a has through the account's VAAs.
Justifies(t, a) ==
  /\ Meant[t]["target_chain"] = blockChainId
  /\ Meant[t]["target_contract"] = ThisVault
  /\ Meant[t]["intent_type"] = V!TRANSFER
  /\ Meant[t]["recipient"] = a
  /\ Meant[t]["amount"] <= ownPaid[a]
  /\ arbitrumMessages[t] > 0

\* v is a transfer to a of somebody else.
Intrudes(v, a) == ~OfAccount(v) /\ Vm[v].intentType = V!TRANSFER /\ Vm[v].recipient = a

PaymentInv == DeliveryInv /\ BridgeTypeInv /\ OwnVaasPayAsMeant

\* No record is undone: an execution writes a positive amount over it.
LEMMA TakeKeepsRecords ==
  ASSUME BridgeTypeInv, NEW v \in Vaa, Take(v)
  PROVE  /\ arbitrumMessages'[TxIdOf[v]] > 0
         /\ \A t \in TxId : arbitrumMessages[t] > 0 => arbitrumMessages'[t] > 0
<1>1. Vm[v].txId = TxIdOf[v] /\ TxIdOf[v] \in TxId
  BY DecodedVaa
<1>2. Vm[v].amount > 0
  BY DEF Take, V!Verify, V!Accepts, V!WellFormed
<1>3. DOMAIN arbitrumMessages = TxId
  BY DEF BridgeTypeInv, V!IntentTypeOK, V!StateTypeOK
<1>4. arbitrumMessages' = [arbitrumMessages EXCEPT ![TxIdOf[v]] = Vm[v].amount]
  BY <1>1 DEF Take, V!Verify
<1> QED
  BY <1>1, <1>2, <1>3, <1>4

\* What justified a payment still does.
LEMMA StillJustified ==
  ASSUME BridgeTypeInv, NEW v \in Vaa, Take(v), NEW t \in TxId, NEW a \in Account, Justifies(t, a)
  PROVE  Justifies(t, a)'
<1>1. ownPaid[a] \in Nat /\ ownPaid'[a] \in Nat /\ ownPaid'[a] >= ownPaid[a]
  <2>1. paid[a] \in Nat /\ paid'[a] \in Nat /\ paid'[a] >= paid[a] /\ ownPaid[a] \in 0..paid[a]
    BY TakePays DEF BridgeTypeInv, V!IntentTypeOK, V!StateTypeOK
  <2> QED
    BY <2>1 DEF Take
<1>2. Meant[t]["amount"] \in Nat
  BY MeantIsNat
<1>3. Meant' = Meant /\ blockChainId' = blockChainId
  BY DEF Meant, Take, V!Verify
<1>4. arbitrumMessages'[t] > 0
  BY TakeKeepsRecords DEF Justifies
<1>5. Meant[t]["amount"] <= ownPaid'[a]
  BY <1>1, <1>2 DEF Justifies
<1> QED
  BY <1>3, <1>4, <1>5 DEF Justifies

\* An execution of the account's VAA pays what its transaction meant, on top of what
\* was paid.
LEMMA OwnTakePays ==
  ASSUME BridgeTypeInv, NEW v \in Vaa, OfAccount(v), Take(v),
         NEW a \in Account, ~(ownPaid[a] > 0), ownPaid'[a] > 0
  PROVE  Justifies(TxIdOf[v], a)'
<1> DEFINE t == TxIdOf[v]
           m == Meant[t]
<1>1. /\ Vm[v].targetChain = m["target_chain"]
      /\ Vm[v].targetContract = m["target_contract"]
      /\ Vm[v].intentType = m["intent_type"]
      /\ Vm[v].amount = m["amount"]
      /\ Vm[v].recipient = m["recipient"]
  BY DecodedIsMeant
<1>2. m["target_chain"] = blockChainId /\ m["target_contract"] = ThisVault
  BY <1>1 DEF Take, V!Verify, V!Accepts, V!AddressedHere
<1>3. paid \in [Account -> Nat] /\ ownPaid[a] \in Nat
  BY DEF BridgeTypeInv, V!IntentTypeOK, V!StateTypeOK
<1>4. ownPaid'[a] = ownPaid[a] + paid'[a] - paid[a]
  BY DEF Take
<1>5. m["amount"] \in Nat
  BY <1>1, AmountIsNat
<1> HIDE DEF m
<1>6. /\ m["recipient"] \in Account
      /\ \/ paid' = paid
         \/ /\ m["intent_type"] = V!TRANSFER
            /\ paid' = [paid EXCEPT ![m["recipient"]] = @ + m["amount"]]
  BY <1>1, TakePays DEF BridgeTypeInv
<1>7. m["intent_type"] = V!TRANSFER /\ a = m["recipient"] /\ paid'[a] = paid[a] + m["amount"]
  BY <1>3, <1>4, <1>6
<1>8. m["amount"] <= ownPaid'[a]
  <2>1. paid[a] \in Nat
    BY <1>3
  <2> QED
    BY <1>3, <1>4, <1>5, <1>7, <2>1
<1>9. Meant' = Meant /\ blockChainId' = blockChainId
  BY DEF Meant, Take, V!Verify
<1>10. arbitrumMessages'[t] > 0
  BY TakeKeepsRecords
<1> QED
  BY <1>2, <1>7, <1>8, <1>9, <1>10 DEF Justifies, m

\* What the two sums differ by, an execution of somebody else's VAA paid.
LEMMA DifferenceIsTaken ==
  ASSUME BridgeTypeInv, OwnVaasPayAsMeant, NEW v \in Vaa, Take(v),
         NEW a \in Account, paid'[a] # ownPaid'[a]
  PROVE  \E u \in taken' : Intrudes(u, a)
<1>1. taken' = taken \cup {v}
  BY DEF Take
<1>2. CASE paid[a] # ownPaid[a]
  BY <1>1, <1>2 DEF OwnVaasPayAsMeant, Intrudes
<1>3. CASE paid[a] = ownPaid[a]
  <2>1. paid[a] \in Nat /\ paid'[a] \in Nat /\ paid \in [Account -> Nat]
    BY TakePays DEF BridgeTypeInv, V!IntentTypeOK, V!StateTypeOK
  <2>2. ~OfAccount(v)
    BY <1>3, <2>1 DEF Take
  <2>3. paid'[a] # paid[a]
    BY <1>3, <2>2 DEF Take
  <2>4. Vm[v].intentType = V!TRANSFER /\ Vm[v].recipient = a
    BY <2>1, <2>3, TakePays DEF BridgeTypeInv
  <2> QED
    BY <1>1, <2>2, <2>4 DEF Intrudes
<1> QED
  BY <1>2, <1>3

LEMMA TakeKeepsPayments ==
  ASSUME BridgeTypeInv, OwnVaasPayAsMeant, NEW v \in Vaa, Signed(v), Take(v), UNCHANGED published
  PROVE  OwnVaasPayAsMeant'
<1>1. published \subseteq TxId
  BY DEF BridgeTypeInv
<1>2. ASSUME NEW a \in Account, ownPaid'[a] > 0
      PROVE  \E t \in published' : Justifies(t, a)'
  <2>1. CASE ownPaid[a] > 0
    <3>1. PICK t \in published : Justifies(t, a)
      BY <2>1 DEF OwnVaasPayAsMeant, Justifies
    <3>2. Justifies(t, a)'
      BY <1>1, <3>1, StillJustified
    <3> QED
      BY <3>1, <3>2
  <2>2. CASE ~(ownPaid[a] > 0)
    <3>1. OfAccount(v)
      BY <1>2, <2>2 DEF Take
    <3>2. TxIdOf[v] \in published' /\ Justifies(TxIdOf[v], a)'
      BY <1>2, <2>2, <3>1, OwnTakePays DEF Signed
    <3> QED
      BY <3>2
  <2> QED
    BY <2>1, <2>2
<1>3. ASSUME NEW a \in Account, paid'[a] # ownPaid'[a]
      PROVE  \E u \in taken' : Intrudes(u, a)
  BY <1>3, DifferenceIsTaken
<1>4. Vm' = Vm
  BY DEF Vm
<1> QED
  BY <1>2, <1>3, <1>4 DEF OwnVaasPayAsMeant, Justifies, Intrudes, OfAccount

LEMMA PaymentStepInv == PaymentInv /\ (BridgeNext \/ UNCHANGED bridgeVars) => PaymentInv'
<1> SUFFICES ASSUME PaymentInv, BridgeNext \/ UNCHANGED bridgeVars PROVE PaymentInv'
  OBVIOUS
<1>1. DeliveryInv' /\ BridgeTypeInv'
  BY DeliveryStepInv, BridgeTypeStep DEF PaymentInv
<1>2. Meant' = Meant
  BY DEF Meant
<1>3. ASSUME UNCHANGED ledger, published \subseteq published' PROVE OwnVaasPayAsMeant'
  <2>1. /\ paid' = paid /\ ownPaid' = ownPaid /\ taken' = taken
        /\ arbitrumMessages' = arbitrumMessages /\ blockChainId' = blockChainId
    BY <1>3 DEF ledger, vaultVars
  <2>2. Vm' = Vm
    BY DEF Vm
  <2>3. ASSUME NEW a \in Account, ownPaid'[a] > 0
        PROVE  \E t \in published' : Justifies(t, a)'
    <3>1. PICK t \in published : Justifies(t, a)
      BY <2>1, <2>3 DEF PaymentInv, OwnVaasPayAsMeant, Justifies
    <3>2. t \in published' /\ Justifies(t, a)'
      BY <1>2, <1>3, <2>1, <3>1 DEF Justifies
    <3> QED
      BY <3>2
  <2>4. \A a \in Account : paid'[a] # ownPaid'[a] => \E v \in taken' : Intrudes(v, a)'
    BY <2>1, <2>2 DEF PaymentInv, OwnVaasPayAsMeant, Intrudes, OfAccount
  <2> QED
    BY <2>3, <2>4 DEF OwnVaasPayAsMeant, Justifies, Intrudes
<1>4. ASSUME NEW v \in Vaa, SubmitOutside(v) PROVE OwnVaasPayAsMeant'
  BY <1>4, TakeKeepsPayments DEF SubmitOutside, PaymentInv
<1>5. ASSUME Mine PROVE OwnVaasPayAsMeant'
  <2>1. mempool # <<>> /\ UNCHANGED published
    BY <1>5 DEF Mine
  <2>2. Head(mempool) \in Vaa /\ Signed(Head(mempool))
    BY <2>1 DEF PaymentInv, DeliveryInv, BridgeInv, CallsCovered, SignedOnly
  <2>3. Take(Head(mempool)) \/ UNCHANGED ledger
    BY <1>5 DEF Mine
  <2> QED
    BY <1>3, <2>1, <2>2, <2>3, TakeKeepsPayments DEF PaymentInv
<1>6. ASSUME NEW t \in TxId, Publish(t) PROVE OwnVaasPayAsMeant'
  BY <1>3, <1>6 DEF Publish
<1>7. ASSUME NEW v \in Vaa, Deliver(v) PROVE OwnVaasPayAsMeant'
  BY <1>3, <1>7 DEF Deliver
<1>8. ASSUME NEW w \in Worker, Send(w) PROVE OwnVaasPayAsMeant'
  BY <1>3, <1>8 DEF Send
<1>9. RelayerStep \/ UNCHANGED bridgeVars => OwnVaasPayAsMeant'
  BY <1>3 DEF RelayerStep, bridgeVars
<1>10. OwnVaasPayAsMeant'
  BY <1>4, <1>5, <1>6, <1>7, <1>8, <1>9 DEF BridgeNext
<1> QED
  BY <1>1, <1>10 DEF PaymentInv

\* Whoever submits what, and how often, the account's own VAAs bring tokens to the
\* recipients that it named for the vault, and to no one else; and whatever else the
\* vault has paid, a VAA of another emitter named its recipient.
THEOREM OwnVaasPayOnlyMeant == BridgeSpec => []OwnVaasPayAsMeant
<1>1. BridgeInit => PaymentInv
  <2> SUFFICES ASSUME BridgeInit PROVE PaymentInv
    OBVIOUS
  <2>1. \A a \in Account : paid[a] = 0 /\ ownPaid[a] = 0
    BY DEF BridgeInit, V!IntentInit, V!StateInit
  <2> QED
    BY <2>1, DeliveryInitInv, BridgeTypeInit DEF PaymentInv, OwnVaasPayAsMeant
<1>2. PaymentInv => OwnVaasPayAsMeant
  BY DEF PaymentInv
<1> QED
  BY <1>1, <1>2, PaymentStepInv, PTL DEF BridgeSpec

-----------------------------------------------------------------------------
(* What the relayer calls processed *)

\* A VAA is at the node, or beyond it.
Arrived(v) == v \in taken \/ Waits(v)

\* A goroutine knows that the node accepted it, or one did and ended.
Acknowledged(v) ==
  \/ lastSuccess[v] # Never
  \/ \E w \in Worker : worker[w] # Idle /\ worker[w].vaa = v /\ worker[w].ok

AckInv ==
  \A v \in Vaa :
    Route[v] = "arbitrum" /\ V!Accepts(Vm[v]) /\ Acknowledged(v) => Arrived(v)

SubmissionInv == BridgeTypeInv /\ AckInv

\* Whether the vault takes a VAA is settled once it is deployed.
LEMMA AcceptanceIsSettled ==
  ASSUME BridgeNext \/ UNCHANGED bridgeVars, NEW v \in Vaa
  PROVE  V!Accepts(Vm[v])' = V!Accepts(Vm[v])
<1>1. blockChainId' = blockChainId
  BY DEF BridgeNext, Publish, Deliver, SubmitOutside, Send, RelayerStep, Mine, Take, V!Verify,
     bridgeVars, ledger, vaultVars
<1>2. Vm' = Vm
  BY DEF Vm
<1> QED
  BY <1>1, <1>2 DEF V!Accepts, V!Verified, V!IsFork, V!WellFormed, V!AddressedHere

\* What waits is mined: it leaves the node for the vault.
LEMMA ArrivedStays ==
  ASSUME BridgeTypeInv, BridgeNext \/ UNCHANGED bridgeVars,
         NEW v \in Vaa, V!Accepts(Vm[v]), Arrived(v)
  PROVE  Arrived(v)'
<1>1. mempool \in Seq(Vaa) /\ RelayerTypeOK
  BY DEF BridgeTypeInv, BridgeInv, CallsCovered, RInv
<1>2. CASE UNCHANGED <<taken, mempool>>
  BY <1>2 DEF Arrived, Waits
<1>3. ASSUME NEW u \in Vaa, SubmitOutside(u) PROVE Arrived(v)'
  BY <1>3 DEF SubmitOutside, Take, Arrived, Waits
<1>4. ASSUME NEW w \in Worker, Send(w) PROVE Arrived(v)'
  <2>1. worker[w].vaa \in Vaa
    BY <1>1, <1>4, BusyFields DEF Send, SendTransaction, At
  <2>2. taken' = taken /\ mempool' = Append(mempool, worker[w].vaa)
    BY <1>4 DEF Send, ledger, vaultVars
  <2>3. \A i \in DOMAIN mempool : i \in DOMAIN mempool' /\ mempool'[i] = mempool[i]
    BY <1>1, <2>1, <2>2, AppendProperties
  <2> QED
    BY <2>2, <2>3 DEF Arrived, Waits
<1>5. ASSUME Mine PROVE Arrived(v)'
  <2>1. mempool # <<>> /\ mempool' = Tail(mempool) /\ Head(mempool) \in Vaa
    BY <1>1, <1>5 DEF Mine
  <2>2. /\ V!Accepts(Vm[Head(mempool)]) => Head(mempool) \in taken'
        /\ taken \subseteq taken'
    BY <1>5 DEF Mine, Take, ledger
  <2>3. CASE v \in taken
    BY <2>2, <2>3 DEF Arrived
  <2>4. ASSUME NEW i \in DOMAIN mempool, mempool[i] = v PROVE Arrived(v)'
    <3>1. CASE i = 1
      BY <2>1, <2>2, <2>4, <3>1 DEF Arrived
    <3>2. CASE i # 1
      <4>1. i - 1 \in DOMAIN mempool' /\ mempool'[i - 1] = mempool[i]
        BY <1>1, <2>1, <3>2, HeadTailProperties
      <4> QED
        BY <2>4, <4>1 DEF Arrived, Waits
    <3> QED
      BY <3>1, <3>2
  <2> QED
    BY <2>3, <2>4 DEF Arrived, Waits
<1>6. ASSUME NEW t \in TxId, Publish(t) PROVE UNCHANGED <<taken, mempool>>
  BY <1>6 DEF Publish, ledger, vaultVars
<1>7. ASSUME NEW u \in Vaa, Deliver(u) PROVE UNCHANGED <<taken, mempool>>
  BY <1>7 DEF Deliver, ledger, vaultVars
<1>8. RelayerStep \/ UNCHANGED bridgeVars => UNCHANGED <<taken, mempool>>
  BY DEF RelayerStep, bridgeVars, ledger, vaultVars
<1> QED
  BY <1>2, <1>3, <1>4, <1>5, <1>6, <1>7, <1>8 DEF BridgeNext

\* A goroutine succeeds by sending, if its VAA is for Arbitrum at all.
LEMMA AcknowledgedBySending ==
  ASSUME BridgeTypeInv, BridgeNext \/ UNCHANGED bridgeVars,
         NEW v \in Vaa, Route[v] = "arbitrum", Acknowledged(v)', ~Acknowledged(v)
  PROVE  \E w \in Worker : Send(w) /\ worker[w].vaa = v
<1>1. RelayerTypeOK /\ worker \in [Worker -> {Idle} \cup Busy]
  BY DEF BridgeTypeInv, BridgeInv, RInv, RelayerTypeOK
<1>2. \A w \in Worker : worker[w] # Idle => worker[w] \in Busy /\ worker[w].ok \in BOOLEAN
  BY <1>1, BusyFields DEF Busy
<1> DEFINE Quiet == /\ lastSuccess'[v] # Never => lastSuccess[v] # Never
                    /\ \A w \in Worker :
                         worker'[w] # Idle /\ worker'[w].vaa = v /\ worker'[w].ok =>
                           worker[w] # Idle /\ worker[w].vaa = v /\ worker[w].ok
<1>3. ~Quiet
  BY DEF Acknowledged
<1>4. UNCHANGED <<worker, lastSuccess>> => Quiet
  OBVIOUS
<1>5. ASSUME NEW u \in Vaa, Deliver(u) PROVE Quiet
  BY <1>1, <1>5 DEF Deliver, DropProcessed, DropInflight, Accept, dedupeVars
<1>6. ASSUME NEW w \in Worker, GetNonce(w) \/ RpcError(w) \/ NonceTaken(w) PROVE Quiet
  BY <1>1, <1>2, <1>6 DEF GetNonce, RpcError, NonceTaken, Done, At, dedupeVars, Busy
<1>7. ASSUME NEW w \in Worker, Dispatch(w) PROVE Quiet
  <2>1. worker[w] # Idle /\ worker[w] \in Busy /\ lastSuccess' = lastSuccess
    BY <1>2, <1>7 DEF Dispatch, At, dedupeVars
  <2>2. CASE Done(w, FALSE)
    BY <1>1, <1>2, <2>1, <2>2 DEF Done, Busy
  <2>3. CASE Route[worker[w].vaa] # "arbitrum" /\ Done(w, TRUE)
    BY <1>1, <1>2, <2>1, <2>3 DEF Done, Busy
  <2>4. CASE \E pc : Goto(w, pc)
    BY <1>1, <1>2, <2>1, <2>4 DEF Goto, Busy
  <2> QED
    BY <1>7, <2>2, <2>3, <2>4 DEF Dispatch
<1>8. ASSUME NEW w \in Worker, Finish(w) PROVE Acknowledged(v)' => Acknowledged(v)
  <2>1. worker[w] # Idle
    BY <1>8 DEF Finish, At
  <2>2. worker' = [worker EXCEPT ![w] = Idle]
    BY <1>8 DEF Finish, GoroutineEnds
  <2>3. \A u \in Worker : worker'[u] # Idle => worker'[u] = worker[u]
    BY <1>1, <2>2
  <2>4. \/ lastSuccess' = lastSuccess
        \/ worker[w].ok /\ lastSuccess' = [lastSuccess EXCEPT ![worker[w].vaa] = now]
    BY <1>8 DEF Finish, Succeeded
  <2>5. lastSuccess'[v] # Never =>
          lastSuccess[v] # Never \/ (worker[w].ok /\ worker[w].vaa = v)
    BY <1>1, <2>4 DEF RelayerTypeOK
  <2> QED
    BY <2>1, <2>3, <2>5 DEF Acknowledged
<1>9. ASSUME NEW w \in Worker, Send(w) PROVE Quiet \/ worker[w].vaa = v
  <2>1. /\ worker[w] # Idle /\ worker[w] \in Busy /\ lastSuccess' = lastSuccess
        /\ \E ok \in BOOLEAN : Done(w, ok)
    BY <1>2, <1>9 DEF Send, SendTransaction, At, dedupeVars
  <2> QED
    BY <1>1, <1>2, <2>1 DEF Done, Busy
<1>10. Crash => Quiet
  BY DEF Crash, dedupeVars
<1>11. Restart => Quiet
  BY DEF Restart
<1>12. \/ StreamError \/ Resubscribe \/ Shutdown \/ Stop \/ Tick \/ UNCHANGED bridgeVars
       \/ (\E t \in TxId : Publish(t)) \/ (\E u \in Vaa : SubmitOutside(u)) \/ Mine
       => UNCHANGED <<worker, lastSuccess>>
  BY DEF StreamError, Resubscribe, Shutdown, Stop, Tick, bridgeVars, Publish, SubmitOutside, Mine,
     relayerVars, dedupeVars
<1> HIDE DEF Quiet
<1>13. \/ \E u \in Vaa : Deliver(u)
       \/ \E w \in Worker : \/ Dispatch(w) \/ GetNonce(w) \/ RpcError(w)
                             \/ NonceTaken(w) \/ Finish(w)
       \/ \E w \in Worker : Send(w)
       \/ Crash \/ Restart
       \/ UNCHANGED <<worker, lastSuccess>>
  BY <1>12 DEF BridgeNext, RelayerStep
<1> QED
  BY <1>3, <1>4, <1>5, <1>6, <1>7, <1>8, <1>9, <1>10, <1>11, <1>13

LEMMA SubmissionStepInv ==
  SubmissionInv /\ (BridgeNext \/ UNCHANGED bridgeVars) => SubmissionInv'
<1> SUFFICES ASSUME SubmissionInv, BridgeNext \/ UNCHANGED bridgeVars PROVE SubmissionInv'
  OBVIOUS
<1>1. BridgeTypeInv'
  BY BridgeTypeStep DEF SubmissionInv
<1>2. ASSUME NEW v \in Vaa, Route[v] = "arbitrum", V!Accepts(Vm[v])', Acknowledged(v)'
      PROVE  Arrived(v)'
  <2>1. V!Accepts(Vm[v])
    BY <1>2, AcceptanceIsSettled
  <2>2. CASE Acknowledged(v)
    BY <1>2, <2>1, <2>2, ArrivedStays DEF SubmissionInv, AckInv
  <2>3. CASE ~Acknowledged(v)
    <3>1. PICK w \in Worker : Send(w) /\ worker[w].vaa = v
      BY <1>2, <2>3, AcknowledgedBySending DEF SubmissionInv
    <3>2. mempool' = Append(mempool, v) /\ mempool \in Seq(Vaa)
      BY <3>1 DEF Send, SubmissionInv, BridgeTypeInv, BridgeInv, CallsCovered
    <3>3. Len(mempool') \in DOMAIN mempool' /\ mempool'[Len(mempool')] = v
      BY <3>2, AppendProperties
    <3> QED
      BY <3>3 DEF Arrived, Waits
  <2> QED
    BY <2>2, <2>3
<1> QED
  BY <1>1, <1>2 DEF SubmissionInv, AckInv

\* What the relayer calls processed waits at the node or was executed by the
\* vault, through every failure of nonces, every timeout and every restart.
THEOREM AcknowledgedIsNotLost == BridgeSpec => []AcknowledgedIsSubmitted
<1>1. BridgeInit => SubmissionInv
  BY BridgeTypeInit DEF BridgeInit, RelayerInit, SubmissionInv, AckInv, Acknowledged
<1>2. SubmissionInv => AcknowledgedIsSubmitted
  BY DEF SubmissionInv, AckInv, Acknowledged, Arrived, AcknowledgedIsSubmitted
<1> QED
  BY <1>1, <1>2, SubmissionStepInv, PTL DEF BridgeSpec

-----------------------------------------------------------------------------
(* The bridge is its parts *)

LEMMA RelayerStepsOnly == BridgeSpec => RelayerInit /\ [][RelayerNext]_relayerVars
<1>1. BridgeInit => RelayerInit
  BY DEF BridgeInit
<1>2. [BridgeNext]_bridgeVars => [RelayerNext]_relayerVars
  BY StepsOfRelayer
<1> QED
  BY <1>1, <1>2, PTL DEF BridgeSpec

\* Between the account, the node and the vault the relayer does what it does on
\* its own: whatever its specification keeps from happening cannot happen here.
THEOREM BridgeKeepsRelayer ==
  BridgeSpec => /\ [](OneGoroutinePerVaa /\ SuppressedWasAccepted /\ StoppedIsQuiet)
                /\ NoRepeatWithinTTL
<1>1. RInv => OneGoroutinePerVaa /\ SuppressedWasAccepted /\ StoppedIsQuiet
  BY DEF RInv
<1> QED
  BY <1>1, RelayerStepsOnly, RelayerSafety, PTL

\* And the vault sees nothing but VAAs in circulation, in some order: the bridge
\* implements the vault's own specification.
THEOREM BridgeImplementsVault == BridgeSpec => V!IntentSpec
<1>1. BridgeInit => V!IntentInit
  BY DEF BridgeInit
<1>2. BridgeInv /\ [BridgeNext]_bridgeVars => [V!IntentNext]_(V!intentVars)
  <2> SUFFICES ASSUME BridgeInv, BridgeNext \/ UNCHANGED bridgeVars
               PROVE  V!IntentNext \/ UNCHANGED vaultVars
    BY DEF vaultVars, V!intentVars
  <2>1. ASSUME NEW v \in Vaa, V!Verify(Vm[v]) PROVE V!IntentNext
    BY <2>1 DEF V!IntentNext
  <2>2. ASSUME NEW v \in Vaa, SubmitOutside(v) PROVE V!IntentNext
    BY <2>1, <2>2 DEF SubmitOutside, Take
  <2>3. ASSUME Mine PROVE V!IntentNext \/ UNCHANGED vaultVars
    <3>1. V!Verify(Vm[Head(mempool)]) \/ UNCHANGED vaultVars
      BY <2>3 DEF Mine, Take, ledger
    <3>2. Head(mempool) \in Vaa
      BY <2>3 DEF Mine, BridgeInv, CallsCovered
    <3> QED
      BY <2>1, <3>1, <3>2
  <2>4. ASSUME NEW t \in TxId, Publish(t) PROVE UNCHANGED vaultVars
    BY <2>4 DEF Publish, ledger
  <2>5. ASSUME NEW v \in Vaa, Deliver(v) PROVE UNCHANGED vaultVars
    BY <2>5 DEF Deliver, ledger
  <2>6. ASSUME NEW w \in Worker, Send(w) PROVE UNCHANGED vaultVars
    BY <2>6 DEF Send, ledger
  <2>7. RelayerStep \/ UNCHANGED bridgeVars => UNCHANGED vaultVars
    BY DEF RelayerStep, bridgeVars, ledger
  <2> QED
    BY <2>2, <2>3, <2>4, <2>5, <2>6, <2>7 DEF BridgeNext
<1> QED
  BY <1>1, <1>2, BridgeInitInv, BridgeStepInv, PTL DEF BridgeSpec, V!IntentSpec

-----------------------------------------------------------------------------
(* The whole way *)

\* Every step of the composed system is one of the account, or none of its.
LEMMA StepOfAccount == [EndToEndNext]_endToEndVars => [Next]_vars
BY WormholeAssumption
   DEF EndToEndNext, ExecuteAndPublish, ExecuteAstray, AccountStep, BridgeStep, Next, Execute,
       ExecuteVia, endToEndVars

\* And one of the bridge, or none of its.
LEMMA StepOfBridge == [EndToEndNext]_endToEndVars => [BridgeNext]_bridgeVars
BY DEF EndToEndNext, ExecuteAndPublish, AccountStep, BridgeStep, BridgeNext, endToEndVars

\* With a bridge behind it the account is the account it was.
THEOREM EndToEndKeepsAccount == EndToEndSpec => Spec
BY StepOfAccount, PTL DEF EndToEndSpec, EndToEndInit, Spec

\* With an account before it, which publishes what was signed and nothing else,
\* the bridge is the bridge it was: its theorems hold of the whole.
THEOREM EndToEndKeepsBridge == EndToEndSpec => BridgeSpec
BY StepOfBridge, PTL DEF EndToEndSpec, EndToEndInit, BridgeSpec

\* Signatures and executed hashes are never taken back.
LEMMA NothingIsTakenBack ==
  [Next]_vars => executed \subseteq executed' /\ signed \subseteq signed'
BY DEF Next, vars, Sign, Execute, ExecuteVia, AddSigner, RemoveSigner, ChangeThreshold,
   ExecuteCrossChainIntent, RecordExecuted

\* What was published had been signed by a quorum, is marked executed for ever,
\* and was published in no other transaction.
ApprovalInv ==
  /\ \A t \in published :
       /\ approval[t].message \in Proposal \cap executed
       /\ approval[t].message.op = "intent"
       /\ Publication[t] = FieldsOf[approval[t].message.intent]
       /\ Approves(t, approval[t].message)
  /\ \A t, u \in published : approval[t].message = approval[u].message => t = u

\* Steps that publish nothing.
LEMMA ApprovalStays ==
  ASSUME ApprovalInv, [Next]_vars, UNCHANGED <<published, approval>>
  PROVE  ApprovalInv'
<1>1. executed \subseteq executed' /\ signed \subseteq signed'
  BY NothingIsTakenBack
<1>2. ASSUME NEW t \in published
      PROVE  Approves(t, approval[t].message)'
  <2>1. Approves(t, approval[t].message)
    BY DEF ApprovalInv
  <2> QED
    BY <1>1, <2>1 DEF Approves
<1> QED
  BY <1>1, <1>2 DEF ApprovalInv

\* The step that publishes.
LEMMA ApprovalIsGiven ==
  ASSUME TypeOK, ApprovalInv, NEW m \in Proposal, NEW t \in TxId, ExecuteAndPublish(m, t)
  PROVE  ApprovalInv'
<1> DEFINE new == [message |-> m, backers |-> Backers(m), threshold |-> threshold]
<1>1. /\ published' = published \cup {t}
      /\ t \notin published
      /\ executed' = executed \cup {m}
      /\ m \notin executed
      /\ signed' = signed
      /\ m.op = "intent" /\ Publication[t] = FieldsOf[m.intent]
  BY DEF ExecuteAndPublish, Publish, ExecuteCrossChainIntent, RecordExecuted, NotExecuted
<1>2. approval'[t] = new
  BY <1>1 DEF ExecuteAndPublish
<1>3. \A u \in published : approval'[u] = approval[u]
  BY <1>1 DEF ExecuteAndPublish
<1>4. Approves(t, m)'
  <2>1. QuorumBacks(m)
    BY ApprovedIsBacked DEF ExecuteAndPublish, ExecuteCrossChainIntent
  <2>2. \A s \in Backers(m) : pubkey[s] \in Key /\ <<pubkey[s], m>> \in signed
    BY DEF Backers, TypeOK
  <2>3. /\ approval'[t].message = m
        /\ approval'[t].backers = Backers(m)
        /\ approval'[t].threshold = threshold
    BY <1>2
  <2>4. Backers(m) # {} /\ Cardinality(Backers(m)) >= threshold
    BY <2>1 DEF QuorumBacks
  <2>5. \A s \in Backers(m) : \E k \in Key : <<k, m>> \in signed'
    BY <1>1, <2>2
  <2> HIDE DEF new
  <2> QED
    BY <2>3, <2>4, <2>5 DEF Approves
<1>5. ASSUME NEW u \in published
      PROVE  /\ approval'[u].message \in Proposal \cap executed'
             /\ approval'[u].message # m
             /\ approval'[u].message.op = "intent"
             /\ Publication[u] = FieldsOf[approval'[u].message.intent]
             /\ Approves(u, approval[u].message)'
  <2>1. approval[u].message \in Proposal \cap executed /\ Approves(u, approval[u].message)
    BY DEF ApprovalInv
  <2>2. Approves(u, approval[u].message)'
    BY <1>1, <1>3, <2>1 DEF Approves
  <2> QED
    BY <1>1, <1>3, <2>1, <2>2 DEF ApprovalInv
<1>6. \A u, w \in published' : approval'[u].message = approval'[w].message => u = w
  BY <1>1, <1>2, <1>3, <1>5 DEF ApprovalInv
<1>7. ASSUME NEW u \in published'
      PROVE  /\ approval'[u].message \in Proposal \cap executed'
             /\ approval'[u].message.op = "intent"
             /\ Publication[u] = FieldsOf[approval'[u].message.intent]
             /\ Approves(u, approval[u].message)'
  <2>1. CASE u = t
    BY <1>1, <1>2, <1>4, <2>1 DEF Approves
  <2>2. CASE u \in published
    <3>1. Approves(u, approval[u].message)'
      BY <1>5, <2>2
    <3> QED
      BY <1>5, <2>2, <3>1
  <2> QED
    BY <1>1, <2>1, <2>2
<1> QED
  BY <1>6, <1>7 DEF ApprovalInv

\* Whatever else is signed, executed, delivered, retried or called, the tokens that
\* came through the account's own VAAs are with people to whom a quorum of the
\* signers sent them.
THEOREM OwnPaymentsHaveAQuorum == EndToEndSpec => []OwnPaymentsAreBacked
<1>1. EndToEndInit => ApprovalInv
  BY DEF EndToEndInit, BridgeInit, ApprovalInv
<1>2. TypeOK /\ ApprovalInv /\ [EndToEndNext]_endToEndVars => ApprovalInv'
  <2> SUFFICES ASSUME TypeOK, ApprovalInv, [EndToEndNext]_endToEndVars
               PROVE  ApprovalInv'
    OBVIOUS
  <2>1. ASSUME UNCHANGED <<published, approval>> PROVE ApprovalInv'
    BY <2>1, StepOfAccount, ApprovalStays
  <2>2. CASE AccountStep
    BY <2>1, <2>2 DEF AccountStep, bridgeVars
  <2>3. CASE BridgeStep
    BY <2>1, <2>3 DEF BridgeStep, Deliver, SubmitOutside, Send, RelayerStep, Mine
  <2>4. CASE UNCHANGED endToEndVars
    BY <2>1, <2>4 DEF endToEndVars, bridgeVars
  <2> QED
    BY <2>2, <2>3, <2>4, ApprovalIsGiven DEF EndToEndNext
<1>3. ApprovalInv /\ BridgeTypeOK /\ OwnVaasPayAsMeant => OwnPaymentsAreBacked
  <2> SUFFICES ASSUME ApprovalInv, BridgeTypeOK, OwnVaasPayAsMeant, NEW a \in Account, ownPaid[a] > 0
               PROVE  \E m \in Proposal, t \in published :
                        /\ m.op = "intent"
                        /\ Says[m.intent]["target_chain"] = blockChainId
                        /\ Says[m.intent]["target_contract"] = ThisVault
                        /\ Says[m.intent]["recipient"] = a
                        /\ Says[m.intent]["amount"] <= ownPaid[a]
                        /\ Approves(t, m)
                        /\ \A u \in published : approval[u].message = m => u = t
    BY DEF OwnPaymentsAreBacked
  <2>1. PICK t \in published : /\ Meant[t]["target_chain"] = blockChainId
                              /\ Meant[t]["target_contract"] = ThisVault
                              /\ Meant[t]["recipient"] = a
                              /\ Meant[t]["amount"] <= ownPaid[a]
    BY DEF OwnVaasPayAsMeant
  <2>2. t \in TxId
    BY DEF BridgeTypeOK
  <2> DEFINE m == approval[t].message
  <2>3. /\ m \in Proposal /\ m.op = "intent" /\ Publication[t] = FieldsOf[m.intent]
        /\ Approves(t, m)
        /\ \A u \in published : approval[u].message = m => u = t
    BY DEF ApprovalInv
  <2>4. \A f \in Field : Meant[t][f] = Says[m.intent][f]
    <3>1. m.intent \in Intent
      BY <2>3, MessageShapes
    <3> QED
      BY <2>2, <2>3, <3>1 DEF Meant, Says
  <2>5. /\ Says[m.intent]["target_chain"] = blockChainId
        /\ Says[m.intent]["target_contract"] = ThisVault
        /\ Says[m.intent]["recipient"] = a
        /\ Says[m.intent]["amount"] <= ownPaid[a]
    BY <2>1, <2>4 DEF Field
  <2> HIDE DEF m
  <2> QED
    BY <2>3, <2>5
<1> QED
  BY <1>1, <1>2, <1>3, EndToEndKeepsAccount, EndToEndKeepsBridge, TypeCorrect,
     BridgeTypeCorrect, OwnVaasPayOnlyMeant, PTL DEF EndToEndSpec
=============================================================================
