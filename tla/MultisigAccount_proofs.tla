----------------------- MODULE MultisigAccount_proofs -----------------------
(* Theorems of MultisigAccount: for every set of addresses, keys, proposals *)
(* and founding signers, and every number of slots.                         *)
EXTENDS MultisigAccount, FiniteSetTheorems, FunctionTheorems, TLAPS

-----------------------------------------------------------------------------
(* Messages and signature slots *)

\* The tag of a message tells which fields it has.
LEMMA MessageShapes ==
  ASSUME NEW m \in Proposal
  PROVE  /\ m.op = "add" => m.signer \in Signer /\ m.key \in Key
         /\ m.op = "remove" => m.signer \in Signer
         /\ m.op = "threshold" => m.threshold \in 0..(MaxSigners + 1)
         /\ m.op = "intent" => m.intent \in Intent
BY ProposalAssumption
   DEF Message, AddMsg, RemoveMsg, ThresholdMsg, IntentMsg

\* A set of members is finite, and its size is a number.
LEMMA MembersFinite ==
  ASSUME NEW S \in SUBSET Signer
  PROVE  IsFiniteSet(S) /\ Cardinality(S) \in Nat
<1>1. IsFiniteSet(S)
  BY SignerAssumption, FS_Subset
<1>2. QED
  BY <1>1, FS_CardinalityType

\* What the loop of assert_valid_signatures counts: when the slots pass, their
\* owners are that many different backers of the message.
LEMMA SlotsCountBackers ==
  ASSUME TypeOK,
         NEW m \in Proposal,
         NEW slots \in Submissions(m),
         AssertValidSignatures(m, slots)
  PROVE  QuorumBacks(m)
<1> DEFINE F == Filled(slots)
           B == Backers(m)
           owner == [i \in F |-> slots[i].owner]
<1>1. F \subseteq 1..MaxSigners /\ IsFiniteSet(F) /\ Cardinality(F) \in Nat
  <2>1. F \subseteq 1..MaxSigners
    BY DEF Filled, Submissions
  <2>2. IsFiniteSet(1..MaxSigners)
    BY MaxSignersAssumption, FS_Interval
  <2>3. QED
    BY <2>1, <2>2, FS_Subset, FS_CardinalityType
<1>2. \A i \in F : slots[i] \in [owner : Signer, sig : {s \in signed : s[2] = m}]
  BY DEF Filled, Submissions
<1>3. \A i \in F : slots[i].owner \in B
  <2> SUFFICES ASSUME NEW i \in F PROVE slots[i].owner \in B
    OBVIOUS
  <2>1. slots[i].owner \in members /\ slots[i].sig = <<pubkey[slots[i].owner], m>>
    BY DEF AssertValidSignatures, OwnerIsSigner, SignatureVerifies
  <2>2. slots[i].sig \in signed
    BY <1>2
  <2>3. QED
    BY <2>1, <2>2 DEF Backers
<1>4. owner \in Injection(F, B)
  <2>1. owner \in [F -> B]
    BY <1>3
  <2>2. \A i, j \in F : owner[i] = owner[j] => i = j
    BY DEF AssertValidSignatures, OwnersDistinct
  <2>3. QED
    BY <2>1, <2>2, Fun_IsInj
<1>5. IsFiniteSet(B) /\ Cardinality(B) \in Nat
  BY MembersFinite DEF TypeOK, Backers
<1>6. Cardinality(F) <= Cardinality(B)
  BY <1>4, <1>5, FS_Injection
<1>7. F # {} /\ Cardinality(F) >= threshold
  BY DEF AssertValidSignatures, EnoughSignatures
<1>8. B # {}
  BY <1>3, <1>7
<1>9. Cardinality(B) >= threshold
  BY <1>1, <1>5, <1>6, <1>7 DEF TypeOK
<1>10. QED
  BY <1>8, <1>9 DEF QuorumBacks

\* A message for which valid slots exist has a quorum of members behind it.
LEMMA ApprovedIsBacked ==
  ASSUME TypeOK, NEW m \in Proposal, Approved(m)
  PROVE  QuorumBacks(m)
BY SlotsCountBackers DEF Approved

-----------------------------------------------------------------------------
(* Type correctness *)

\* The constructor leaves a well-typed state: it refuses a threshold above the count.
LEMMA InitTypeOK == Init => TypeOK
<1> SUFFICES ASSUME Init PROVE TypeOK
  OBVIOUS
<1>1. PICK f \in Founding :
         /\ members = DOMAIN f.keys
         /\ pubkey = [s \in Signer |-> IF s \in members THEN f.keys[s] ELSE NoKey]
         /\ threshold = f.threshold
  BY DEF Init
<1>2. PICK S \in SUBSET Signer : f.keys \in [S -> Key]
  BY FoundingAssumption
<1>3. members = S /\ members \subseteq Signer
  BY <1>1, <1>2
<1>4. pubkey \in [Signer -> Key \cup {NoKey}]
  BY <1>1, <1>2, <1>3
<1>5. signerCount \in 0..MaxSigners
  BY <1>3, MembersFinite, MaxSignersAssumption DEF Init
<1>6. threshold \in 0..MaxSigners
  BY <1>1, <1>5, FoundingAssumption, MaxSignersAssumption DEF Init
<1>7. executed \subseteq Proposal /\ signed \subseteq Key \X Proposal
  BY DEF Init
<1>8. applied \in [Proposal -> 0..2]
  BY DEF Init
<1>9. QED
  BY <1>3, <1>4, <1>5, <1>6, <1>7, <1>8 DEF TypeOK

\* The history counts to two.
LEMMA ApplyType ==
  ASSUME TypeOK, NEW m \in Proposal, Apply(m)
  PROVE  applied' \in [Proposal -> 0..2]
BY DEF TypeOK, Apply

\* Every operation keeps the types.
LEMMA NextTypeOK == TypeOK /\ [Next]_vars => TypeOK'
<1> SUFFICES ASSUME TypeOK, [Next]_vars PROVE TypeOK'
  OBVIOUS
<1>1. ASSUME NEW k \in Key, NEW m \in Proposal, Sign(k, m)
      PROVE  TypeOK'
  BY <1>1 DEF TypeOK, Sign
<1>2. ASSUME NEW m \in Proposal, AddSigner(m)
      PROVE  TypeOK'
  <2>1. m.signer \in Signer /\ m.key \in Key
    BY <1>2, MessageShapes DEF AddSigner
  <2>2. signerCount' \in 0..MaxSigners
    BY <1>2, MaxSignersAssumption DEF TypeOK, AddSigner, BelowSignerLimit, CountNewSigner
  <2>3. members' \subseteq Signer /\ pubkey' \in [Signer -> Key \cup {NoKey}]
    BY <1>2, <2>1 DEF TypeOK, AddSigner
  <2>4. executed' \subseteq Proposal
    BY <1>2 DEF TypeOK, AddSigner, RecordExecuted
  <2>5. applied' \in [Proposal -> 0..2]
    BY <1>2, ApplyType DEF AddSigner
  <2>6. QED
    BY <1>2, <2>2, <2>3, <2>4, <2>5 DEF TypeOK, AddSigner
<1>3. ASSUME NEW m \in Proposal, RemoveSigner(m)
      PROVE  TypeOK'
  <2>1. applied' \in [Proposal -> 0..2]
    BY <1>3, ApplyType DEF RemoveSigner
  <2>2. QED
    BY <1>3, <2>1 DEF TypeOK, RemoveSigner
<1>4. ASSUME NEW m \in Proposal, ChangeThreshold(m)
      PROVE  TypeOK'
  <2>1. applied' \in [Proposal -> 0..2]
    BY <1>4, ApplyType DEF ChangeThreshold
  <2>2. threshold' \in 0..MaxSigners
    BY <1>4, MessageShapes, MaxSignersAssumption DEF ChangeThreshold, ThresholdInRange
  <2>3. QED
    BY <1>4, <2>1, <2>2 DEF TypeOK, ChangeThreshold
<1>5. ASSUME NEW m \in Proposal, NEW a \in WormholeAddress, ExecuteCrossChainIntent(m, a)
      PROVE  TypeOK'
  <2>1. applied' \in [Proposal -> 0..2]
    BY <1>5, ApplyType DEF ExecuteCrossChainIntent, TypeOK
  <2>2. executed' \subseteq Proposal
    BY <1>5 DEF TypeOK, ExecuteCrossChainIntent, RecordExecuted
  <2>3. QED
    BY <1>5, <2>1, <2>2 DEF TypeOK, ExecuteCrossChainIntent
<1>6. CASE UNCHANGED vars
  BY <1>6 DEF TypeOK, vars
<1>7. QED
  BY <1>1, <1>2, <1>3, <1>4, <1>5, <1>6 DEF Next, Execute, ExecuteVia

\* Every variable keeps its type: in particular neither the threshold nor the
\* signer count leaves the range that the signature slots can serve.
THEOREM TypeCorrect == Spec => []TypeOK
<1>1. QED
  BY InitTypeOK, NextTypeOK, PTL DEF Spec

-----------------------------------------------------------------------------
(* The inductive invariant.  SignerCountCovers is inductive together with  *)
(* the types.  AppliedAtMostOnce is not: it needs to know that what took   *)
(* effect was recorded, so that the check of executed_message_hashes stops *)
(* the second time.                                                        *)

\* An addition or intent that took effect did so once and is recorded.
EffectRecorded ==
  \A m \in Proposal :
     m.op \in {"add", "intent"} =>
        applied[m] = 0 \/ (applied[m] = 1 /\ m \in executed)

\* An address that is not a member has no key.
KeysOfMembers == \A s \in Signer : s \notin members => pubkey[s] = NoKey

IInv == TypeOK /\ SignerCountCovers /\ EffectRecorded /\ KeysOfMembers

\* The constructor establishes the inductive invariant.
LEMMA InitIInv == Init => IInv
<1> SUFFICES ASSUME Init PROVE IInv
  OBVIOUS
<1>1. TypeOK
  BY InitTypeOK
<1>2. SignerCountCovers
  BY <1>1, MembersFinite DEF Init, SignerCountCovers, TypeOK
<1>3. EffectRecorded
  BY DEF Init, EffectRecorded
<1>4. KeysOfMembers
  BY DEF Init, KeysOfMembers
<1>5. QED
  BY <1>1, <1>2, <1>3, <1>4 DEF IInv

\* An addition raises the count and the membership by one; a removal lowers
\* the membership only; a new threshold is compared with the count.
LEMMA NextSignerCount ==
  ASSUME TypeOK, SignerCountCovers, [Next]_vars
  PROVE  SignerCountCovers'
<1> USE DEF SignerCountCovers
<1>1. Cardinality(members) \in Nat /\ IsFiniteSet(members)
  BY MembersFinite DEF TypeOK
<1>2. ASSUME NEW k \in Key, NEW m \in Proposal, Sign(k, m)
      PROVE  SignerCountCovers'
  BY <1>2 DEF Sign
<1>3. ASSUME NEW m \in Proposal, AddSigner(m)
      PROVE  SignerCountCovers'
  <2>1. Cardinality(members') = Cardinality(members) + 1
    BY <1>1, <1>3, FS_AddElement DEF AddSigner, NotYetSigner
  <2>2. QED
    BY <1>1, <1>3, <2>1 DEF TypeOK, AddSigner, CountNewSigner
<1>4. ASSUME NEW m \in Proposal, RemoveSigner(m)
      PROVE  SignerCountCovers'
  <2>1. Cardinality(members') = Cardinality(members) - 1
    BY <1>1, <1>4, FS_RemoveElement DEF RemoveSigner
  <2>2. QED
    BY <1>1, <1>4, <2>1 DEF TypeOK, RemoveSigner
<1>5. ASSUME NEW m \in Proposal, ChangeThreshold(m)
      PROVE  SignerCountCovers'
  BY <1>5 DEF ChangeThreshold, ThresholdFitsCount
<1>6. ASSUME NEW m \in Proposal, NEW a \in WormholeAddress, ExecuteCrossChainIntent(m, a)
      PROVE  SignerCountCovers'
  BY <1>6 DEF ExecuteCrossChainIntent
<1>7. CASE UNCHANGED vars
  BY <1>7 DEF vars
<1>8. QED
  BY <1>2, <1>3, <1>4, <1>5, <1>6, <1>7 DEF Next, Execute, ExecuteVia

\* What takes effect is recorded by the same call, and nothing is un-recorded.
LEMMA NextEffectRecorded ==
  ASSUME TypeOK, EffectRecorded, [Next]_vars
  PROVE  EffectRecorded'
<1> USE DEF EffectRecorded, TypeOK, Apply
<1>1. ASSUME NEW k \in Key, NEW m \in Proposal, Sign(k, m)
      PROVE  EffectRecorded'
  BY <1>1 DEF Sign
<1>2. ASSUME NEW m \in Proposal, AddSigner(m)
      PROVE  EffectRecorded'
  BY <1>2 DEF AddSigner, NotExecuted, RecordExecuted
<1>3. ASSUME NEW m \in Proposal, RemoveSigner(m)
      PROVE  EffectRecorded'
  BY <1>3 DEF RemoveSigner
<1>4. ASSUME NEW m \in Proposal, ChangeThreshold(m)
      PROVE  EffectRecorded'
  BY <1>4 DEF ChangeThreshold
<1>5. ASSUME NEW m \in Proposal, NEW a \in WormholeAddress, ExecuteCrossChainIntent(m, a)
      PROVE  EffectRecorded'
  BY <1>5 DEF ExecuteCrossChainIntent, NotExecuted, RecordExecuted
<1>6. CASE UNCHANGED vars
  BY <1>6 DEF vars
<1>7. QED
  BY <1>1, <1>2, <1>3, <1>4, <1>5, <1>6 DEF Next, Execute, ExecuteVia

\* A key comes and goes with its membership.
LEMMA NextKeysOfMembers ==
  ASSUME TypeOK, KeysOfMembers, [Next]_vars
  PROVE  KeysOfMembers'
<1> USE DEF KeysOfMembers, TypeOK
<1>1. ASSUME NEW k \in Key, NEW m \in Proposal, Sign(k, m)
      PROVE  KeysOfMembers'
  BY <1>1 DEF Sign
<1>2. ASSUME NEW m \in Proposal, AddSigner(m)
      PROVE  KeysOfMembers'
  BY <1>2 DEF AddSigner
<1>3. ASSUME NEW m \in Proposal, RemoveSigner(m)
      PROVE  KeysOfMembers'
  BY <1>3 DEF RemoveSigner
<1>4. ASSUME NEW m \in Proposal, ChangeThreshold(m)
      PROVE  KeysOfMembers'
  BY <1>4 DEF ChangeThreshold
<1>5. ASSUME NEW m \in Proposal, NEW a \in WormholeAddress, ExecuteCrossChainIntent(m, a)
      PROVE  KeysOfMembers'
  BY <1>5 DEF ExecuteCrossChainIntent
<1>6. CASE UNCHANGED vars
  BY <1>6 DEF vars
<1>7. QED
  BY <1>1, <1>2, <1>3, <1>4, <1>5, <1>6 DEF Next, Execute, ExecuteVia

\* Every step keeps the inductive invariant.
LEMMA NextIInv == IInv /\ [Next]_vars => IInv'
BY NextTypeOK, NextSignerCount, NextEffectRecorded, NextKeysOfMembers DEF IInv

\* The inductive invariant holds throughout.
LEMMA Invariance == Spec => []IInv
<1>1. QED
  BY InitIInv, NextIInv, PTL DEF Spec

\* The signer count that the three management operations check against covers
\* the real membership and the threshold, for any history of operations.
THEOREM SignerCountAlwaysCovers == Spec => []SignerCountCovers
<1>1. IInv => SignerCountCovers
  BY DEF IInv
<1>2. QED
  BY <1>1, Invariance, PTL

\* No addition and no cross-chain intent takes effect twice.
THEOREM AdditionsAndIntentsOnce == Spec => []AppliedAtMostOnce
<1>1. IInv => AppliedAtMostOnce
  BY DEF IInv, EffectRecorded, AppliedAtMostOnce, TypeOK
<1>2. QED
  BY <1>1, Invariance, PTL

-----------------------------------------------------------------------------
(* Reaching the threshold *)

NothingRemoved == \A m \in Proposal : m.op = "remove" => applied[m] = 0

\* SignerCountCovers bounds the count from below only; it is exact until a
\* removal takes effect, which does not write it.
CountExactUntilRemoved == NothingRemoved => signerCount = Cardinality(members)

\* An application is never taken back, and a removal is one.
LEMMA RemovalsStay ==
  ASSUME TypeOK, [Next]_vars, NothingRemoved'
  PROVE  /\ NothingRemoved
         /\ \A m \in Proposal : ~RemoveSigner(m)
<1>1. \A n \in Proposal : applied[n] \in 0..2
  BY DEF TypeOK
<1>2. ASSUME NEW m \in Proposal, Apply(m)
      PROVE  /\ applied'[m] > 0
             /\ \A n \in Proposal : applied'[n] = 0 => applied[n] = 0
  BY <1>1, <1>2 DEF TypeOK, Apply
<1>3. ASSUME NEW m \in Proposal, Execute(m)
      PROVE  Apply(m) \/ UNCHANGED applied
  BY <1>3 DEF Execute, ExecuteVia, AddSigner, RemoveSigner, ChangeThreshold,
              ExecuteCrossChainIntent
<1>4. \A n \in Proposal : applied'[n] = 0 => applied[n] = 0
  BY <1>2, <1>3 DEF Next, Sign, vars
<1>5. ASSUME NEW m \in Proposal, RemoveSigner(m)
      PROVE  FALSE
  <2>1. applied'[m] > 0 /\ m.op = "remove"
    BY <1>2, <1>5 DEF RemoveSigner
  <2>2. applied'[m] = 0
    BY <2>1 DEF NothingRemoved
  <2>3. QED
    BY <2>1, <2>2
<1>6. QED
  BY <1>4, <1>5 DEF NothingRemoved

\* Until then an addition raises both, and nothing else moves either.
LEMMA NextCountExact ==
  ASSUME TypeOK, CountExactUntilRemoved, [Next]_vars
  PROVE  CountExactUntilRemoved'
<1> SUFFICES ASSUME NothingRemoved' PROVE signerCount' = Cardinality(members')
  BY DEF CountExactUntilRemoved
<1>1. signerCount = Cardinality(members) /\ \A m \in Proposal : ~RemoveSigner(m)
  BY RemovalsStay DEF CountExactUntilRemoved
<1>2. ASSUME NEW m \in Proposal, AddSigner(m)
      PROVE  signerCount' = Cardinality(members')
  <2>1. Cardinality(members') = Cardinality(members) + 1
    BY <1>2, MembersFinite, FS_AddElement DEF TypeOK, AddSigner, NotYetSigner
  <2>2. QED
    BY <1>1, <1>2, <2>1 DEF AddSigner, CountNewSigner
<1>3. ASSUME NEW m \in Proposal, NEW a \in WormholeAddress,
             ChangeThreshold(m) \/ ExecuteCrossChainIntent(m, a)
      PROVE  UNCHANGED <<signerCount, members>>
  BY <1>3 DEF ChangeThreshold, ExecuteCrossChainIntent
<1>4. ASSUME NEW k \in Key, NEW m \in Proposal, Sign(k, m)
      PROVE  UNCHANGED <<signerCount, members>>
  BY <1>4 DEF Sign
<1>5. CASE UNCHANGED vars
  BY <1>1, <1>5 DEF vars
<1>6. QED
  BY <1>1, <1>2, <1>3, <1>4, <1>5 DEF Next, Execute, ExecuteVia

\* The threshold is in reach of the signers until one is removed: the other
\* operations all compare it with a count that is then exact.
THEOREM OnlyRemovalsLockOut == Spec => []ReachableUntilRemoved
<1>1. Init => CountExactUntilRemoved
  BY DEF Init, CountExactUntilRemoved
<1>2. IInv /\ CountExactUntilRemoved => ReachableUntilRemoved
  BY DEF IInv, CountExactUntilRemoved, NothingRemoved, SignerCountCovers, ReachableUntilRemoved
<1>3. IInv /\ CountExactUntilRemoved /\ [Next]_vars => CountExactUntilRemoved'
  BY NextCountExact DEF IInv
<1>4. QED
  BY <1>1, <1>2, <1>3, Invariance, PTL DEF Spec

-----------------------------------------------------------------------------
(* Action properties *)

\* The body of EveryChangeIsBacked holds of every step.
LEMMA StepIsBacked ==
  ASSUME TypeOK, [Next]_vars
  PROVE  /\ \A s \in Signer :
              (s \in members) # (s \in members') =>
                 \E m \in Proposal :
                    /\ m.op = IF s \in members THEN "remove" ELSE "add"
                    /\ m.signer = s
                    /\ QuorumBacks(m)
         /\ threshold' # threshold =>
              \E m \in Proposal :
                 m.op = "threshold" /\ m.threshold = threshold' /\ QuorumBacks(m)
         /\ \A m \in Proposal :
              m.op = "intent" /\ applied'[m] # applied[m] => QuorumBacks(m)
<1> DEFINE Joins == \A s \in Signer :
                      (s \in members) # (s \in members') =>
                         \E m \in Proposal :
                            /\ m.op = IF s \in members THEN "remove" ELSE "add"
                            /\ m.signer = s
                            /\ QuorumBacks(m)
           Changes == threshold' # threshold =>
                        \E m \in Proposal :
                           m.op = "threshold" /\ m.threshold = threshold' /\ QuorumBacks(m)
           Sends == \A m \in Proposal :
                      m.op = "intent" /\ applied'[m] # applied[m] => QuorumBacks(m)
           Goal == Joins /\ Changes /\ Sends
<1>1. ASSUME NEW k \in Key, NEW m \in Proposal, Sign(k, m)
      PROVE  Goal
  BY <1>1 DEF Sign
<1>2. ASSUME NEW m \in Proposal, AddSigner(m)
      PROVE  Goal
  <2>1. QuorumBacks(m) /\ m.op = "add"
    BY <1>2, ApprovedIsBacked DEF AddSigner
  <2>2. Joins
    BY <1>2, <2>1 DEF AddSigner
  <2>3. Changes
    BY <1>2 DEF AddSigner
  <2>4. Sends
    BY <1>2, <2>1 DEF AddSigner, Apply, TypeOK
  <2>5. QED
    BY <2>2, <2>3, <2>4
<1>3. ASSUME NEW m \in Proposal, RemoveSigner(m)
      PROVE  Goal
  <2>1. QuorumBacks(m) /\ m.op = "remove"
    BY <1>3, ApprovedIsBacked DEF RemoveSigner
  <2>2. Joins
    BY <1>3, <2>1 DEF RemoveSigner
  <2>3. Changes
    BY <1>3 DEF RemoveSigner
  <2>4. Sends
    BY <1>3, <2>1 DEF RemoveSigner, Apply, TypeOK
  <2>5. QED
    BY <2>2, <2>3, <2>4
<1>4. ASSUME NEW m \in Proposal, ChangeThreshold(m)
      PROVE  Goal
  <2>1. QuorumBacks(m) /\ m.op = "threshold"
    BY <1>4, ApprovedIsBacked DEF ChangeThreshold
  <2>2. Joins
    BY <1>4 DEF ChangeThreshold
  <2>3. Changes
    BY <1>4, <2>1 DEF ChangeThreshold
  <2>4. Sends
    BY <1>4, <2>1 DEF ChangeThreshold, Apply, TypeOK
  <2>5. QED
    BY <2>2, <2>3, <2>4
<1>5. ASSUME NEW m \in Proposal, NEW a \in WormholeAddress, ExecuteCrossChainIntent(m, a)
      PROVE  Goal
  <2>1. QuorumBacks(m)
    BY <1>5, ApprovedIsBacked DEF ExecuteCrossChainIntent
  <2>2. Joins /\ Changes
    BY <1>5 DEF ExecuteCrossChainIntent
  <2>3. Sends
    BY <1>5, <2>1 DEF ExecuteCrossChainIntent, Apply, TypeOK
  <2>4. QED
    BY <2>2, <2>3
<1>6. CASE UNCHANGED vars
  BY <1>6 DEF vars
<1>7. QED
  <2>1. Goal
    BY <1>1, <1>2, <1>3, <1>4, <1>5, <1>6 DEF Next, Execute, ExecuteVia
  <2>2. QED
    BY <2>1

\* No signer joins or leaves, no threshold changes and no intent is published
\* unless at least a threshold of different current members signed exactly that.
THEOREM ChangesAreBacked == Spec => EveryChangeIsBacked
<1>1. TypeOK /\ [Next]_vars =>
        [/\ \A s \in Signer :
              (s \in members) # (s \in members') =>
                 \E m \in Proposal :
                    /\ m.op = IF s \in members THEN "remove" ELSE "add"
                    /\ m.signer = s
                    /\ QuorumBacks(m)
         /\ threshold' # threshold =>
              \E m \in Proposal :
                 m.op = "threshold" /\ m.threshold = threshold' /\ QuorumBacks(m)
         /\ \A m \in Proposal :
              m.op = "intent" /\ applied'[m] # applied[m] => QuorumBacks(m)]_vars
  BY StepIsBacked
<1>2. QED
  BY <1>1, TypeCorrect, PTL DEF Spec, EveryChangeIsBacked

\* A member keeps its key until it is removed, and then the key is gone.
THEOREM KeysAreFollowed == Spec => KeysFollowMembership
<1>1. IInv /\ [Next]_vars =>
        [\A s \in Signer :
           /\ s \in members \cap members' => pubkey'[s] = pubkey[s]
           /\ s \notin members' => pubkey'[s] = NoKey]_vars
  <2> SUFFICES ASSUME IInv, [Next]_vars
               PROVE  \A s \in Signer :
                        /\ s \in members \cap members' => pubkey'[s] = pubkey[s]
                        /\ s \notin members' => pubkey'[s] = NoKey
    OBVIOUS
  <2>1. KeysOfMembers'
    BY NextIInv DEF IInv
  <2>2. \A s \in members \cap members' : pubkey'[s] = pubkey[s]
    <3> USE DEF IInv, TypeOK
    <3>1. ASSUME NEW k \in Key, NEW m \in Proposal, Sign(k, m)
          PROVE  pubkey' = pubkey
      BY <3>1 DEF Sign
    <3>2. ASSUME NEW m \in Proposal, AddSigner(m)
          PROVE  \A s \in members \cap members' : pubkey'[s] = pubkey[s]
      BY <3>2 DEF AddSigner, NotYetSigner
    <3>3. ASSUME NEW m \in Proposal, RemoveSigner(m)
          PROVE  \A s \in members \cap members' : pubkey'[s] = pubkey[s]
      BY <3>3 DEF RemoveSigner
    <3>4. ASSUME NEW m \in Proposal, ChangeThreshold(m)
          PROVE  pubkey' = pubkey
      BY <3>4 DEF ChangeThreshold
    <3>5. ASSUME NEW m \in Proposal, NEW a \in WormholeAddress, ExecuteCrossChainIntent(m, a)
          PROVE  pubkey' = pubkey
      BY <3>5 DEF ExecuteCrossChainIntent
    <3>6. CASE UNCHANGED vars
      BY <3>6 DEF vars
    <3>7. QED
      BY <3>1, <3>2, <3>3, <3>4, <3>5, <3>6 DEF Next, Execute, ExecuteVia
  <2>3. QED
    BY <2>1, <2>2 DEF KeysOfMembers
<1>2. QED
  BY <1>1, Invariance, PTL DEF Spec, KeysFollowMembership
=============================================================================
