-------------------------- MODULE MultisigAccount --------------------------
(***************************************************************************)
(* The MultisigAccount contract of aztec-contracts/src/main.nr: a set of   *)
(* at most MaxSigners signers with a Schnorr key each, a threshold, and    *)
(* four operations (add a signer, remove a signer, change the threshold,   *)
(* publish a cross-chain intent) that the master account submits together  *)
(* with an array of MaxSigners signature slots.                            *)
(*                                                                         *)
(* A call is one atomic step here: it runs to the end or reverts and       *)
(* changes nothing.  PrivateExecution.tla splits the call into its private *)
(* execution and its inclusion in a block and shows that this module is    *)
(* what the two together implement.                                        *)
(*                                                                         *)
(* A message is the record of the fields that the code hashes with         *)
(* poseidon2, so "m" stands both for the call's arguments and for its      *)
(* message_hash: the hash is injective on records of one shape, and the    *)
(* four shapes have no hash in common (an address is never as small as a   *)
(* threshold).                                                             *)
(***************************************************************************)
EXTENDS Integers, FiniteSets

CONSTANTS
  Signer,         \* nonzero Aztec addresses
  Key,            \* nonzero Schnorr public keys (x and y as one value)
  NoKey,          \* the zero public key
  Empty,          \* a signature slot whose owner is the zero address
  Intent,         \* the five payload fields of a cross-chain intent
  Deadline,       \* deadlines: hashed, never compared with a clock
  WormholeAddress,  \* the contracts that can be named as wormhole_address
  Wormhole,       \* the one among them that publishes
  MaxSigners,     \* ACCOUNT_MAX_SIGNERS
  Founding,       \* what the constructor is called with: keys and a threshold
  Proposal,       \* the messages somebody may sign
  MaxSignatures   \* bound: how many signatures are ever made

AddMsg       == [op : {"add"}, signer : Signer, key : Key, deadline : Deadline]
RemoveMsg    == [op : {"remove"}, signer : Signer, deadline : Deadline]
ThresholdMsg == [op : {"threshold"}, threshold : 0..(MaxSigners + 1),
                 deadline : Deadline]
IntentMsg    == [op : {"intent"}, intent : Intent, deadline : Deadline]
Message      == AddMsg \cup RemoveMsg \cup ThresholdMsg \cup IntentMsg

ASSUME SignerAssumption     == IsFiniteSet(Signer)
ASSUME KeyAssumption        == NoKey \notin Key
ASSUME EmptyAssumption      == Empty \notin [owner : Signer, sig : Key \X Message]
ASSUME MaxSignersAssumption == MaxSigners \in Nat \ {0}
ASSUME WormholeAssumption   == Wormhole \in WormholeAddress
ASSUME FoundingAssumption   ==
  Founding \subseteq [keys : UNION {[S -> Key] : S \in SUBSET Signer}, threshold : Nat]
ASSUME ProposalAssumption   == Proposal \subseteq Message

VARIABLES
  threshold,    \* the threshold note
  signerCount,  \* the signer_count note
  members,      \* the addresses whose is_signer note holds true
  pubkey,       \* the signer_pubkeys notes, NoKey where none or zero
  executed,     \* the initialised entries of executed_message_hashes
  signed,       \* the signatures that exist: pairs of a key and a message
  applied       \* history: how often a message took effect, 2 for "again"

accountVars == <<threshold, signerCount, members, pubkey, executed>>
vars        == <<threshold, signerCount, members, pubkey, executed, signed, applied>>

Slot == {Empty} \cup [owner : Signer, sig : Key \X Message]

TypeOK ==
  /\ threshold \in 0..MaxSigners
  /\ signerCount \in 0..MaxSigners
  /\ members \subseteq Signer
  /\ pubkey \in [Signer -> Key \cup {NoKey}]
  /\ executed \subseteq Proposal
  /\ signed \subseteq Key \X Proposal
  /\ applied \in [Proposal -> 0..2]

-----------------------------------------------------------------------------
(* The constructor, and the signers at their own machines *)

\* assert_valid_initialization: at least one signer, no more than the slots,
\* no more than it takes for the threshold, a nonzero key for exactly the
\* nonzero addresses.  A threshold of zero passes.
Init ==
  /\ \E f \in Founding :
       /\ members = DOMAIN f.keys
       /\ pubkey = [s \in Signer |-> IF s \in members THEN f.keys[s] ELSE NoKey]
       /\ threshold = f.threshold
  /\ signerCount = Cardinality(members)
  /\ signerCount > 0
  /\ signerCount <= MaxSigners
  /\ signerCount >= threshold
  /\ executed = {}
  /\ signed = {}
  /\ applied = [m \in Proposal |-> 0]

\* The holder of key k signs the hash of m: signMessage of the CLI, which
\* asks for a proposal and not for membership.
Sign(k, m) ==
  /\ <<k, m>> \notin signed
  /\ Cardinality(signed) < MaxSignatures
  /\ signed' = signed \cup {<<k, m>>}
  /\ UNCHANGED <<threshold, signerCount, members, pubkey, executed, applied>>

-----------------------------------------------------------------------------
(* Signature checking *)

Filled(slots) == {i \in DOMAIN slots : slots[i] # Empty}

\* (for the mutant: seen_owners never consulted)
OwnersUnchecked(slots) == DOMAIN slots # {}

\* seen_owners: no owner fills two slots.
OwnersDistinct(slots) ==
  \A i, j \in Filled(slots) : i # j => slots[i].owner # slots[j].owner

\* assert_is_signer for the owner of a slot.
OwnerIsSigner(slot) == slot.owner \in members

\* assert_valid_schnorr_signature under the key registered for the owner.
SignatureVerifies(m, slot) == slot.sig = <<pubkey[slot.owner], m>>

\* (for the mutant: the threshold left to the CLI, which knows an older one)
ThresholdUnchecked(slots) == Filled(slots) # {}

EnoughSignatures(slots) ==
  /\ Filled(slots) # {}
  /\ Cardinality(Filled(slots)) >= threshold

AssertValidSignatures(m, slots) ==
  /\ OwnersDistinct(slots)
  /\ \A i \in Filled(slots) : OwnerIsSigner(slots[i]) /\ SignatureVerifies(m, slots[i])
  /\ EnoughSignatures(slots)

\* What the master can put in the slots for m: signatures that exist, each
\* under any owner.  (One over another message verifies for no owner.)
Submissions(m) ==
  [1..MaxSigners -> {Empty} \cup
                    [owner : Signer, sig : {s \in signed : s[2] = m}]]

Approved(m) == \E slots \in Submissions(m) : AssertValidSignatures(m, slots)

-----------------------------------------------------------------------------
(* The operations.  The caller is the master signer. *)

Apply(m) == applied' = [applied EXCEPT ![m] = IF @ = 0 THEN 1 ELSE 2]

\* executed_message_hashes: is_message_initialized and initialize.
NotExecuted(m)    == m \notin executed
HashForgotten(m)  == m \in Message /\ executed' = executed   \* (mutant)
RecordExecuted(m) == executed' = executed \cup {m}

\* is_signer_initialized and is_address_signer: no note, or one that holds false.
SignerUnchecked(m) == m.op = "add"   \* (mutant)
NotYetSigner(m)    == m.signer \notin members

SignerLimitUnchecked == TRUE   \* (mutant)
BelowSignerLimit     == signerCount < MaxSigners

NewSignerUncounted == signerCount' = signerCount   \* (mutant)
CountNewSigner     == signerCount' = signerCount + 1

AddSigner(m) ==
  /\ m.op = "add"
  /\ NotExecuted(m)
  /\ Approved(m)
  /\ NotYetSigner(m)
  /\ BelowSignerLimit
  /\ CountNewSigner
  /\ members' = members \cup {m.signer}
  /\ pubkey' = [pubkey EXCEPT ![m.signer] = m.key]
  /\ RecordExecuted(m)
  /\ Apply(m)
  /\ UNCHANGED <<threshold, signed>>

\* "need to know after removing signer, if threshold is met": the check is
\* made on the decremented local count, which is not written back; neither is
\* the hash recorded.
ThresholdSurvives == signerCount > 0 /\ signerCount - 1 >= threshold

RemoveSigner(m) ==
  /\ m.op = "remove"
  /\ m.signer \in members
  /\ NotExecuted(m)
  /\ Approved(m)
  /\ ThresholdSurvives
  /\ members' = members \ {m.signer}
  /\ pubkey' = [pubkey EXCEPT ![m.signer] = NoKey]
  /\ Apply(m)
  /\ UNCHANGED <<threshold, signerCount, executed, signed>>

ThresholdInRange(m) == m.threshold > 0 /\ m.threshold <= MaxSigners
ThresholdAtMostOneMore(m) == m.threshold <= signerCount + 1   \* (mutant)
ThresholdFitsCount(m) == m.threshold <= signerCount

\* The hash is checked against executed_message_hashes but not recorded.
ChangeThreshold(m) ==
  /\ m.op = "threshold"
  /\ ThresholdInRange(m)
  /\ NotExecuted(m)
  /\ Approved(m)
  /\ ThresholdFitsCount(m)
  /\ m.threshold # threshold
  /\ threshold' = m.threshold
  /\ Apply(m)
  /\ UNCHANGED <<signerCount, members, pubkey, executed, signed>>

\* The payload goes to the contract that the caller names: the hash that was
\* signed does not cover wormhole_address.  The hash is used up in any case; only
\* at Wormhole is the payload published, and that is the application of m.
ExecuteCrossChainIntent(m, wormhole_address) ==
  /\ m.op = "intent"
  /\ NotExecuted(m)
  /\ Approved(m)
  /\ RecordExecuted(m)
  /\ IF wormhole_address = Wormhole THEN Apply(m) ELSE UNCHANGED applied
  /\ UNCHANGED <<threshold, signerCount, members, pubkey, signed>>

ExecuteVia(m, wormhole_address) ==
  \/ AddSigner(m)
  \/ RemoveSigner(m)
  \/ ChangeThreshold(m)
  \/ ExecuteCrossChainIntent(m, wormhole_address)

Execute(m) == \E wormhole_address \in WormholeAddress : ExecuteVia(m, wormhole_address)

Next ==
  \/ \E k \in Key, m \in Proposal : Sign(k, m)
  \/ \E m \in Proposal : Execute(m)

Spec == Init /\ [][Next]_vars

-----------------------------------------------------------------------------
(* Properties *)

\* The members whose registered key has signed m.
Backers(m) == {s \in members : <<pubkey[s], m>> \in signed}

QuorumBacks(m) == Backers(m) # {} /\ Cardinality(Backers(m)) >= threshold

\* The count that add_signer, remove_signer and change_threshold check against
\* never falls below the number of signers or below the threshold, although
\* remove_signer does not write it: with the bound on it, every member always
\* finds a slot.
SignerCountCovers ==
  /\ Cardinality(members) <= signerCount
  /\ threshold <= signerCount

\* What leaves a threshold out of reach is a removal and nothing else: until one
\* takes effect the signers can always reach it, whatever was added and changed.
ReachableUntilRemoved ==
  (\A m \in Proposal : m.op = "remove" => applied[m] = 0)
    => threshold <= Cardinality(members)

\* A signer that joins, a signer that leaves, a new threshold and a published
\* intent each have behind them, at that very moment, a threshold (and at
\* least one) of different members whose registered keys signed that very
\* operation: what assert_valid_signatures is for.
EveryChangeIsBacked ==
  [][/\ \A s \in Signer :
          (s \in members) # (s \in members') =>
             \E m \in Proposal :
                /\ m.op = IF s \in members THEN "remove" ELSE "add"
                /\ m.signer = s
                /\ QuorumBacks(m)
     /\ threshold' # threshold =>
          \E m \in Proposal :
             m.op = "threshold" /\ m.threshold = threshold' /\ QuorumBacks(m)
     /\ \A m \in Proposal :
          m.op = "intent" /\ applied'[m] # applied[m] => QuorumBacks(m)]_vars

\* An addition and an intent take effect at most once, whatever signatures are
\* kept and submitted again after other operations (executed_message_hashes).
AppliedAtMostOnce ==
  \A m \in Proposal : m.op \in {"add", "intent"} => applied[m] <= 1

\* The key registered for a signer stays what it was for as long as the address
\* is a member, and an address that is not a member has no key: a signature
\* from before a removal cannot count for the address added again with
\* another key.
KeysFollowMembership ==
  [][\A s \in Signer :
       /\ s \in members \cap members' => pubkey'[s] = pubkey[s]
       /\ s \notin members' => pubkey'[s] = NoKey]_vars

\* Violated.  "need to know after removing signer, if threshold is met": that
\* the signers left over can always reach the threshold.
ThresholdReachable == threshold <= Cardinality(members)

\* Violated.  "Message hash already executed": that no message takes effect a
\* second time, whichever operation it is for.
NoReplay == \A m \in Proposal : applied[m] <= 1
=============================================================================
