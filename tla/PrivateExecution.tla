-------------------------- MODULE PrivateExecution --------------------------
(***************************************************************************)
(* A call of the multisig contract as Aztec runs it.  The PXE of whoever   *)
(* executes a proposal (every signer holds the shared master account, so   *)
(* several can do so at once) runs the private function against the notes  *)
(* it knows; the result is a transaction that nullifies the notes it read  *)
(* and carries the notes that replace them; a block includes it if none of *)
(* the nullifiers is there yet, whatever happened in between.              *)
(*                                                                         *)
(* Some of the checks in main.nr are constrained (they read a note with    *)
(* get_note, which nullifies and re-emits it) and some are not (unsafe     *)
(* reads of is_message_initialized, is_address_signer).  A PXE runs both   *)
(* against the state it has seen; only the nullifiers are checked again.   *)
(* That this is enough, the refinement of MultisigAccount shows: a call    *)
(* that is included does what it would do if it ran at that moment.        *)
(***************************************************************************)
EXTENDS MultisigAccount

CONSTANT
  Caller   \* execute commands: each runs a PXE that holds the master account

VARIABLE
  pending   \* the transactions proved and not yet included or dropped, by caller

privateVars == <<threshold, signerCount, members, pubkey, executed, signed, applied, pending>>

-----------------------------------------------------------------------------
(* Notes.  A note is named for its storage slot; the three notes of a signer *)
(* (is_signer and the two coordinates of the key) are written together and  *)
(* read together, as (true, x, y) or (false, 0, 0): the key or NoKey.        *)

ThresholdNote   == <<"threshold">>
CountNote       == <<"signer_count">>
SignerNote(s)   == <<"is_signer", s>>
ExecutedNote(m) == <<"executed_message_hashes", m>>

Note == {ThresholdNote, CountNote}
        \cup {SignerNote(s) : s \in Signer}
        \cup {ExecutedNote(m) : m \in Proposal}

\* One note with its value; the notes of two sets, a newer value first.
Written(n, value) == [x \in {n} |-> value]
Over(new, old) ==
  [n \in DOMAIN new \cup DOMAIN old |-> IF n \in DOMAIN new THEN new[n] ELSE old[n]]

\* assert_valid_signatures: get_note of the threshold and of every owner, each
\* re-emitted with the value it had.
ThresholdPeeked == <<>>   \* (for the mutant: view_note, which nullifies nothing)
ThresholdRead   == Written(ThresholdNote, threshold)
OwnersRead(slots) ==
  [n \in {SignerNote(slots[i].owner) : i \in Filled(slots)} |-> pubkey[n[2]]]
CountRead == Written(CountNote, signerCount)

\* The notes that a call leaves in place of those it nullified.
AddNotes(m) ==
  Over(Written(CountNote, signerCount + 1),
       Over(Written(SignerNote(m.signer), m.key), Written(ExecutedNote(m), TRUE)))
RemoveNotes(m)    == Over(Written(SignerNote(m.signer), NoKey), CountRead)
ThresholdNotes(m) == Over(Written(ThresholdNote, m.threshold), CountRead)
IntentNotes(m)    == Written(ExecutedNote(m), TRUE)

-----------------------------------------------------------------------------
(* Private execution *)

\* The transaction of a call for m, with no note of it nullified yet; "effective"
\* says whether it will do what m says.
Send(c, m, notes, effective) ==
  /\ pending' = Over(Written(c, [msg |-> m, notes |-> notes, spent |-> {},
                                 effective |-> effective]), pending)
  /\ UNCHANGED vars

\* The checks that come first in every operation, then the signatures.
Prove(c, m, notes, effective) ==
  /\ c \notin DOMAIN pending
  /\ NotExecuted(m)
  /\ \E slots \in Submissions(m) :
       /\ AssertValidSignatures(m, slots)
       /\ Send(c, m, Over(notes, Over(ThresholdRead, OwnersRead(slots))), effective)

ProveAddSigner(c, m) ==
  /\ m.op = "add"
  /\ NotYetSigner(m)
  /\ BelowSignerLimit
  /\ Prove(c, m, AddNotes(m), TRUE)

ProveRemoveSigner(c, m) ==
  /\ m.op = "remove"
  /\ m.signer \in members
  /\ ThresholdSurvives
  /\ Prove(c, m, RemoveNotes(m), TRUE)

ProveChangeThreshold(c, m) ==
  /\ m.op = "threshold"
  /\ ThresholdInRange(m)
  /\ ThresholdFitsCount(m)
  /\ m.threshold # threshold
  /\ Prove(c, m, ThresholdNotes(m), TRUE)

ProveCrossChainIntent(c, m, wormhole_address) ==
  /\ m.op = "intent"
  /\ Prove(c, m, IntentNotes(m), wormhole_address = Wormhole)

-----------------------------------------------------------------------------
(* Inclusion *)

Touched(tx) == DOMAIN tx.notes

NullifiersUnchecked(tx) == tx.msg \in Proposal   \* (mutant)

\* The nullifiers of the transaction are new: every note it read is current.
Fresh(tx) == Touched(tx) \cap tx.spent = {}

\* What note n holds after the transaction, when it held "now".
ValueAfter(tx, n, now) == IF n \in Touched(tx) THEN tx.notes[n] ELSE now

Include(c) ==
  /\ c \in DOMAIN pending
  /\ LET tx  == pending[c]
         key == [s \in Signer |-> ValueAfter(tx, SignerNote(s), pubkey[s])]
     IN  /\ Fresh(tx)
         /\ threshold' = ValueAfter(tx, ThresholdNote, threshold)
         /\ signerCount' = ValueAfter(tx, CountNote, signerCount)
         /\ pubkey' = key
         /\ members' = {s \in Signer : key[s] # NoKey}
         /\ executed' = {m \in Proposal : ValueAfter(tx, ExecutedNote(m), m \in executed)}
         /\ IF tx.effective THEN Apply(tx.msg) ELSE UNCHANGED applied
         /\ pending' = [d \in DOMAIN pending \ {c} |->
                          [pending[d] EXCEPT !.spent = @ \cup Touched(tx)]]
  /\ UNCHANGED signed

\* The transaction is dropped: a note of it was nullified by another one, or it
\* never reached a block.  The command fails and may be run again.
Drop(c) ==
  /\ c \in DOMAIN pending
  /\ pending' = [d \in DOMAIN pending \ {c} |-> pending[d]]
  /\ UNCHANGED vars

SignHere(k, m) == Sign(k, m) /\ UNCHANGED pending

PrivateNext ==
  \/ \E k \in Key, m \in Proposal : SignHere(k, m)
  \/ \E c \in Caller, m \in Proposal :
       \/ ProveAddSigner(c, m)
       \/ ProveRemoveSigner(c, m)
       \/ ProveChangeThreshold(c, m)
       \/ \E wormhole_address \in WormholeAddress : ProveCrossChainIntent(c, m, wormhole_address)
  \/ \E c \in Caller : Include(c) \/ Drop(c)

PrivateInit == Init /\ pending = <<>>

PrivateSpec == PrivateInit /\ [][PrivateNext]_privateVars

-----------------------------------------------------------------------------
(* Properties *)

PrivateTypeOK ==
  /\ TypeOK
  /\ DOMAIN pending \subseteq Caller
  /\ \A c \in DOMAIN pending :
       /\ pending[c].msg \in Proposal
       /\ Touched(pending[c]) \subseteq Note
       /\ pending[c].spent \subseteq Note
       /\ pending[c].effective \in BOOLEAN

\* The atomic contract is what private execution and inclusion implement: with
\* any number of calls proved at the same time against the same notes, an
\* included one does exactly what the contract would do at that moment, its
\* unconstrained checks included.
ImplementsAccount == Spec

\* As soon as one transaction is included, every other one that was proved
\* before is stale, for whatever operation: all of them have nullified the
\* threshold note.  Two executions never both succeed from one state.
OneWinner ==
  [][\A c, d \in DOMAIN pending :
       /\ c # d
       /\ c \notin DOMAIN pending'
       /\ applied' # applied \/ accountVars' # accountVars
       => d \in DOMAIN pending' /\ ~Fresh(pending'[d])]_privateVars
=============================================================================
