----------------------- MODULE PrivateExecution_proofs -----------------------
(* PrivateExecution implements MultisigAccount, for every number of callers *)
(* and every value of the account's constants: what a transaction computed  *)
(* from the notes it read is still what the contract would do, as long as   *)
(* its nullifiers are new.                                                 *)
EXTENDS PrivateExecution, MultisigAccount_proofs

-----------------------------------------------------------------------------
(* Notes *)

\* Notes with different names have different nullifiers.
LEMMA NotesDiffer ==
  /\ ThresholdNote # CountNote
  /\ \A s : SignerNote(s) # ThresholdNote /\ SignerNote(s) # CountNote
  /\ \A m : ExecutedNote(m) # ThresholdNote /\ ExecutedNote(m) # CountNote
  /\ \A s, m : SignerNote(s) # ExecutedNote(m)
  /\ \A s, u : SignerNote(s) = SignerNote(u) => s = u
  /\ \A m, n : ExecutedNote(m) = ExecutedNote(n) => m = n
BY DEF ThresholdNote, CountNote, SignerNote, ExecutedNote

\* What assert_valid_signatures read of the owners it re-emits as it was.
LEMMA OwnersKeep ==
  ASSUME NEW slots, NEW s, SignerNote(s) \in DOMAIN OwnersRead(slots)
  PROVE  OwnersRead(slots)[SignerNote(s)] = pubkey[s]
BY DEF OwnersRead, SignerNote

\* The owners' notes are is_signer notes.
LEMMA OwnersAreSigners ==
  ASSUME NEW slots, NEW n \in DOMAIN OwnersRead(slots)
  PROVE  \E s : n = SignerNote(s)
BY DEF OwnersRead

-----------------------------------------------------------------------------
(* Proved transactions *)

\* The notes of a call for m that filled these slots, run now.
NotesOf(m, slots) ==
  Over(CASE m.op = "add"       -> AddNotes(m)
         [] m.op = "remove"    -> RemoveNotes(m)
         [] m.op = "threshold" -> ThresholdNotes(m)
         [] m.op = "intent"    -> IntentNotes(m),
       Over(ThresholdRead, OwnersRead(slots)))

\* The checks of each operation that are not about signatures.
OperationAllowed(m) ==
  /\ NotExecuted(m)
  /\ m.op = "add" => NotYetSigner(m) /\ BelowSignerLimit
  /\ m.op = "remove" => m.signer \in members /\ ThresholdSurvives
  /\ m.op = "threshold" =>
       ThresholdInRange(m) /\ ThresholdFitsCount(m) /\ m.threshold # threshold

\* The transactions under way.
Proved == {pending[c] : c \in DOMAIN pending}

\* The transaction is what its caller would prove now.
Current(tx) ==
  /\ OperationAllowed(tx.msg)
  /\ \E slots \in Submissions(tx.msg) :
       /\ AssertValidSignatures(tx.msg, slots)
       /\ tx.notes = NotesOf(tx.msg, slots)

\* Everything but an intent has its effect; an intent has none when another
\* contract was named.
Effect(tx) ==
  /\ tx.effective \in BOOLEAN
  /\ tx.msg.op # "intent" => tx.effective
  /\ tx.effective \/ \E a \in WormholeAddress : a # Wormhole

\* What inclusion does to the history.
Takes(tx) == IF tx.effective THEN Apply(tx.msg) ELSE UNCHANGED applied

PendingInv ==
  \A tx \in Proved :
    /\ DOMAIN tx = {"msg", "notes", "spent", "effective"}
    /\ tx.msg \in Proposal
    /\ ThresholdNote \in Touched(tx)
    /\ Touched(tx) \subseteq Note /\ tx.spent \subseteq Note
    /\ Effect(tx)
    /\ Fresh(tx) => Current(tx)

\* Exactly the members have a key.
MembersHaveKeys == \A s \in Signer : s \in members <=> pubkey[s] # NoKey

\* Every message is of one of the four kinds.
LEMMA FourOperations ==
  ASSUME NEW m \in Proposal
  PROVE  m.op \in {"add", "remove", "threshold", "intent"}
BY ProposalAssumption
   DEF Message, AddMsg, RemoveMsg, ThresholdMsg, IntentMsg

\* Whatever the operation, its transaction nullifies the threshold note.
LEMMA NotesDomain ==
  ASSUME NEW m \in Proposal, NEW slots
  PROVE  ThresholdNote \in DOMAIN NotesOf(m, slots)
BY DEF NotesOf, Over, ThresholdRead, Written

\* A transaction touches notes of the account only.
LEMMA NotesAreNotes ==
  ASSUME NEW m \in Proposal, NEW slots \in Submissions(m)
  PROVE  DOMAIN NotesOf(m, slots) \subseteq Note
<1> DEFINE written == CASE m.op = "add"       -> AddNotes(m)
                        [] m.op = "remove"    -> RemoveNotes(m)
                        [] m.op = "threshold" -> ThresholdNotes(m)
                        [] m.op = "intent"    -> IntentNotes(m)
<1>1. DOMAIN written \subseteq Note
  <2>1. CASE m.op = "add"
    BY <2>1, MessageShapes DEF AddNotes, Over, Written, Note
  <2>2. CASE m.op = "remove"
    BY <2>2, MessageShapes DEF RemoveNotes, CountRead, Over, Written, Note
  <2>3. CASE m.op = "threshold"
    BY <2>3 DEF ThresholdNotes, CountRead, Over, Written, Note
  <2>4. CASE m.op = "intent"
    BY <2>4 DEF IntentNotes, Written, Note
  <2>5. QED
    BY <2>1, <2>2, <2>3, <2>4, FourOperations
<1>2. DOMAIN ThresholdRead \subseteq Note
  BY DEF ThresholdRead, Written, Note
<1>3. DOMAIN OwnersRead(slots) \subseteq Note
  <2>1. \A i \in Filled(slots) : slots[i].owner \in Signer
    BY DEF Filled, Submissions
  <2>2. QED
    BY <2>1 DEF OwnersRead, Note
<1> HIDE DEF written
<1>4. DOMAIN Over(written, Over(ThresholdRead, OwnersRead(slots))) \subseteq Note
  BY <1>1, <1>2, <1>3 DEF Over
<1>5. QED
  BY <1>4 DEF NotesOf, written

-----------------------------------------------------------------------------
(* Inclusion does what the contract does *)

\* What a transaction only read, it leaves as it was: its effect is that of
\* the notes that the operation wrote.
LEMMA ReadsKeep ==
  ASSUME NEW tx, NEW written, NEW slots,
         tx.notes = Over(written, Over(ThresholdRead, OwnersRead(slots)))
  PROVE  LET After(n, now) == IF n \in DOMAIN written THEN written[n] ELSE now
         IN  /\ ValueAfter(tx, ThresholdNote, threshold) = After(ThresholdNote, threshold)
             /\ ValueAfter(tx, CountNote, signerCount) = After(CountNote, signerCount)
             /\ \A s : ValueAfter(tx, SignerNote(s), pubkey[s]) = After(SignerNote(s), pubkey[s])
             /\ \A m : ValueAfter(tx, ExecutedNote(m), m \in executed)
                          = After(ExecutedNote(m), m \in executed)
<1> DEFINE reads == Over(ThresholdRead, OwnersRead(slots))
<1>1. DOMAIN reads = {ThresholdNote} \cup DOMAIN OwnersRead(slots)
  BY DEF Over, ThresholdRead, Written
<1>2. reads[ThresholdNote] = threshold
  BY DEF Over, ThresholdRead, Written
<1>3. ASSUME NEW s, SignerNote(s) \in DOMAIN reads
      PROVE  reads[SignerNote(s)] = pubkey[s]
  BY <1>3, <1>1, NotesDiffer, OwnersKeep DEF Over, ThresholdRead, Written
<1>4. CountNote \notin DOMAIN reads
  BY <1>1, NotesDiffer, OwnersAreSigners
<1>5. \A m : ExecutedNote(m) \notin DOMAIN reads
  BY <1>1, NotesDiffer, OwnersAreSigners
<1>6. tx.notes = Over(written, reads)
  OBVIOUS
<1> HIDE DEF reads
<1>7. \A n : n \in DOMAIN tx.notes <=> n \in DOMAIN written \/ n \in DOMAIN reads
  BY <1>6 DEF Over
<1>8. \A n \in DOMAIN tx.notes :
        tx.notes[n] = IF n \in DOMAIN written THEN written[n] ELSE reads[n]
  BY <1>6 DEF Over
<1>9. QED
  BY <1>1, <1>2, <1>3, <1>4, <1>5, <1>7, <1>8 DEF ValueAfter, Touched

\* The state after inclusion, as a function of the notes that the operation wrote.
LEMMA Included ==
  ASSUME TypeOK, NEW c, Include(c),
         NEW written, NEW slots,
         pending[c].notes = Over(written, Over(ThresholdRead, OwnersRead(slots)))
  PROVE  LET After(n, now) == IF n \in DOMAIN written THEN written[n] ELSE now
             key == [s \in Signer |-> After(SignerNote(s), pubkey[s])]
         IN  /\ threshold' = After(ThresholdNote, threshold)
             /\ signerCount' = After(CountNote, signerCount)
             /\ pubkey' = key
             /\ members' = {s \in Signer : key[s] # NoKey}
             /\ executed' = {m \in Proposal : After(ExecutedNote(m), m \in executed)}
             /\ signed' = signed
             /\ Takes(pending[c])
<1> DEFINE After(n, now) == IF n \in DOMAIN written THEN written[n] ELSE now
           key == [s \in Signer |-> After(SignerNote(s), pubkey[s])]
<1>1. /\ ValueAfter(pending[c], ThresholdNote, threshold) = After(ThresholdNote, threshold)
      /\ ValueAfter(pending[c], CountNote, signerCount) = After(CountNote, signerCount)
      /\ \A s : ValueAfter(pending[c], SignerNote(s), pubkey[s]) = After(SignerNote(s), pubkey[s])
      /\ \A m : ValueAfter(pending[c], ExecutedNote(m), m \in executed)
                   = After(ExecutedNote(m), m \in executed)
  BY ReadsKeep
<1> HIDE DEF After
<1>2. /\ threshold' = After(ThresholdNote, threshold)
      /\ signerCount' = After(CountNote, signerCount)
      /\ signed' = signed
      /\ Takes(pending[c])
  BY <1>1 DEF Include, Takes
<1>3. [s \in Signer |-> ValueAfter(pending[c], SignerNote(s), pubkey[s])] = key
  BY <1>1
<1>4. pubkey' = key /\ members' = {s \in Signer : key[s] # NoKey}
  BY <1>3 DEF Include
<1>5. executed' = {m \in Proposal : After(ExecutedNote(m), m \in executed)}
  BY <1>1 DEF Include
<1>6. QED
  BY <1>2, <1>4, <1>5 DEF After

\* What a proved transaction of each kind does when it is included while it is
\* still current.
LEMMA IncludeAdd ==
  ASSUME TypeOK, MembersHaveKeys,
         NEW c, Include(c),
         pending[c].msg \in Proposal,
         pending[c].msg.op = "add",
         Current(pending[c]), Effect(pending[c])
  PROVE  AddSigner(pending[c].msg)
<1> DEFINE m == pending[c].msg
<1>1. PICK slots \in Submissions(m) :
        AssertValidSignatures(m, slots) /\ pending[c].notes = NotesOf(m, slots)
  BY DEF Current
<1>2. Approved(m)
  BY <1>1 DEF Approved
<1>3. OperationAllowed(m)
  BY DEF Current
<1>4. m.signer \in Signer /\ m.key \in Key
  BY MessageShapes
<1>5. pending[c].notes = Over(AddNotes(m), Over(ThresholdRead, OwnersRead(slots)))
  BY <1>1 DEF NotesOf
<1>6. DOMAIN AddNotes(m) = {CountNote, SignerNote(m.signer), ExecutedNote(m)}
  BY DEF AddNotes, Over, Written
<1>7. /\ AddNotes(m)[CountNote] = signerCount + 1
      /\ AddNotes(m)[SignerNote(m.signer)] = m.key
      /\ AddNotes(m)[ExecutedNote(m)] = TRUE
  BY NotesDiffer DEF AddNotes, Over, Written
<1> DEFINE written == AddNotes(m)
           After(n, now) == IF n \in DOMAIN written THEN written[n] ELSE now
           key == [s \in Signer |-> After(SignerNote(s), pubkey[s])]
<1> HIDE DEF written
<1>8. /\ threshold' = After(ThresholdNote, threshold)
      /\ signerCount' = After(CountNote, signerCount)
      /\ pubkey' = key
      /\ members' = {s \in Signer : key[s] # NoKey}
      /\ executed' = {n \in Proposal : After(ExecutedNote(n), n \in executed)}
      /\ signed' = signed
      /\ Takes(pending[c])
  BY <1>5, Included DEF written
<1>9. threshold' = threshold /\ signerCount' = signerCount + 1
  BY <1>6, <1>7, <1>8, NotesDiffer DEF written
<1>10. key = [pubkey EXCEPT ![m.signer] = m.key]
  BY <1>4, <1>6, <1>7, NotesDiffer DEF written, TypeOK
<1>11. members' = members \cup {m.signer}
  BY <1>4, <1>8, <1>10, KeyAssumption DEF MembersHaveKeys, TypeOK
<1>12. executed' = executed \cup {m}
  <2>1. \A n \in Proposal : After(ExecutedNote(n), n \in executed) <=> n = m \/ n \in executed
    BY <1>6, <1>7, NotesDiffer DEF written
  <2>2. QED
    BY <1>8, <2>1 DEF TypeOK
<1>13. Apply(m)
  BY <1>8 DEF Takes, Effect
<1>14. QED
  BY <1>2, <1>3, <1>8, <1>9, <1>10, <1>11, <1>12, <1>13
     DEF AddSigner, OperationAllowed, CountNewSigner, RecordExecuted

\* The same for a removal: the count is re-emitted as it was.
LEMMA IncludeRemove ==
  ASSUME TypeOK, MembersHaveKeys,
         NEW c, Include(c),
         pending[c].msg \in Proposal,
         pending[c].msg.op = "remove",
         Current(pending[c]), Effect(pending[c])
  PROVE  RemoveSigner(pending[c].msg)
<1> DEFINE m == pending[c].msg
<1>1. PICK slots \in Submissions(m) :
        AssertValidSignatures(m, slots) /\ pending[c].notes = NotesOf(m, slots)
  BY DEF Current
<1>2. Approved(m)
  BY <1>1 DEF Approved
<1>3. OperationAllowed(m)
  BY DEF Current
<1>4. m.signer \in Signer
  BY MessageShapes
<1>5. pending[c].notes = Over(RemoveNotes(m), Over(ThresholdRead, OwnersRead(slots)))
  BY <1>1 DEF NotesOf
<1>6. DOMAIN RemoveNotes(m) = {SignerNote(m.signer), CountNote}
  BY DEF RemoveNotes, CountRead, Over, Written
<1>7. /\ RemoveNotes(m)[SignerNote(m.signer)] = NoKey
      /\ RemoveNotes(m)[CountNote] = signerCount
  BY NotesDiffer DEF RemoveNotes, CountRead, Over, Written
<1> DEFINE written == RemoveNotes(m)
           After(n, now) == IF n \in DOMAIN written THEN written[n] ELSE now
           key == [s \in Signer |-> After(SignerNote(s), pubkey[s])]
<1> HIDE DEF written
<1>8. /\ threshold' = After(ThresholdNote, threshold)
      /\ signerCount' = After(CountNote, signerCount)
      /\ pubkey' = key
      /\ members' = {s \in Signer : key[s] # NoKey}
      /\ executed' = {n \in Proposal : After(ExecutedNote(n), n \in executed)}
      /\ signed' = signed
      /\ Takes(pending[c])
  BY <1>5, Included DEF written
<1>9. threshold' = threshold /\ signerCount' = signerCount
  BY <1>6, <1>7, <1>8, NotesDiffer DEF written
<1>10. key = [pubkey EXCEPT ![m.signer] = NoKey]
  BY <1>4, <1>6, <1>7, NotesDiffer DEF written, TypeOK
<1>11. members' = members \ {m.signer}
  BY <1>4, <1>8, <1>10 DEF MembersHaveKeys, TypeOK
<1>12. executed' = executed
  <2>1. \A n \in Proposal : After(ExecutedNote(n), n \in executed) <=> n \in executed
    BY <1>6, NotesDiffer DEF written
  <2>2. QED
    BY <1>8, <2>1 DEF TypeOK
<1>13. Apply(m)
  BY <1>8 DEF Takes, Effect
<1>14. QED
  BY <1>2, <1>3, <1>8, <1>9, <1>10, <1>11, <1>12, <1>13 DEF RemoveSigner, OperationAllowed

\* The same for a new threshold, whose note replaces the one read.
LEMMA IncludeThreshold ==
  ASSUME TypeOK, MembersHaveKeys,
         NEW c, Include(c),
         pending[c].msg \in Proposal,
         pending[c].msg.op = "threshold",
         Current(pending[c]), Effect(pending[c])
  PROVE  ChangeThreshold(pending[c].msg)
<1> DEFINE m == pending[c].msg
<1>1. PICK slots \in Submissions(m) :
        AssertValidSignatures(m, slots) /\ pending[c].notes = NotesOf(m, slots)
  BY DEF Current
<1>2. Approved(m)
  BY <1>1 DEF Approved
<1>3. OperationAllowed(m)
  BY DEF Current
<1>4. m.threshold \in 0..(MaxSigners + 1)
  BY MessageShapes
<1>5. pending[c].notes = Over(ThresholdNotes(m), Over(ThresholdRead, OwnersRead(slots)))
  BY <1>1 DEF NotesOf
<1>6. DOMAIN ThresholdNotes(m) = {ThresholdNote, CountNote}
  BY DEF ThresholdNotes, CountRead, Over, Written
<1>7. /\ ThresholdNotes(m)[ThresholdNote] = m.threshold
      /\ ThresholdNotes(m)[CountNote] = signerCount
  BY NotesDiffer DEF ThresholdNotes, CountRead, Over, Written
<1> DEFINE written == ThresholdNotes(m)
           After(n, now) == IF n \in DOMAIN written THEN written[n] ELSE now
           key == [s \in Signer |-> After(SignerNote(s), pubkey[s])]
<1> HIDE DEF written
<1>8. /\ threshold' = After(ThresholdNote, threshold)
      /\ signerCount' = After(CountNote, signerCount)
      /\ pubkey' = key
      /\ members' = {s \in Signer : key[s] # NoKey}
      /\ executed' = {n \in Proposal : After(ExecutedNote(n), n \in executed)}
      /\ signed' = signed
      /\ Takes(pending[c])
  BY <1>5, Included DEF written
<1>9. threshold' = m.threshold /\ signerCount' = signerCount
  BY <1>6, <1>7, <1>8, NotesDiffer DEF written
<1>10. key = pubkey
  BY <1>6, NotesDiffer DEF written, TypeOK
<1>11. members' = members
  BY <1>8, <1>10 DEF MembersHaveKeys, TypeOK
<1>12. executed' = executed
  <2>1. \A n \in Proposal : After(ExecutedNote(n), n \in executed) <=> n \in executed
    BY <1>6, NotesDiffer DEF written
  <2>2. QED
    BY <1>8, <2>1 DEF TypeOK
<1>13. Apply(m)
  BY <1>8 DEF Takes, Effect
<1>14. QED
  BY <1>2, <1>3, <1>8, <1>9, <1>10, <1>11, <1>12, <1>13 DEF ChangeThreshold, OperationAllowed

\* The same for an intent, which leaves a record of its hash only.
LEMMA IncludeIntent ==
  ASSUME TypeOK, MembersHaveKeys,
         NEW c, Include(c),
         pending[c].msg \in Proposal,
         pending[c].msg.op = "intent",
         Current(pending[c]), Effect(pending[c])
  PROVE  \E a \in WormholeAddress : ExecuteCrossChainIntent(pending[c].msg, a)
<1> DEFINE m == pending[c].msg
<1>1. PICK slots \in Submissions(m) :
        AssertValidSignatures(m, slots) /\ pending[c].notes = NotesOf(m, slots)
  BY DEF Current
<1>2. Approved(m)
  BY <1>1 DEF Approved
<1>3. OperationAllowed(m)
  BY DEF Current
<1>4. m \in Proposal
  OBVIOUS
<1>5. pending[c].notes = Over(IntentNotes(m), Over(ThresholdRead, OwnersRead(slots)))
  BY <1>1 DEF NotesOf
<1>6. DOMAIN IntentNotes(m) = {ExecutedNote(m)}
  BY DEF IntentNotes, Written
<1>7. IntentNotes(m)[ExecutedNote(m)] = TRUE
  BY DEF IntentNotes, Written
<1> DEFINE written == IntentNotes(m)
           After(n, now) == IF n \in DOMAIN written THEN written[n] ELSE now
           key == [s \in Signer |-> After(SignerNote(s), pubkey[s])]
<1> HIDE DEF written
<1>8. /\ threshold' = After(ThresholdNote, threshold)
      /\ signerCount' = After(CountNote, signerCount)
      /\ pubkey' = key
      /\ members' = {s \in Signer : key[s] # NoKey}
      /\ executed' = {n \in Proposal : After(ExecutedNote(n), n \in executed)}
      /\ signed' = signed
      /\ Takes(pending[c])
  BY <1>5, Included DEF written
<1>9. threshold' = threshold /\ signerCount' = signerCount
  BY <1>6, <1>8, NotesDiffer DEF written
<1>10. key = pubkey
  BY <1>6, NotesDiffer DEF written, TypeOK
<1>11. members' = members
  BY <1>8, <1>10 DEF MembersHaveKeys, TypeOK
<1>12. executed' = executed \cup {m}
  <2>1. \A n \in Proposal : After(ExecutedNote(n), n \in executed) <=> n = m \/ n \in executed
    BY <1>6, <1>7, NotesDiffer DEF written
  <2>2. QED
    BY <1>8, <2>1 DEF TypeOK
<1>13. PICK a \in WormholeAddress : pending[c].effective <=> a = Wormhole
  BY WormholeAssumption DEF Effect
<1>14. ExecuteCrossChainIntent(m, a)
  BY <1>2, <1>3, <1>8, <1>9, <1>10, <1>11, <1>12, <1>13
     DEF ExecuteCrossChainIntent, OperationAllowed, RecordExecuted, Takes
<1>15. QED
  BY <1>14

\* A transaction that is included does what the contract would do now.
LEMMA IncludeExecutes ==
  ASSUME TypeOK, MembersHaveKeys, PendingInv, NEW c, Include(c)
  PROVE  Next
<1>1. pending[c] \in Proved
  BY DEF Include, Proved
<1>2. pending[c].msg \in Proposal /\ Current(pending[c]) /\ Effect(pending[c])
  BY <1>1 DEF PendingInv, Include
<1>3. Execute(pending[c].msg)
  BY <1>2, FourOperations, IncludeAdd, IncludeRemove, IncludeThreshold, IncludeIntent,
     WormholeAssumption DEF Execute, ExecuteVia
<1>4. QED
  BY <1>2, <1>3 DEF Next

-----------------------------------------------------------------------------
(* The invariant *)

\* The constructor refuses a zero key.
LEMMA InitMembersHaveKeys == Init => MembersHaveKeys
<1> SUFFICES ASSUME Init PROVE MembersHaveKeys
  OBVIOUS
<1>1. PICK f \in Founding :
         /\ members = DOMAIN f.keys
         /\ pubkey = [s \in Signer |-> IF s \in members THEN f.keys[s] ELSE NoKey]
  BY DEF Init
<1>2. PICK S \in SUBSET Signer : f.keys \in [S -> Key]
  BY FoundingAssumption
<1>3. \A s \in members : f.keys[s] # NoKey
  BY <1>1, <1>2, KeyAssumption
<1>4. QED
  BY <1>1, <1>3 DEF MembersHaveKeys

\* A key is registered exactly while the membership lasts.
LEMMA NextMembersHaveKeys ==
  ASSUME TypeOK, MembersHaveKeys, [Next]_vars
  PROVE  MembersHaveKeys'
<1> USE DEF MembersHaveKeys, TypeOK
<1>1. ASSUME NEW k \in Key, NEW m \in Proposal, Sign(k, m)
      PROVE  MembersHaveKeys'
  BY <1>1 DEF Sign
<1>2. ASSUME NEW m \in Proposal, AddSigner(m)
      PROVE  MembersHaveKeys'
  BY <1>2, MessageShapes, KeyAssumption DEF AddSigner
<1>3. ASSUME NEW m \in Proposal, RemoveSigner(m)
      PROVE  MembersHaveKeys'
  BY <1>3 DEF RemoveSigner
<1>4. ASSUME NEW m \in Proposal, ChangeThreshold(m)
      PROVE  MembersHaveKeys'
  BY <1>4 DEF ChangeThreshold
<1>5. ASSUME NEW m \in Proposal, NEW a \in WormholeAddress, ExecuteCrossChainIntent(m, a)
      PROVE  MembersHaveKeys'
  BY <1>5 DEF ExecuteCrossChainIntent
<1>6. CASE UNCHANGED vars
  BY <1>6 DEF vars
<1>7. QED
  BY <1>1, <1>2, <1>3, <1>4, <1>5, <1>6 DEF Next, Execute, ExecuteVia

\* Further signatures, and time, do not make a transaction out of date.
LEMMA CurrentStays ==
  ASSUME UNCHANGED accountVars, signed \subseteq signed',
         NEW tx, Current(tx)
  PROVE  Current(tx)'
<1> USE DEF accountVars
<1>1. PICK slots \in Submissions(tx.msg) :
        AssertValidSignatures(tx.msg, slots) /\ tx.notes = NotesOf(tx.msg, slots)
  BY DEF Current
<1>2. OperationAllowed(tx.msg)'
  BY DEF Current, OperationAllowed, NotExecuted, NotYetSigner, BelowSignerLimit,
         ThresholdSurvives, ThresholdInRange, ThresholdFitsCount
<1>3. slots \in Submissions(tx.msg)'
  BY DEF Submissions
<1>4. AssertValidSignatures(tx.msg, slots)'
  BY <1>1 DEF AssertValidSignatures, OwnersDistinct, OwnerIsSigner, SignatureVerifies,
              EnoughSignatures, Filled
<1>5. NotesOf(tx.msg, slots)' = NotesOf(tx.msg, slots)
  BY DEF NotesOf, AddNotes, RemoveNotes, ThresholdNotes, IntentNotes, CountRead,
         ThresholdRead, OwnersRead, Over, Written, Filled, SignerNote, ThresholdNote,
         CountNote, ExecutedNote
<1>6. QED
  BY <1>1, <1>2, <1>3, <1>4, <1>5 DEF Current

\* A step that includes nothing leaves every transaction as current as it was.
LEMMA OthersStay ==
  ASSUME PendingInv, UNCHANGED accountVars, signed \subseteq signed',
         NEW tx \in Proved
  PROVE  /\ DOMAIN tx = {"msg", "notes", "spent", "effective"}
         /\ tx.msg \in Proposal
         /\ ThresholdNote \in Touched(tx)
         /\ Touched(tx) \subseteq Note /\ tx.spent \subseteq Note
         /\ Effect(tx)
         /\ Fresh(tx) => Current(tx)'
BY CurrentStays DEF PendingInv

\* After a caller has proved its call, its transaction is one more, and current.
LEMMA ProveStep ==
  ASSUME PendingInv, NEW c \in Caller, NEW m \in Proposal, NEW written,
         OperationAllowed(m),
         NEW effective, Prove(c, m, written, effective),
         effective \in BOOLEAN,
         m.op # "intent" => effective,
         effective \/ \E a \in WormholeAddress : a # Wormhole,
         \A slots : NotesOf(m, slots) = Over(written, Over(ThresholdRead, OwnersRead(slots)))
  PROVE  PendingInv' /\ UNCHANGED vars
<1>1. PICK slots \in Submissions(m) :
        /\ AssertValidSignatures(m, slots)
        /\ Send(c, m, NotesOf(m, slots), effective)
  BY DEF Prove
<1> DEFINE new == [msg |-> m, notes |-> NotesOf(m, slots), spent |-> {},
                  effective |-> effective]
<1>2. UNCHANGED vars
  BY <1>1 DEF Send
<1>3. Current(new)
  BY <1>1 DEF Current
<1>4. ThresholdNote \in Touched(new) /\ Touched(new) \subseteq Note /\ new.spent \subseteq Note
  BY <1>1, NotesDomain, NotesAreNotes DEF Touched
<1>5. new.msg \in Proposal /\ Effect(new) /\ DOMAIN new = {"msg", "notes", "spent", "effective"}
  BY DEF Effect
<1>6. \A tx \in Proved' : tx \in Proved \/ tx = new
  BY <1>1 DEF Send, Proved, Over, Written
<1> HIDE DEF new
<1>7. UNCHANGED accountVars /\ signed \subseteq signed'
  BY <1>2 DEF vars, accountVars
<1>8. ASSUME NEW tx \in Proved'
      PROVE  /\ DOMAIN tx = {"msg", "notes", "spent", "effective"}
             /\ tx.msg \in Proposal
             /\ ThresholdNote \in Touched(tx)
             /\ Touched(tx) \subseteq Note /\ tx.spent \subseteq Note
             /\ Effect(tx)
             /\ Fresh(tx) => Current(tx)'
  <2>1. CASE tx \in Proved
    BY <1>7, <2>1, OthersStay
  <2>2. CASE tx = new
    <3>1. Current(tx)
      BY <1>3, <2>2
    <3>2. Current(tx)'
      BY <1>7, <3>1, CurrentStays
    <3>3. QED
      BY <1>4, <1>5, <2>2, <3>2
  <2>3. QED
    BY <1>6, <1>8, <2>1, <2>2
<1>9. PendingInv'
  BY <1>8 DEF PendingInv, Touched, Fresh, Effect, Note, ThresholdNote,
     CountNote, SignerNote, ExecutedNote
<1>10. QED
  BY <1>2, <1>9

\* After an inclusion no transaction is fresh: all have touched the threshold
\* note, and so has the one included.
LEMMA IncludeStep ==
  ASSUME PendingInv, NEW c, Include(c)
  PROVE  /\ PendingInv'
         /\ \A d \in DOMAIN pending \ {c} : d \in DOMAIN pending' /\ ~Fresh(pending'[d])
<1>1. pending[c] \in Proved
  BY DEF Include, Proved
<1>2. ThresholdNote \in Touched(pending[c]) /\ Touched(pending[c]) \subseteq Note
  BY <1>1 DEF PendingInv
<1>3. /\ DOMAIN pending' = DOMAIN pending \ {c}
      /\ \A d \in DOMAIN pending' :
           pending'[d] = [pending[d] EXCEPT !.spent = @ \cup Touched(pending[c])]
  BY DEF Include
<1>4. ASSUME NEW d \in DOMAIN pending'
      PROVE  /\ DOMAIN pending'[d] = {"msg", "notes", "spent", "effective"}
             /\ pending'[d].msg \in Proposal
             /\ ThresholdNote \in DOMAIN pending'[d].notes
             /\ ThresholdNote \in pending'[d].spent
             /\ DOMAIN pending'[d].notes \subseteq Note /\ pending'[d].spent \subseteq Note
             /\ Effect(pending'[d])
  <2>1. pending[d] \in Proved
    BY <1>3, <1>4 DEF Proved
  <2>2. /\ DOMAIN pending[d] = {"msg", "notes", "spent", "effective"}
        /\ pending[d].msg \in Proposal
        /\ ThresholdNote \in DOMAIN pending[d].notes
        /\ DOMAIN pending[d].notes \subseteq Note /\ pending[d].spent \subseteq Note
        /\ Effect(pending[d])
    BY <2>1 DEF PendingInv, Touched
  <2>3. QED
    BY <1>2, <1>3, <1>4, <2>2 DEF Effect
<1>5. PendingInv'
  BY <1>4 DEF PendingInv, Proved, Touched, Fresh, Effect, Note, ThresholdNote,
     CountNote, SignerNote, ExecutedNote
<1>6. \A d \in DOMAIN pending \ {c} : d \in DOMAIN pending' /\ ~Fresh(pending'[d])
  BY <1>3, <1>4 DEF Fresh, Touched
<1>7. QED
  BY <1>5, <1>6

PInv == TypeOK /\ MembersHaveKeys /\ PendingInv

\* At the start nothing is under way.
LEMMA PrivateInitInv == PrivateInit => Init /\ PInv
<1> SUFFICES ASSUME PrivateInit PROVE Init /\ PInv
  OBVIOUS
<1>1. Init
  BY DEF PrivateInit
<1>2. PendingInv
  BY DEF PrivateInit, PendingInv, Proved
<1>3. QED
  BY <1>1, <1>2, InitTypeOK, InitMembersHaveKeys DEF PInv

\* Every step of the private execution is a step of the contract, or changes
\* nothing of it, and keeps the invariant.
LEMMA PrivateStep ==
  ASSUME PInv, [PrivateNext]_privateVars
  PROVE  PInv' /\ [Next]_vars
<1> DEFINE Goal == PendingInv' /\ [Next]_vars
<1>1. ASSUME NEW k \in Key, NEW m \in Proposal, SignHere(k, m)
      PROVE  Goal
  <2>1. [Next]_vars
    BY <1>1 DEF SignHere, Next
  <2>2. UNCHANGED accountVars /\ signed \subseteq signed' /\ UNCHANGED pending
    BY <1>1 DEF SignHere, Sign, accountVars
  <2>3. \A tx \in Proved' : tx \in Proved
    BY <2>2 DEF Proved
  <2>4. PendingInv'
    BY <2>2, <2>3, OthersStay DEF PInv, PendingInv, Touched, Fresh, Effect, Note, ThresholdNote,
     CountNote, SignerNote, ExecutedNote
  <2>5. QED
    BY <2>1, <2>4
<1>2. ASSUME NEW c \in Caller, NEW m \in Proposal, ProveAddSigner(c, m)
      PROVE  Goal
  <2>1. OperationAllowed(m) /\ Prove(c, m, AddNotes(m), TRUE) /\ m.op # "intent"
    BY <1>2 DEF ProveAddSigner, Prove, OperationAllowed
  <2>2. \A slots : NotesOf(m, slots) = Over(AddNotes(m), Over(ThresholdRead, OwnersRead(slots)))
    BY <1>2 DEF ProveAddSigner, NotesOf
  <2>3. QED
    BY <2>1, <2>2, ProveStep DEF PInv
<1>3. ASSUME NEW c \in Caller, NEW m \in Proposal, ProveRemoveSigner(c, m)
      PROVE  Goal
  <2>1. OperationAllowed(m) /\ Prove(c, m, RemoveNotes(m), TRUE) /\ m.op # "intent"
    BY <1>3 DEF ProveRemoveSigner, Prove, OperationAllowed
  <2>2. \A slots : NotesOf(m, slots) = Over(RemoveNotes(m), Over(ThresholdRead, OwnersRead(slots)))
    BY <1>3 DEF ProveRemoveSigner, NotesOf
  <2>3. QED
    BY <2>1, <2>2, ProveStep DEF PInv
<1>4. ASSUME NEW c \in Caller, NEW m \in Proposal, ProveChangeThreshold(c, m)
      PROVE  Goal
  <2>1. OperationAllowed(m) /\ Prove(c, m, ThresholdNotes(m), TRUE) /\ m.op # "intent"
    BY <1>4 DEF ProveChangeThreshold, Prove, OperationAllowed
  <2>2. \A slots : NotesOf(m, slots) = Over(ThresholdNotes(m), Over(ThresholdRead, OwnersRead(slots)))
    BY <1>4 DEF ProveChangeThreshold, NotesOf
  <2>3. QED
    BY <2>1, <2>2, ProveStep DEF PInv
<1>5. ASSUME NEW c \in Caller, NEW m \in Proposal, NEW a \in WormholeAddress,
             ProveCrossChainIntent(c, m, a)
      PROVE  Goal
  <2>1. OperationAllowed(m) /\ Prove(c, m, IntentNotes(m), a = Wormhole) /\ m.op = "intent"
    BY <1>5 DEF ProveCrossChainIntent, Prove, OperationAllowed
  <2>2. \A slots : NotesOf(m, slots) = Over(IntentNotes(m), Over(ThresholdRead, OwnersRead(slots)))
    BY <1>5 DEF ProveCrossChainIntent, NotesOf
  <2>3. QED
    BY <2>1, <2>2, ProveStep DEF PInv
<1>6. ASSUME NEW c \in Caller, Include(c)
      PROVE  Goal
  BY <1>6, IncludeStep, IncludeExecutes DEF PInv
<1>7. ASSUME NEW c \in Caller, Drop(c)
      PROVE  Goal
  <2>1. UNCHANGED accountVars /\ signed \subseteq signed' /\ UNCHANGED vars
    BY <1>7 DEF Drop, accountVars, vars
  <2>2. \A tx \in Proved' : tx \in Proved
    BY <1>7 DEF Drop, Proved
  <2>3. PendingInv'
    BY <2>1, <2>2, OthersStay DEF PInv, PendingInv, Touched, Fresh, Effect, Note, ThresholdNote,
     CountNote, SignerNote, ExecutedNote
  <2>4. QED
    BY <2>1, <2>3
<1>8. ASSUME UNCHANGED privateVars
      PROVE  Goal
  <2>1. UNCHANGED accountVars /\ signed \subseteq signed' /\ UNCHANGED vars
    BY <1>8 DEF privateVars, accountVars, vars
  <2>2. \A tx \in Proved' : tx \in Proved
    BY <1>8 DEF privateVars, Proved
  <2>3. PendingInv'
    BY <2>1, <2>2, OthersStay DEF PInv, PendingInv, Touched, Fresh, Effect, Note, ThresholdNote,
     CountNote, SignerNote, ExecutedNote
  <2>4. QED
    BY <2>1, <2>3
<1>9. Goal
  <2> HIDE DEF Goal
  <2>1. QED
    BY <1>1, <1>2, <1>3, <1>4, <1>5, <1>6, <1>7, <1>8 DEF PrivateNext
<1>10. TypeOK' /\ MembersHaveKeys'
  BY <1>9, NextTypeOK, NextMembersHaveKeys DEF PInv
<1>11. QED
  BY <1>9, <1>10 DEF PInv

\* The notes of transactions under way are notes of the account, and only
\* callers have transactions.
THEOREM PrivateTypeCorrect == PrivateSpec => []PrivateTypeOK
<1>1. PrivateInit => PInv /\ DOMAIN pending \subseteq Caller
  BY PrivateInitInv DEF PrivateInit
<1>2. PInv /\ [PrivateNext]_privateVars => PInv'
  BY PrivateStep
<1>3. DOMAIN pending \subseteq Caller /\ [PrivateNext]_privateVars
        => (DOMAIN pending \subseteq Caller)'
  <2> SUFFICES ASSUME DOMAIN pending \subseteq Caller, [PrivateNext]_privateVars
               PROVE  DOMAIN pending' \subseteq Caller
    OBVIOUS
  <2>1. ASSUME NEW c \in Caller, NEW m, NEW written, NEW effective,
             Prove(c, m, written, effective)
        PROVE  DOMAIN pending' \subseteq Caller
    BY <2>1 DEF Prove, Send, Over, Written
  <2>2. ASSUME NEW c \in Caller, Include(c) \/ Drop(c)
        PROVE  DOMAIN pending' \subseteq Caller
    BY <2>2 DEF Include, Drop
  <2>3. CASE UNCHANGED pending
    BY <2>3
  <2>4. QED
    BY <2>1, <2>2, <2>3
       DEF PrivateNext, SignHere, ProveAddSigner, ProveRemoveSigner,
           ProveChangeThreshold, ProveCrossChainIntent, privateVars
<1>4. PInv /\ DOMAIN pending \subseteq Caller => PrivateTypeOK
  BY DEF PInv, PendingInv, Effect, Proved, PrivateTypeOK
<1>5. QED
  BY <1>1, <1>2, <1>3, <1>4, PTL DEF PrivateSpec

\* Private execution and inclusion implement the atomic contract: an included
\* transaction does what the operation would do at that moment, however many
\* others were proved against the same notes.
THEOREM PrivateImplementsAccount == PrivateSpec => ImplementsAccount
<1>1. PrivateInit => Init /\ PInv
  BY PrivateInitInv
<1>2. PInv /\ [PrivateNext]_privateVars => PInv' /\ [Next]_vars
  BY PrivateStep
<1>3. QED
  BY <1>1, <1>2, PTL DEF PrivateSpec, Spec, ImplementsAccount

\* A membership, a threshold or an intent changes only with a quorum behind it
\* at the moment of inclusion, although it was checked when it was proved.
THEOREM InclusionsAreBacked == PrivateSpec => EveryChangeIsBacked
BY PrivateImplementsAccount, ChangesAreBacked DEF ImplementsAccount

\* Of the transactions under way at most one can still be included.
THEOREM OneTransactionWins == PrivateSpec => OneWinner
<1>1. PInv /\ [PrivateNext]_privateVars =>
        [\A c, d \in DOMAIN pending :
           /\ c # d
           /\ c \notin DOMAIN pending'
           /\ applied' # applied \/ accountVars' # accountVars
           => d \in DOMAIN pending' /\ ~Fresh(pending'[d])]_privateVars
  <2> SUFFICES ASSUME PInv, [PrivateNext]_privateVars,
                      NEW c \in DOMAIN pending, NEW d \in DOMAIN pending,
                      c # d, c \notin DOMAIN pending',
                      applied' # applied \/ accountVars' # accountVars
               PROVE  d \in DOMAIN pending' /\ ~Fresh(pending'[d])
    OBVIOUS
  <2>1. PICK e \in Caller : Include(e)
    <3>1. ~UNCHANGED vars
      BY DEF vars, accountVars
    <3>2. PrivateNext
      BY <3>1 DEF privateVars, vars
    <3>3. ASSUME NEW k \in Key, NEW m \in Proposal, SignHere(k, m)
          PROVE  FALSE
      BY <3>3 DEF SignHere
    <3>4. ASSUME NEW a \in Caller, NEW m \in Proposal,
                 \/ ProveAddSigner(a, m)
                 \/ ProveRemoveSigner(a, m)
                 \/ ProveChangeThreshold(a, m)
                 \/ \E w \in WormholeAddress : ProveCrossChainIntent(a, m, w)
          PROVE  FALSE
      BY <3>1, <3>4 DEF ProveAddSigner, ProveRemoveSigner, ProveChangeThreshold,
                        ProveCrossChainIntent, Prove, Send
    <3>5. ASSUME NEW a \in Caller, Drop(a)
          PROVE  FALSE
      BY <3>1, <3>5 DEF Drop
    <3>6. QED
      BY <3>2, <3>3, <3>4, <3>5 DEF PrivateNext
  <2>2. e = c
    BY <2>1 DEF Include
  <2>3. QED
    BY <2>1, <2>2, IncludeStep DEF PInv
<1>2. PrivateInit => PInv
  BY PrivateInitInv
<1>3. PInv /\ [PrivateNext]_privateVars => PInv'
  BY PrivateStep
<1>4. QED
  BY <1>1, <1>2, <1>3, PTL DEF PrivateSpec, OneWinner
=============================================================================
