------------------------ MODULE ProposalStore_proofs ------------------------
(* Theorems of ProposalStore: whatever the CLI's processes do to the files,  *)
(* and whenever they end, the account keeps its promises, and the files do   *)
(* not call executed what did not happen.                                   *)
EXTENDS ProposalStore, MultisigAccount_proofs, SequenceTheorems, WellFoundedInduction

Entry == [msg : Proposal, threshold : Nat, status : {"pending", "executed"}]

\* Entries of pending-proposals.json; an executed one has taken effect.
ProposalsInv ==
  /\ proposals \in Seq(Entry)
  /\ ExecutedTookEffect

\* multisigs.json
IsEntry(e)  == "threshold" \in DOMAIN e /\ e.threshold \in Nat
MultisigInv == multisig # NoMultisig => IsEntry(multisig)

Executing == {"adding", "removing", "changing", "publishing"}

\* The steps past tx.wait().
Effective == {"added", "removed", "changed", "saved", "cleaned"}

\* A command knows its proposal, and one that is past the wait knows that the
\* operation took effect.
CommandInv ==
  /\ DOMAIN command = Command
  /\ \A c \in Command : command[c] # Idle =>
       /\ {"step", "msg"} \subseteq DOMAIN command[c]
       /\ command[c].msg \in Proposal
       /\ command[c].step = "signing" => command[c].signer \in Signer
       /\ command[c].step = "proposing" => command[c].threshold \in Nat
       /\ command[c].step \in Effective => applied[command[c].msg] > 0
       /\ command[c].step \in {"changing", "changed"} => command[c].msg.op = "threshold"

StoreInv == IInv /\ ProposalsInv /\ MultisigInv /\ CommandInv

-----------------------------------------------------------------------------
(* The account under the commands *)

\* An operation that the CLI executes takes effect, and so have those before it.
LEMMA ExecuteTakesEffect ==
  ASSUME TypeOK, NEW m \in Proposal, ExecuteVia(m, Wormhole)
  PROVE  /\ applied'[m] > 0
         /\ \A n \in Proposal : applied[n] > 0 => applied'[n] > 0
<1>1. Apply(m)
  BY DEF ExecuteVia, AddSigner, RemoveSigner, ChangeThreshold, ExecuteCrossChainIntent
<1>2. QED
  BY <1>1 DEF TypeOK, Apply

\* Marking an entry leaves the others, and the entry's message, as they are.
LEMMA MarkedEntries ==
  ASSUME proposals \in Seq(Entry), NEW m,
         proposals' = [i \in DOMAIN proposals |->
            IF IsFirst(i, m) THEN [proposals[i] EXCEPT !.status = "executed"]
                             ELSE proposals[i]]
  PROVE  /\ proposals' \in Seq(Entry)
         /\ DOMAIN proposals' = DOMAIN proposals
         /\ \A i \in DOMAIN proposals :
              /\ proposals'[i].msg = proposals[i].msg
              /\ proposals'[i].status = "executed" =>
                   proposals[i].status = "executed" \/ proposals[i].msg = m
<1>1. \A i \in DOMAIN proposals : proposals[i] \in Entry
  OBVIOUS
<1>2. DOMAIN proposals' = DOMAIN proposals
  OBVIOUS
<1>3. ASSUME NEW i \in DOMAIN proposals
      PROVE  /\ proposals'[i] \in Entry
             /\ proposals'[i].msg = proposals[i].msg
             /\ proposals'[i].status = "executed" =>
                  proposals[i].status = "executed" \/ proposals[i].msg = m
  BY <1>1, <1>3 DEF Entry, IsFirst
<1>4. proposals' \in Seq(Entry)
  <2>1. DOMAIN proposals = 1..Len(proposals) /\ Len(proposals) \in Nat
    OBVIOUS
  <2>2. proposals' \in [1..Len(proposals) -> Entry]
    BY <1>2, <1>3, <2>1
  <2>3. QED
    BY <2>1, <2>2
<1>5. QED
  BY <1>2, <1>3, <1>4

\* A step that leaves the account alone leaves its invariant alone.
LEMMA IInvStays ==
  ASSUME IInv, UNCHANGED vars
  PROVE  IInv'
BY NextIInv

-----------------------------------------------------------------------------
(* The invariant of the commands and their files *)

\* Empty files are right about everything.
LEMMA StoreInitInv == StoreInit => StoreInv
<1> SUFFICES ASSUME StoreInit PROVE StoreInv
  OBVIOUS
<1>1. IInv
  BY InitIInv DEF StoreInit
<1>2. ProposalsInv
  BY DEF StoreInit, ProposalsInv, ExecutedTookEffect
<1>3. MultisigInv
  BY <1>1, MaxSignersAssumption DEF StoreInit, MultisigInv, IsEntry, IInv, TypeOK
<1>4. CommandInv
  BY DEF StoreInit, CommandInv
<1>5. QED
  BY <1>1, <1>2, <1>3, <1>4 DEF StoreInv

\* propose-* appends a pending entry, with the threshold it read before.
LEMMA FinishProposingStep ==
  ASSUME StoreInv, NEW c \in Command, FinishProposing(c)
  PROVE  StoreInv' /\ UNCHANGED vars
<1> DEFINE new == [msg |-> command[c].msg, threshold |-> command[c].threshold,
                   status |-> "pending"]
<1>1. new \in Entry
  BY DEF StoreInv, CommandInv, Entry, FinishProposing, InStep
<1>2. /\ proposals' = Append(proposals, new) /\ UNCHANGED <<vars, multisig>>
      /\ command' = [command EXCEPT ![c] = Idle]
  BY DEF FinishProposing
<1>3. proposals \in Seq(Entry)
  BY DEF StoreInv, ProposalsInv
<1> HIDE DEF new
<1>4. proposals' \in Seq(Entry)
  BY <1>1, <1>2, <1>3
<1>5. \A i \in DOMAIN proposals' :
        proposals'[i] = new \/ (i \in DOMAIN proposals /\ proposals'[i] = proposals[i])
  BY <1>1, <1>2, <1>3
<1>6. new.status # "executed"
  BY DEF new
<1>7. ExecutedTookEffect'
  BY <1>2, <1>5, <1>6 DEF StoreInv, ProposalsInv, ExecutedTookEffect, vars
<1>8. IInv'
  BY <1>2, IInvStays DEF StoreInv
<1>9. MultisigInv' /\ CommandInv'
  BY <1>2 DEF StoreInv, MultisigInv, CommandInv, vars
<1>10. QED
  BY <1>2, <1>4, <1>7, <1>8, <1>9 DEF StoreInv, ProposalsInv

StartsExecuting(c, s, m) ==
  \E step \in Executing : /\ StartExecuting(c, s, m, step)
                          /\ step = "changing" => m.op = "threshold"

\* A command starts with its message and what it reads of the files.
LEMMA StartStep ==
  ASSUME StoreInv, NEW c \in Command, NEW s \in Signer, NEW m \in Proposal,
         \/ StartProposing(c, s, m) \/ StartSigning(c, s, m) \/ StartsExecuting(c, s, m)
  PROVE  StoreInv' /\ UNCHANGED vars
<1>1. UNCHANGED vars /\ UNCHANGED files
  BY DEF StartProposing, StartSigning, StartsExecuting, StartExecuting
<1>2. PICK new : /\ command' = [command EXCEPT ![c] = new]
                 /\ {"step", "msg"} \subseteq DOMAIN new
                 /\ new.msg = m
                 /\ new.step = "signing" => new.signer \in Signer
                 /\ new.step = "proposing" => new.threshold \in Nat
                 /\ new.step \in {"proposing", "signing"} \cup Executing
                 /\ new.step = "changing" => m.op = "threshold"
  <2>1. CASE StartSigning(c, s, m)
    <3> WITNESS [step |-> "signing", signer |-> s, msg |-> m, read |-> signatures]
    <3>1. QED
      BY <2>1 DEF StartSigning
  <2>2. CASE StartsExecuting(c, s, m)
    <3>1. PICK step \in Executing : /\ StartExecuting(c, s, m, step)
                                    /\ step = "changing" => m.op = "threshold"
      BY <2>2 DEF StartsExecuting
    <3> WITNESS [step |-> step, msg |-> m, slots |-> Slots(m)]
    <3>2. QED
      BY <3>1 DEF StartExecuting, Executing
  <2>3. CASE StartProposing(c, s, m)
    <3>1. multisig.threshold \in Nat
      BY <2>3 DEF StartProposing, IsListed, StoreInv, MultisigInv, IsEntry
    <3> WITNESS [step |-> "proposing", msg |-> m, threshold |-> multisig.threshold]
    <3>2. QED
      BY <2>3, <3>1 DEF StartProposing
  <2>4. QED
    BY <2>1, <2>2, <2>3
<1>3. CommandInv'
  BY <1>1, <1>2 DEF StoreInv, CommandInv, Executing, Effective, vars
<1>4. ProposalsInv' /\ MultisigInv'
  BY <1>1 DEF StoreInv, ProposalsInv, ExecutedTookEffect, MultisigInv, files, vars
<1>5. QED
  BY <1>1, <1>3, <1>4, IInvStays DEF StoreInv

\* One more signature, in the file and in the world, unless it was made before
\* and lost from the file.
LEMMA FinishSigningStep ==
  ASSUME StoreInv, NEW c \in Command, FinishSigning(c)
  PROVE  StoreInv' /\ [Next]_vars
<1> DEFINE k == KeyOf[command[c].signer]
           m == command[c].msg
<1>1. k \in Key /\ m \in Proposal
  BY KeyOfAssumption DEF FinishSigning, InStep, StoreInv, CommandInv
<1>2. /\ <<k, m>> \in signed \/ Cardinality(signed) < MaxSignatures
      /\ signed' = signed \cup {<<k, m>>}
      /\ UNCHANGED <<accountVars, applied>>
  BY DEF FinishSigning
<1> HIDE DEF k, m
<1>3. ASSUME <<k, m>> \in signed PROVE UNCHANGED vars
  BY <1>2, <1>3 DEF accountVars, vars
<1>4. ASSUME <<k, m>> \notin signed PROVE Next
  BY <1>1, <1>2, <1>4 DEF Next, Sign, accountVars
<1>5. [Next]_vars
  BY <1>3, <1>4
<1>6. IInv'
  BY <1>5, NextIInv DEF StoreInv
<1>7. ProposalsInv' /\ MultisigInv'
  BY DEF FinishSigning, StoreInv, ProposalsInv, ExecutedTookEffect, MultisigInv
<1>8. CommandInv'
  BY DEF FinishSigning, StoreInv, CommandInv
<1>9. QED
  BY <1>5, <1>6, <1>7, <1>8 DEF StoreInv

\* The account executes: what the files and the other commands know of past
\* effects stays true.
LEMMA SubmitStep ==
  ASSUME StoreInv, NEW c \in Command, NEW step, NEW then, Submit(c, step, then),
         step = "changing" <=> then = "changed", then \in Effective \ {"cleaned"}
  PROVE  StoreInv' /\ [Next]_vars
<1> DEFINE m == command[c].msg
<1>1. m \in Proposal
  BY DEF Submit, InStep, StoreInv, CommandInv
<1>2. ExecuteVia(m, Wormhole)
  BY DEF Submit, SendAndWait
<1>3. [Next]_vars
  BY <1>1, <1>2, WormholeAssumption DEF Next, Execute
<1>4. IInv'
  BY <1>3, NextIInv DEF StoreInv
<1>5. applied'[m] > 0 /\ \A n \in Proposal : applied[n] > 0 => applied'[n] > 0
  BY <1>1, <1>2, ExecuteTakesEffect DEF StoreInv, IInv
<1>6. UNCHANGED <<proposals, signatures, multisig>>
  BY DEF Submit, files
<1>7. \A i \in DOMAIN proposals : proposals[i].msg \in Proposal
  <2>1. proposals \in Seq(Entry)
    BY DEF StoreInv, ProposalsInv
  <2>2. \A i \in DOMAIN proposals : proposals[i] \in Entry
    BY <2>1
  <2>3. QED
    BY <2>2 DEF Entry
<1>8. ProposalsInv' /\ MultisigInv'
  BY <1>5, <1>6, <1>7 DEF StoreInv, ProposalsInv, ExecutedTookEffect, MultisigInv
<1>9. command' = [command EXCEPT ![c].step = then]
  BY DEF Submit, GoTo
<1>10. CommandInv'
  BY <1>1, <1>5, <1>9 DEF StoreInv, CommandInv, Effective, Submit, InStep
<1>11. QED
  BY <1>3, <1>4, <1>8, <1>10 DEF StoreInv

\* The entry of multisigs.json is updated, with a threshold that is a number.
LEMMA SaveStep ==
  ASSUME StoreInv, NEW c \in Command, SaveAddedSigner(c) \/ SaveRemovedSigner(c) \/ SaveThreshold(c)
  PROVE  StoreInv' /\ UNCHANGED vars
<1> DEFINE m == command[c].msg
<1>1. PICK step, entry :
        /\ SaveMultisig(c, step, entry) /\ IsEntry(entry)
        /\ step \in {"added", "removed", "changed"}
  <2>1. CASE SaveAddedSigner(c)
    <3>1. multisig # NoMultisig /\ IsEntry(multisig)
      BY <2>1 DEF SaveAddedSigner, SaveMultisig, StoreInv, MultisigInv
    <3>2. QED
      BY <2>1, <3>1 DEF SaveAddedSigner, IsEntry
  <2>2. CASE SaveRemovedSigner(c)
    <3>1. multisig # NoMultisig /\ IsEntry(multisig)
      BY <2>2 DEF SaveRemovedSigner, SaveMultisig, StoreInv, MultisigInv
    <3> DEFINE kept == Filter(multisig.signers, Signer \ {command[c].msg.signer})
    <3>2. SaveMultisig(c, "removed", [multisig EXCEPT !.signers = kept])
      BY <2>2 DEF SaveRemovedSigner
    <3> HIDE DEF kept
    <3>3. QED
      BY <3>1, <3>2 DEF IsEntry
  <2>3. CASE SaveThreshold(c)
    <3>1. multisig # NoMultisig /\ IsEntry(multisig) /\ m \in Proposal
      BY <2>3 DEF SaveThreshold, SaveMultisig, InStep, StoreInv, MultisigInv, CommandInv
    <3>2. m.op = "threshold"
      BY <2>3 DEF SaveThreshold, SaveMultisig, InStep, StoreInv, CommandInv
    <3>3. m.threshold \in Nat
      BY <3>1, <3>2, MessageShapes, MaxSignersAssumption
    <3>4. QED
      BY <2>3, <3>1, <3>3 DEF SaveThreshold, IsEntry
  <2>4. QED
    BY <2>1, <2>2, <2>3
<1>2. m \in Proposal /\ applied[m] > 0
  BY <1>1 DEF SaveMultisig, InStep, StoreInv, CommandInv, Effective
<1>3. UNCHANGED <<vars, proposals>> /\ multisig' = entry
  BY <1>1 DEF SaveMultisig
<1>4. command' = [command EXCEPT ![c].step = "saved"]
  BY <1>1 DEF SaveMultisig, GoTo
<1>5. CommandInv'
  BY <1>1, <1>2, <1>3, <1>4 DEF StoreInv, CommandInv, Effective, SaveMultisig, InStep, vars
<1>6. ProposalsInv' /\ MultisigInv'
  BY <1>1, <1>3 DEF StoreInv, ProposalsInv, MultisigInv, ExecutedTookEffect, vars
<1>7. QED
  BY <1>3, <1>5, <1>6, IInvStays DEF StoreInv

\* The signatures of a proposal go when it took effect.
LEMMA RemoveSignaturesStep ==
  ASSUME StoreInv, NEW c \in Command, RemoveSignatures(c)
  PROVE  StoreInv' /\ UNCHANGED vars
<1>1. UNCHANGED <<vars, proposals, multisig>> /\ command' = [command EXCEPT ![c].step = "cleaned"]
  BY DEF RemoveSignatures, GoTo
<1>2. command[c] # Idle /\ command[c].step = "saved"
  BY DEF RemoveSignatures, InStep
<1>3. CommandInv'
  BY <1>1, <1>2 DEF StoreInv, CommandInv, Effective, vars
<1>4. ProposalsInv' /\ MultisigInv'
  BY <1>1 DEF StoreInv, ProposalsInv, MultisigInv, ExecutedTookEffect, vars
<1>5. QED
  BY <1>1, <1>3, <1>4, IInvStays DEF StoreInv

\* The proposal is marked by a command that knows it took effect.
LEMMA MarkExecutedStep ==
  ASSUME StoreInv, NEW c \in Command, MarkExecuted(c)
  PROVE  StoreInv'
<1> DEFINE m == command[c].msg
<1>1. m \in Proposal /\ applied[m] > 0
  BY DEF MarkExecuted, InStep, StoreInv, CommandInv, Effective
<1>2. UNCHANGED <<vars, multisig>> /\ command' = [command EXCEPT ![c] = Idle]
  BY DEF MarkExecuted
<1>3. proposals' = [i \in DOMAIN proposals |->
            IF IsFirst(i, m) THEN [proposals[i] EXCEPT !.status = "executed"]
                             ELSE proposals[i]]
  BY DEF MarkExecuted
<1>4. proposals \in Seq(Entry)
  BY DEF StoreInv, ProposalsInv
<1>5. /\ proposals' \in Seq(Entry)
      /\ DOMAIN proposals' = DOMAIN proposals
      /\ \A i \in DOMAIN proposals :
           /\ proposals'[i].msg = proposals[i].msg
           /\ proposals'[i].status = "executed" =>
                proposals[i].status = "executed" \/ proposals[i].msg = m
  BY <1>3, <1>4, MarkedEntries
<1>6. ProposalsInv'
  BY <1>1, <1>2, <1>5 DEF StoreInv, ProposalsInv, ExecutedTookEffect, vars
<1>7. MultisigInv' /\ CommandInv'
  BY <1>2 DEF StoreInv, MultisigInv, CommandInv, vars
<1>8. QED
  BY <1>2, <1>6, <1>7, IInvStays DEF StoreInv

\* A command that ends anywhere leaves account and files as they are.
LEMMA AbortStep ==
  ASSUME StoreInv, NEW c \in Command, Abort(c)
  PROVE  StoreInv'
<1>1. UNCHANGED vars /\ UNCHANGED files /\ command' = [command EXCEPT ![c] = Idle]
  BY DEF Abort
<1>2. ProposalsInv' /\ MultisigInv' /\ CommandInv'
  BY <1>1 DEF StoreInv, ProposalsInv, ExecutedTookEffect, MultisigInv, CommandInv,
              files, vars
<1>3. QED
  BY <1>1, <1>2, IInvStays DEF StoreInv

\* Without entries the files say nothing.
LEMMA CleanStep == StoreInv /\ Clean => StoreInv' /\ UNCHANGED vars
<1> SUFFICES ASSUME StoreInv, Clean PROVE StoreInv' /\ UNCHANGED vars
  OBVIOUS
<1>1. proposals' = <<>> /\ multisig' = NoMultisig /\ UNCHANGED <<vars, command>>
  BY DEF Clean
<1>2. ProposalsInv' /\ MultisigInv' /\ CommandInv'
  BY <1>1 DEF StoreInv, ProposalsInv, ExecutedTookEffect, MultisigInv, CommandInv, vars
<1>3. QED
  BY <1>1, <1>2, IInvStays DEF StoreInv

\* Nothing happens.
LEMMA StoreStutter == StoreInv /\ UNCHANGED storeVars => StoreInv'
<1> SUFFICES ASSUME StoreInv, UNCHANGED storeVars PROVE StoreInv'
  OBVIOUS
<1>1. UNCHANGED vars /\ UNCHANGED <<proposals, multisig, command>>
  BY DEF storeVars, vars
<1>2. ProposalsInv' /\ MultisigInv' /\ CommandInv'
  BY <1>1 DEF StoreInv, ProposalsInv, ExecutedTookEffect, MultisigInv, CommandInv, vars
<1>3. QED
  BY <1>1, <1>2, IInvStays DEF StoreInv

\* Every step keeps the invariant, and is one of the account or leaves the
\* account alone.
LEMMA StoreStep ==
  ASSUME StoreInv, [StoreNext]_storeVars
  PROVE  StoreInv' /\ [Next]_vars
<1> DEFINE Goal == StoreInv' /\ [Next]_vars
<1>1. ASSUME NEW c \in Command, FinishProposing(c)
      PROVE  Goal
  BY <1>1, FinishProposingStep DEF vars
<1>2. ASSUME NEW c \in Command, NEW s \in Signer, NEW m \in Proposal,
             \/ StartSigning(c, s, m)
             \/ StartAddSigner(c, s, m) \/ StartRemoveSigner(c, s, m)
             \/ StartChangeThreshold(c, s, m) \/ StartIntent(c, s, m)
      PROVE  Goal
  <2>1. StartSigning(c, s, m) \/ StartsExecuting(c, s, m)
    BY <1>2 DEF StartAddSigner, StartRemoveSigner, StartChangeThreshold, StartIntent, StartsExecuting, Executing
  <2>2. QED
    BY <2>1, StartStep DEF vars
<1>3. ASSUME NEW c \in Command, FinishSigning(c)
      PROVE  Goal
  BY <1>3, FinishSigningStep
<1>4. ASSUME NEW c \in Command,
             SubmitAddSigner(c) \/ SubmitRemoveSigner(c) \/ SubmitChangeThreshold(c) \/ SubmitIntent(c)
      PROVE  Goal
  <2>1. PICK step, then : /\ Submit(c, step, then)
                          /\ step = "changing" <=> then = "changed"
                          /\ then \in Effective \ {"cleaned"}
    BY <1>4 DEF SubmitAddSigner, SubmitRemoveSigner, SubmitChangeThreshold, SubmitIntent, Effective
  <2>2. QED
    BY <2>1, SubmitStep
<1>5. ASSUME NEW c \in Command, SaveAddedSigner(c) \/ SaveRemovedSigner(c) \/ SaveThreshold(c)
      PROVE  Goal
  BY <1>5, SaveStep DEF vars
<1>6. ASSUME NEW c \in Command, MarkExecuted(c)
      PROVE  Goal
  BY <1>6, MarkExecutedStep DEF MarkExecuted
<1>7. ASSUME NEW c \in Command, Abort(c)
      PROVE  Goal
  BY <1>7, AbortStep DEF Abort
<1>8. ASSUME Clean
      PROVE  Goal
  BY <1>8, CleanStep DEF vars
<1>9. ASSUME UNCHANGED storeVars
      PROVE  Goal
  BY <1>9, StoreStutter DEF storeVars, vars
<1>10. ASSUME NEW c \in Command, NEW s \in Signer, NEW m \in Proposal,
              \/ ProposeAddSigner(c, s, m) \/ ProposeRemoveSigner(c, s, m)
              \/ ProposeChangeThreshold(c, s, m) \/ ProposeCrossChainIntent(c, s, m)
       PROVE  Goal
  <2>1. StartProposing(c, s, m)
    BY <1>10 DEF ProposeAddSigner, ProposeRemoveSigner, ProposeChangeThreshold,
                 ProposeCrossChainIntent
  <2>2. QED
    BY <2>1, StartStep DEF vars
<1>11. ASSUME NEW c \in Command, RemoveSignatures(c)
       PROVE  Goal
  BY <1>11, RemoveSignaturesStep DEF vars
<1>12. Goal
  <2> HIDE DEF Goal
  <2>1. QED
    BY <1>1, <1>2, <1>3, <1>4, <1>5, <1>6, <1>7, <1>8, <1>9, <1>10, <1>11 DEF StoreNext
<1>13. QED
  BY <1>12

\* The invariant holds throughout.
LEMMA StoreInvariance == StoreSpec => []StoreInv
<1>1. StoreInv /\ [StoreNext]_storeVars => StoreInv'
  BY StoreStep
<1>2. QED
  BY <1>1, StoreInitInv, PTL DEF StoreSpec

-----------------------------------------------------------------------------
(* Theorems *)

\* A proposal that pending-proposals.json calls executed has taken effect,
\* wherever commands were interrupted and whatever others wrote meanwhile.
THEOREM ExecutedProposalsTookEffect == StoreSpec => []ExecutedTookEffect
<1>1. StoreInv => ExecutedTookEffect
  BY DEF StoreInv, ProposalsInv
<1>2. QED
  BY <1>1, StoreInvariance, PTL

\* Whatever processes do to the files, whatever they remember of them and
\* wherever they end, the account sees its own signatures and operations.
THEOREM StoreImplementsAccount == StoreSpec => Spec
<1>1. StoreInit => Init
  BY DEF StoreInit
<1>2. StoreInv /\ [StoreNext]_storeVars => [Next]_vars
  BY StoreStep
<1>3. QED
  BY <1>1, <1>2, StoreInvariance, PTL DEF StoreSpec, Spec

\* A command that is repeated, because it ended before it wrote the files, does
\* not add a signer or publish an intent a second time.
THEOREM StoreAppliesOnce == StoreSpec => []AppliedAtMostOnce
BY StoreImplementsAccount, AdditionsAndIntentsOnce, PTL

\* The threshold that execute-* compares with may be an old one and the
\* signatures of people who left: what changes has a quorum of today behind it.
THEOREM StoreChangesAreBacked == StoreSpec => EveryChangeIsBacked
BY StoreImplementsAccount, ChangesAreBacked, PTL

\* Nor do the files make anything reachable that the account rules out: until a
\* removal takes effect the threshold that is asked for can be met.
THEOREM StoreOnlyRemovalsLockOut == StoreSpec => []ReachableUntilRemoved
BY StoreImplementsAccount, OnlyRemovalsLockOut, PTL

-----------------------------------------------------------------------------
(* Filtered lists *)

Distinct(list) == \A i, j \in DOMAIN list : i # j => list[i] # list[j]

\* The least element of a set of naturals: the counterexample with which an
\* induction is refuted below.
LEMMA LeastElement ==
  ASSUME NEW S, S \subseteq Nat, S # {}
  PROVE  \E m \in S : \A n \in S : m <= n
<1> DEFINE R == OpToRel(<, Nat)
<1>1. \A m, n \in Nat : <<m, n>> \in R <=> m < n
  BY DEF OpToRel
<1>2. IsWellFoundedOn(R, Nat)
  BY NatLessThanWellFounded
<1> HIDE DEF R
<1>3. PICK m \in S : \A n \in S : ~ (<<n, m>> \in R)
  BY <1>2, WFMin
<1>4. m \in Nat /\ \A n \in S : n \in Nat /\ ~ (n < m)
  BY <1>1, <1>3
<1>5. \A n \in S : m <= n
  BY <1>4
<1>6. QED
  BY <1>3, <1>5

\* A solution of Filter's recursion for the first n elements.
Longer(old, e, kept) == IF e \in kept THEN Append(old, e) ELSE old

Filters(f, list, kept, n) ==
  f = [k \in 0..n |-> IF k = 0 THEN <<>> ELSE Longer(f[k - 1], list[k], kept)]

LEMMA FilterExists ==
  ASSUME NEW list, NEW kept, NEW n \in Nat
  PROVE  \E f : Filters(f, list, kept, n)
<1> DEFINE T == {k \in Nat : ~ \E f : Filters(f, list, kept, k)}
<1> SUFFICES ASSUME T # {} PROVE FALSE
  OBVIOUS
<1>1. PICK k \in T : \A j \in T : k <= j
  BY LeastElement
<1>2. k # 0
  <2> DEFINE z == [i \in 0..0 |-> <<>>]
  <2>1. Filters(z, list, kept, 0)
    BY DEF Filters
  <2>2. QED
    BY <2>1
<1>3. PICK f : Filters(f, list, kept, k - 1)
  BY <1>1, <1>2
<1>4. \E g : Filters(g, list, kept, k)
  <2> DEFINE last == Longer(f[k - 1], list[k], kept)
             g == [i \in 0..k |-> IF i < k THEN f[i] ELSE last]
  <2>1. Filters(g, list, kept, k)
    BY <1>2, <1>3 DEF Filters
  <2> HIDE DEF g
  <2>2. QED
    BY <2>1
<1>5. QED
  BY <1>4

\* What is left of a list is a list of its elements that are kept, and has no
\* element twice if the list has none.
LEMMA FilterProperties ==
  ASSUME NEW E, NEW list \in Seq(E), NEW kept
  PROVE  /\ Filter(list, kept) \in Seq(E)
         /\ \A i \in DOMAIN Filter(list, kept) : Filter(list, kept)[i] \in kept
         /\ Distinct(list) => Distinct(Filter(list, kept))
<1> DEFINE f == CHOOSE f : Filters(f, list, kept, Len(list))
           Good(k) == /\ f[k] \in Seq(E)
                      /\ \A i \in DOMAIN f[k] :
                           f[k][i] \in kept /\ \E j \in 1..k : f[k][i] = list[j]
                      /\ Distinct(list) => Distinct(f[k])
           T == {k \in 0..Len(list) : ~ Good(k)}
<1>0. Len(list) \in Nat /\ DOMAIN list = 1..Len(list)
  OBVIOUS
<1>1. Filters(f, list, kept, Len(list))
  BY <1>0, FilterExists
<1>2. Filter(list, kept) = f[Len(list)]
  BY DEF Filter, Filters, Longer
<1> HIDE DEF f
<1>3. T = {}
  <2> SUFFICES ASSUME T # {} PROVE FALSE
    OBVIOUS
  <2>1. PICK k \in T : \A j \in T : k <= j
    <3>1. T \subseteq Nat
      BY <1>0
    <3> HIDE DEF T
    <3>2. QED
      BY <3>1, LeastElement
  <2>2. k # 0
    <3>1. f[0] = <<>>
      BY <1>0, <1>1 DEF Filters
    <3>2. Good(0)
      BY <3>1 DEF Distinct
    <3>3. QED
      BY <2>1, <3>2
  <2>3. k \in 1..Len(list) /\ k - 1 \in 0..Len(list) /\ list[k] \in E
    BY <1>0, <2>1, <2>2
  <2>4. Good(k - 1)
    BY <2>1, <2>3
  <2> DEFINE old == f[k - 1]
             e == list[k]
             now == f[k]
  <2>5. now = Longer(old, e, kept)
    BY <1>1, <2>2, <2>3 DEF Filters
  <2>6. /\ old \in Seq(E)
        /\ \A i \in DOMAIN old : old[i] \in kept /\ \E j \in 1..(k - 1) : old[i] = list[j]
        /\ Distinct(list) => Distinct(old)
    BY <2>4
  <2>7. ~ Good(k) /\ e \in E
    BY <2>1, <2>3
  <2> HIDE DEF old, now
  <2>8. CASE e \notin kept
    <3>1. now = old
      BY <2>5, <2>8 DEF Longer
    <3>2. Good(k)
      BY <2>3, <2>6, <3>1 DEF now
    <3>3. QED
      BY <2>7, <3>2
  <2>9. CASE e \in kept
    <3>1. now = Append(old, e)
      BY <2>5, <2>9 DEF Longer
    <3>2. /\ now \in Seq(E)
          /\ Len(now) = Len(old) + 1 /\ Len(old) \in Nat
          /\ \A i \in 1..Len(old) : now[i] = old[i]
          /\ now[Len(old) + 1] = e
      BY <2>6, <2>7, <3>1, AppendProperties
    <3>3. DOMAIN now = 1..(Len(old) + 1) /\ DOMAIN old = 1..Len(old)
      BY <2>6, <3>2
    <3>4. \A i \in DOMAIN now : i \in DOMAIN old \/ i = Len(old) + 1
      BY <3>2, <3>3
    <3>5. \A i \in DOMAIN now : now[i] \in kept /\ \E j \in 1..k : now[i] = list[j]
      <4>1. TAKE i \in DOMAIN now
      <4>2. CASE i \in DOMAIN old
        <5>1. now[i] = old[i] /\ old[i] \in kept
          BY <2>6, <3>2, <3>3, <4>2
        <5>2. PICK j \in 1..(k - 1) : old[i] = list[j]
          BY <2>6, <4>2
        <5>3. j \in 1..k
          BY <2>3
        <5>4. QED
          BY <5>1, <5>2, <5>3
      <4>3. CASE i = Len(old) + 1
        <5>1. k \in 1..k
          BY <2>3
        <5>2. QED
          BY <2>9, <3>2, <4>3, <5>1
      <4>4. QED
        BY <3>4, <4>2, <4>3
    <3>6. ASSUME Distinct(list) PROVE Distinct(now)
      <4>1. ASSUME NEW i \in DOMAIN old PROVE old[i] # e
        <5>1. PICK j \in 1..(k - 1) : old[i] = list[j]
          BY <2>6
        <5>2. j \in DOMAIN list /\ k \in DOMAIN list /\ j # k
          BY <1>0, <2>3, <5>1
        <5>3. QED
          BY <3>6, <5>1, <5>2 DEF Distinct
      <4>2. Distinct(old)
        BY <2>6, <3>6
      <4>3. ASSUME NEW i \in DOMAIN now, NEW j \in DOMAIN now, i # j
            PROVE  now[i] # now[j]
        <5> HIDE DEF e
        <5>1. CASE i \in DOMAIN old /\ j \in DOMAIN old
          BY <3>2, <3>3, <4>2, <4>3, <5>1 DEF Distinct
        <5>2. CASE i \in DOMAIN old /\ j = Len(old) + 1
          BY <3>2, <3>3, <4>1, <5>2
        <5>3. CASE j \in DOMAIN old /\ i = Len(old) + 1
          BY <3>2, <3>3, <4>1, <5>3
        <5>4. QED
          BY <3>4, <4>3, <5>1, <5>2, <5>3
      <4>4. QED
        BY <4>3 DEF Distinct
    <3>7. Good(k)
      BY <3>2, <3>5, <3>6 DEF now
    <3>8. QED
      BY <2>7, <3>7
  <2>10. QED
    BY <2>8, <2>9
<1>4. Good(Len(list))
  BY <1>0, <1>3
<1>5. QED
  BY <1>2, <1>4

-----------------------------------------------------------------------------
(* The lists in the files *)

\* What FinishSigning will append.
NewEntry(p) == [owner |-> p.signer, sig |-> <<KeyOf[p.signer], p.msg>>]

\* A list of signatures that were made, without repetitions.
GoodList(list, made) == list \in Seq([owner : Signer, sig : made]) /\ Distinct(list)

\* A command that signs has read a good list without the entry it will append.
SignsAfresh(p, made) ==
  /\ GoodList(p.read, made)
  /\ \A i \in DOMAIN p.read : p.read[i] # NewEntry(p)

SignaturesInv ==
  /\ GoodList(signatures, signed)
  /\ \A c \in Command : InStep(c, "signing") => SignsAfresh(command[c], signed)

MultisigEntry == [threshold : 0..MaxSigners, signers : Seq(Signer)]

\* A threshold that took effect was in range, and so is what the files hold of it.
ThresholdsInv ==
  /\ \A m \in Proposal : m.op = "threshold" /\ applied[m] > 0 => m.threshold \in 0..MaxSigners
  /\ multisig # NoMultisig => multisig \in MultisigEntry
  /\ \A i \in DOMAIN proposals : proposals[i].threshold \in 0..MaxSigners
  /\ \A c \in Command : InStep(c, "proposing") => command[c].threshold \in 0..MaxSigners

\* Slots are filled from entries.
SlotsInv ==
  \A c \in Command :
    /\ \A step \in Executing : InStep(c, step) => command[c].slots \in [1..MaxSigners -> Slot]
    /\ InStep(c, "added") => command[c].msg.op = "add"

ListsInv == SignaturesInv /\ ThresholdsInv /\ SlotsInv

LEMMA FilteredIsGood ==
  ASSUME NEW list, NEW made, GoodList(list, made), NEW kept
  PROVE  GoodList(Filter(list, kept), made)
BY FilterProperties DEF GoodList

LEMMA GoodListGrows ==
  ASSUME NEW list, NEW made, GoodList(list, made), NEW more, made \subseteq more
  PROVE  GoodList(list, more)
<1> DEFINE E == [owner : Signer, sig : made]
           F == [owner : Signer, sig : more]
<1>1. E \subseteq F
  OBVIOUS
<1>2. list \in Seq(E) /\ Distinct(list)
  BY DEF GoodList
<1> HIDE DEF E, F
<1>3. list \in Seq(F)
  BY <1>1, <1>2
<1>4. QED
  BY <1>2, <1>3 DEF GoodList, F

LEMMA AppendIsGood ==
  ASSUME NEW made, NEW list, GoodList(list, made),
         NEW e \in [owner : Signer, sig : made], \A i \in DOMAIN list : list[i] # e
  PROVE  GoodList(Append(list, e), made)
<1> DEFINE now == Append(list, e)
<1>1. /\ now \in Seq([owner : Signer, sig : made])
      /\ DOMAIN now = 1..(Len(list) + 1) /\ DOMAIN list = 1..Len(list) /\ Len(list) \in Nat
      /\ \A i \in DOMAIN list : now[i] = list[i]
      /\ now[Len(list) + 1] = e
  BY AppendProperties DEF GoodList
<1>2. \A i \in DOMAIN now : i \in DOMAIN list \/ i = Len(list) + 1
  BY <1>1
<1> HIDE DEF now
<1>3. Distinct(now)
  BY <1>1, <1>2 DEF GoodList, Distinct
<1>4. QED
  BY <1>1, <1>3 DEF GoodList, now

\* What a step can make of a process: it may begin to propose, to sign or to
\* execute, or go on.
BeginsToPropose(d) ==
  \E m \in Proposal :
    /\ multisig # NoMultisig
    /\ command'[d] = [step |-> "proposing", msg |-> m, threshold |-> multisig.threshold]

BeginsToSign(d) ==
  \E s \in Signer, m \in Proposal :
    /\ StartSigning(d, s, m)
    /\ command'[d] = [step |-> "signing", signer |-> s, msg |-> m, read |-> signatures]

BeginsToExecute(d) ==
  \E m \in Proposal, step \in Executing :
    command'[d] = [step |-> step, msg |-> m, slots |-> Slots(m)]

GoesOn(d) ==
  \E step \in Effective :
    /\ command[d] # Idle
    /\ command'[d] = [command[d] EXCEPT !.step = step]
    /\ step = "added" => command[d].msg.op = "add"

LEMMA CommandsEvolve ==
  ASSUME CommandInv, StoreNext \/ UNCHANGED storeVars, NEW d \in Command
  PROVE  \/ command'[d] = command[d]
         \/ command'[d] = Idle
         \/ BeginsToPropose(d) \/ BeginsToSign(d) \/ BeginsToExecute(d) \/ GoesOn(d)
<1>1. DOMAIN command = Command
  BY DEF CommandInv
<1> DEFINE Same == command'[d] = command[d]
           Ends == command'[d] = Idle
           Goal == \/ Same \/ Ends
                   \/ BeginsToPropose(d) \/ BeginsToSign(d) \/ BeginsToExecute(d) \/ GoesOn(d)
<1>2. ASSUME NEW c \in Command, NEW s \in Signer, NEW m \in Proposal, StartSigning(c, s, m)
      PROVE  Same \/ BeginsToSign(d)
  <2>1. command' = [command EXCEPT ![c] =
          [step |-> "signing", signer |-> s, msg |-> m, read |-> signatures]]
    BY <1>2 DEF StartSigning
  <2>2. CASE c = d
    BY <1>1, <1>2, <2>1, <2>2 DEF BeginsToSign
  <2>3. CASE c # d
    BY <1>1, <2>1, <2>3
  <2>4. QED
    BY <2>2, <2>3
<1>3. ASSUME NEW c \in Command, NEW s \in Signer, NEW m \in Proposal,
             NEW step \in Executing, StartExecuting(c, s, m, step)
      PROVE  Same \/ BeginsToExecute(d)
  <2>1. command' = [command EXCEPT ![c] = [step |-> step, msg |-> m, slots |-> Slots(m)]]
    BY <1>3 DEF StartExecuting
  <2>2. CASE c = d
    BY <1>1, <2>1, <2>2 DEF BeginsToExecute
  <2>3. CASE c # d
    BY <1>1, <2>1, <2>3
  <2>4. QED
    BY <2>2, <2>3
<1>4. ASSUME NEW c \in Command, NEW then \in Effective,
             command[c] # Idle, GoTo(c, then), then = "added" => command[c].msg.op = "add"
      PROVE  Same \/ GoesOn(d)
  <2>1. CASE c = d
    BY <1>1, <1>4, <2>1 DEF GoTo, GoesOn
  <2>2. CASE c # d
    BY <1>1, <1>4, <2>2 DEF GoTo
  <2>3. QED
    BY <2>1, <2>2
<1>5. ASSUME NEW c \in Command, command' = [command EXCEPT ![c] = Idle]
      PROVE  Same \/ Ends
  BY <1>1, <1>5
<1>6. ASSUME NEW c \in Command, NEW s \in Signer, NEW m \in Proposal, StartProposing(c, s, m)
      PROVE  Same \/ BeginsToPropose(d)
  <2>1. /\ multisig # NoMultisig
        /\ command' = [command EXCEPT ![c] =
             [step |-> "proposing", msg |-> m, threshold |-> multisig.threshold]]
    BY <1>6 DEF StartProposing, IsListed
  <2>2. CASE c = d
    BY <1>1, <2>1, <2>2 DEF BeginsToPropose
  <2>3. CASE c # d
    BY <1>1, <2>1, <2>3
  <2>4. QED
    BY <2>2, <2>3
<1>7. Clean \/ UNCHANGED storeVars => Same
  BY DEF Clean, storeVars
<1> HIDE DEF Same, Ends
<1>8. ASSUME NEW c \in Command, NEW s \in Signer, NEW m \in Proposal,
             \/ ProposeAddSigner(c, s, m) \/ ProposeRemoveSigner(c, s, m)
             \/ ProposeChangeThreshold(c, s, m) \/ ProposeCrossChainIntent(c, s, m)
      PROVE  Goal
  BY <1>6, <1>8 DEF ProposeAddSigner, ProposeRemoveSigner, ProposeChangeThreshold,
                    ProposeCrossChainIntent
<1>9. ASSUME NEW c \in Command, NEW s \in Signer, NEW m \in Proposal,
             \/ StartSigning(c, s, m)
             \/ StartAddSigner(c, s, m) \/ StartRemoveSigner(c, s, m)
             \/ StartChangeThreshold(c, s, m) \/ StartIntent(c, s, m)
      PROVE  Goal
  BY <1>2, <1>3, <1>9
     DEF StartAddSigner, StartRemoveSigner, StartChangeThreshold, StartIntent, Executing
<1>10. ASSUME NEW c \in Command,
              SubmitAddSigner(c) \/ SubmitRemoveSigner(c) \/ SubmitChangeThreshold(c) \/ SubmitIntent(c)
       PROVE  Goal
  BY <1>4, <1>10 DEF SubmitAddSigner, SubmitRemoveSigner, SubmitChangeThreshold, SubmitIntent,
                     Submit, InStep, Effective
<1>11. ASSUME NEW c \in Command, SaveAddedSigner(c) \/ SaveRemovedSigner(c) \/ SaveThreshold(c)
       PROVE  Goal
  BY <1>4, <1>11 DEF SaveAddedSigner, SaveRemovedSigner, SaveThreshold, SaveMultisig, InStep,
                     Effective
<1>12. ASSUME NEW c \in Command,
              FinishProposing(c) \/ FinishSigning(c) \/ MarkExecuted(c) \/ Abort(c)
       PROVE  Goal
  BY <1>5, <1>12 DEF FinishProposing, FinishSigning, MarkExecuted, Abort
<1>13. ASSUME NEW c \in Command, RemoveSignatures(c)
       PROVE  Goal
  BY <1>4, <1>13 DEF RemoveSignatures, InStep, Effective
<1>14. Goal
  <2> HIDE DEF Goal
  <2>1. Clean \/ UNCHANGED storeVars => Goal
    BY <1>7 DEF Goal
  <2>2. QED
    BY <1>8, <1>9, <1>10, <1>11, <1>12, <1>13, <2>1 DEF StoreNext
<1>15. QED
  BY <1>14 DEF Same, Ends

\* Which steps change a file.
LEMMA FilesChange ==
  ASSUME StoreNext \/ UNCHANGED storeVars
  PROVE  /\ \/ UNCHANGED <<signatures, signed>>
            \/ \E c \in Command : FinishSigning(c)
            \/ UNCHANGED signed /\ ((\E c \in Command : RemoveSignatures(c)) \/ Clean)
         /\ \/ UNCHANGED multisig \/ multisig' = NoMultisig
            \/ \E c \in Command : SaveAddedSigner(c) \/ SaveRemovedSigner(c) \/ SaveThreshold(c)
         /\ \/ UNCHANGED proposals \/ proposals' = <<>>
            \/ \E c \in Command : FinishProposing(c) \/ MarkExecuted(c)
<1> DEFINE Signatures == \/ UNCHANGED <<signatures, signed>>
                         \/ \E c \in Command : FinishSigning(c)
                         \/ UNCHANGED signed /\ ((\E c \in Command : RemoveSignatures(c)) \/ Clean)
           Multisig == \/ UNCHANGED multisig \/ multisig' = NoMultisig
                       \/ \E c \in Command : SaveAddedSigner(c) \/ SaveRemovedSigner(c) \/ SaveThreshold(c)
           Proposals == \/ UNCHANGED proposals \/ proposals' = <<>>
                        \/ \E c \in Command : FinishProposing(c) \/ MarkExecuted(c)
           Goal == Signatures /\ Multisig /\ Proposals
<1>1. ASSUME NEW c \in Command, FinishProposing(c)
      PROVE  Goal
  BY <1>1 DEF FinishProposing, vars
<1>2. ASSUME NEW c \in Command, NEW s \in Signer, NEW m \in Proposal,
             \/ StartSigning(c, s, m)
             \/ StartAddSigner(c, s, m) \/ StartRemoveSigner(c, s, m)
             \/ StartChangeThreshold(c, s, m) \/ StartIntent(c, s, m)
      PROVE  Goal
  BY <1>2 DEF StartSigning, StartAddSigner, StartRemoveSigner, StartChangeThreshold, StartIntent,
              StartExecuting, vars, files
<1>3. ASSUME NEW c \in Command, FinishSigning(c)
      PROVE  Goal
  BY <1>3 DEF FinishSigning
<1>4. ASSUME NEW c \in Command,
             SubmitAddSigner(c) \/ SubmitRemoveSigner(c) \/ SubmitChangeThreshold(c) \/ SubmitIntent(c)
      PROVE  Goal
  <2>1. PICK step, then : Submit(c, step, then)
    BY <1>4 DEF SubmitAddSigner, SubmitRemoveSigner, SubmitChangeThreshold, SubmitIntent
  <2>2. UNCHANGED files /\ ExecuteVia(command[c].msg, Wormhole)
    BY <2>1 DEF Submit, SendAndWait
  <2>3. UNCHANGED signed
    BY <2>2 DEF ExecuteVia, AddSigner, RemoveSigner, ChangeThreshold, ExecuteCrossChainIntent
  <2>4. QED
    BY <2>2, <2>3 DEF files
<1>5. ASSUME NEW c \in Command, SaveAddedSigner(c) \/ SaveRemovedSigner(c) \/ SaveThreshold(c)
      PROVE  Goal
  <2>1. UNCHANGED <<vars, proposals, signatures>>
    BY <1>5 DEF SaveAddedSigner, SaveRemovedSigner, SaveThreshold, SaveMultisig
  <2>2. QED
    BY <1>5, <2>1 DEF vars
<1>6. ASSUME NEW c \in Command, RemoveSignatures(c) \/ MarkExecuted(c)
      PROVE  Goal
  BY <1>6 DEF RemoveSignatures, MarkExecuted, vars
<1>7. ASSUME NEW c \in Command, Abort(c)
      PROVE  Goal
  BY <1>7 DEF Abort, vars, files
<1>8. Clean => Goal
  BY DEF Clean, vars
<1>9. UNCHANGED storeVars => Goal
  BY DEF storeVars
<1>10. ASSUME NEW c \in Command, NEW s \in Signer, NEW m \in Proposal,
              \/ ProposeAddSigner(c, s, m) \/ ProposeRemoveSigner(c, s, m)
              \/ ProposeChangeThreshold(c, s, m) \/ ProposeCrossChainIntent(c, s, m)
       PROVE  Goal
  <2>1. StartProposing(c, s, m)
    BY <1>10 DEF ProposeAddSigner, ProposeRemoveSigner, ProposeChangeThreshold,
                 ProposeCrossChainIntent
  <2>2. QED
    BY <2>1 DEF StartProposing, vars, files
<1>11. Goal
  <2> HIDE DEF Goal
  <2>1. QED
    BY <1>1, <1>2, <1>3, <1>4, <1>5, <1>6, <1>7, <1>8, <1>9, <1>10 DEF StoreNext
<1>12. QED
  BY <1>11

\* The signatures: what a command appends to the list it read is not in it, and
\* what others wrote meanwhile does not matter.
LEMMA SignaturesStep ==
  ASSUME CommandInv, SignaturesInv, StoreNext \/ UNCHANGED storeVars
  PROVE  SignaturesInv'
<1>1. signed \subseteq signed'
  BY FilesChange DEF FinishSigning
<1>2. GoodList(signatures', signed')
  <2>1. CASE UNCHANGED signatures
    BY <1>1, <2>1, GoodListGrows DEF SignaturesInv
  <2>2. ASSUME NEW c \in Command, FinishSigning(c) PROVE GoodList(signatures', signed')
    <3> DEFINE list == command[c].read
               new == NewEntry(command[c])
    <3>1. /\ GoodList(list, signed)
          /\ \A i \in DOMAIN list : list[i] # new
          /\ command[c].signer \in Signer
      BY <2>2 DEF SignaturesInv, SignsAfresh, CommandInv, InStep, FinishSigning
    <3>2. signatures' = Append(list, new) /\ new \in [owner : Signer, sig : signed']
      BY <2>2, <3>1 DEF FinishSigning, NewEntry
    <3> HIDE DEF list, new
    <3>3. GoodList(list, signed')
      BY <1>1, <3>1, GoodListGrows
    <3>4. QED
      BY <3>1, <3>2, <3>3, AppendIsGood
  <2>3. ASSUME NEW c \in Command, RemoveSignatures(c) PROVE GoodList(signatures', signed')
    <3>1. signatures' = Filter(signatures, {e \in ToSet(signatures) : e.sig[2] # command[c].msg})
      BY <2>3 DEF RemoveSignatures
    <3>2. GoodList(signatures, signed')
      BY <1>1, GoodListGrows DEF SignaturesInv
    <3>3. QED
      BY <3>1, <3>2, FilteredIsGood
  <2>4. Clean => GoodList(signatures', signed')
    BY DEF Clean, GoodList, Distinct
  <2>5. QED
    BY <2>1, <2>2, <2>3, <2>4, FilesChange
<1>3. ASSUME NEW d \in Command, InStep(d, "signing")'
      PROVE  SignsAfresh(command'[d], signed')
  <2> DEFINE p == command'[d]
  <2>1. p # Idle /\ p.step = "signing"
    BY <1>3 DEF InStep
  <2>2. CASE command'[d] = command[d]
    <3>1. SignsAfresh(p, signed)
      BY <2>1, <2>2 DEF InStep, SignaturesInv
    <3>2. QED
      BY <1>1, <3>1, GoodListGrows DEF SignsAfresh
  <2>3. ASSUME NEW s \in Signer, NEW m \in Proposal, StartSigning(d, s, m),
               p = [step |-> "signing", signer |-> s, msg |-> m, read |-> signatures]
        PROVE  SignsAfresh(p, signed')
    <3>1. p.read = signatures /\ NewEntry(p) = [owner |-> s, sig |-> <<KeyOf[s], m>>]
      BY <2>3 DEF NewEntry
    <3>2. GoodList(signatures, signed')
      BY <1>1, GoodListGrows DEF SignaturesInv
    <3>3. \A i \in DOMAIN signatures : signatures[i] # [owner |-> s, sig |-> <<KeyOf[s], m>>]
      BY <2>3 DEF StartSigning, HasNotSigned
    <3>4. QED
      BY <3>1, <3>2, <3>3 DEF SignsAfresh
  <2>4. ASSUME NEW m \in Proposal, NEW step \in Executing,
               p = [step |-> step, msg |-> m, slots |-> Slots(m)]
        PROVE  FALSE
    BY <2>1, <2>4 DEF Executing
  <2>5. ASSUME NEW step \in Effective,
               command[d] # Idle, p = [command[d] EXCEPT !.step = step]
        PROVE  FALSE
    BY <2>1, <2>5 DEF CommandInv, Effective
  <2>6. ASSUME NEW m, NEW t, p = [step |-> "proposing", msg |-> m, threshold |-> t]
        PROVE  FALSE
    BY <2>1, <2>6
  <2>7. ~ BeginsToPropose(d) /\ ~ BeginsToExecute(d) /\ ~ GoesOn(d)
    BY <2>4, <2>5, <2>6 DEF BeginsToPropose, BeginsToExecute, GoesOn
  <2> HIDE DEF p
  <2>8. QED
    BY <2>1, <2>2, <2>3, <2>7, CommandsEvolve DEF p, BeginsToSign
<1>4. QED
  BY <1>2, <1>3 DEF SignaturesInv

\* The thresholds: what the files hold was the account's, or took effect.
LEMMA ThresholdsStep ==
  ASSUME StoreInv, SlotsInv, ThresholdsInv, StoreNext \/ UNCHANGED storeVars
  PROVE  ThresholdsInv'
<1>1. [Next]_vars
  BY StoreStep
<1>2. ASSUME NEW m \in Proposal, m.op = "threshold", applied'[m] > 0
      PROVE  m.threshold \in 0..MaxSigners
  <2>1. CASE applied[m] > 0
    BY <1>2, <2>1 DEF ThresholdsInv
  <2>2. CASE ~ (applied[m] > 0)
    <3>1. applied' # applied
      BY <1>2, <2>2
    <3>2. PICK n \in Proposal, a \in WormholeAddress : ExecuteVia(n, a)
      BY <1>1, <3>1 DEF Next, Sign, Execute, vars
    <3>3. Apply(n)
      BY <3>1, <3>2 DEF ExecuteVia, AddSigner, RemoveSigner, ChangeThreshold, ExecuteCrossChainIntent
    <3>4. n = m
      BY <1>2, <2>2, <3>3 DEF Apply, StoreInv, IInv, TypeOK
    <3>5. ThresholdInRange(m)
      BY <1>2, <3>2, <3>4 DEF ExecuteVia, AddSigner, RemoveSigner, ChangeThreshold,
                              ExecuteCrossChainIntent
    <3>6. QED
      BY <1>2, <3>5, MessageShapes, MaxSignersAssumption DEF ThresholdInRange
  <2>3. QED
    BY <2>1, <2>2
<1>3. multisig' # NoMultisig => multisig' \in MultisigEntry
  <2>1. CASE UNCHANGED multisig \/ multisig' = NoMultisig
    BY <2>1 DEF ThresholdsInv
  <2>2. ASSUME NEW c \in Command, SaveAddedSigner(c) PROVE multisig' \in MultisigEntry
    <3>1. command[c].msg \in Proposal /\ command[c].msg.op = "add"
      BY <2>2 DEF SaveAddedSigner, SaveMultisig, InStep, StoreInv, CommandInv, SlotsInv
    <3>2. command[c].msg.signer \in Signer
      BY <3>1, MessageShapes
    <3>3. /\ multisig \in MultisigEntry
          /\ multisig' = [multisig EXCEPT !.signers = Append(@, command[c].msg.signer)]
      BY <2>2 DEF SaveAddedSigner, SaveMultisig, ThresholdsInv
    <3>4. QED
      BY <3>2, <3>3, AppendProperties DEF MultisigEntry
  <2>3. ASSUME NEW c \in Command, SaveRemovedSigner(c) PROVE multisig' \in MultisigEntry
    <3> DEFINE kept == Filter(multisig.signers, Signer \ {command[c].msg.signer})
    <3>1. multisig \in MultisigEntry /\ multisig' = [multisig EXCEPT !.signers = kept]
      BY <2>3 DEF SaveRemovedSigner, SaveMultisig, ThresholdsInv
    <3>2. multisig.signers \in Seq(Signer)
      BY <3>1 DEF MultisigEntry
    <3>3. kept \in Seq(Signer)
      BY <3>2, FilterProperties
    <3> HIDE DEF kept
    <3>4. QED
      BY <3>1, <3>3 DEF MultisigEntry
  <2>4. ASSUME NEW c \in Command, SaveThreshold(c) PROVE multisig' \in MultisigEntry
    <3> DEFINE m == command[c].msg
    <3>1. m \in Proposal /\ m.op = "threshold" /\ applied[m] > 0
      BY <2>4 DEF SaveThreshold, SaveMultisig, InStep, StoreInv, CommandInv, Effective
    <3>2. m.threshold \in 0..MaxSigners
      BY <3>1 DEF ThresholdsInv
    <3>3. multisig \in MultisigEntry /\ multisig' = [multisig EXCEPT !.threshold = m.threshold]
      BY <2>4 DEF SaveThreshold, SaveMultisig, ThresholdsInv
    <3>4. QED
      BY <3>2, <3>3 DEF MultisigEntry
  <2>5. QED
    BY <2>1, <2>2, <2>3, <2>4, FilesChange
<1>4. \A i \in DOMAIN proposals' : proposals'[i].threshold \in 0..MaxSigners
  <2>1. CASE UNCHANGED proposals \/ proposals' = <<>>
    BY <2>1 DEF ThresholdsInv
  <2>2. ASSUME NEW c \in Command, FinishProposing(c), NEW i \in DOMAIN proposals'
        PROVE  proposals'[i].threshold \in 0..MaxSigners
    <3> DEFINE new == [msg |-> command[c].msg, threshold |-> command[c].threshold,
                       status |-> "pending"]
    <3>1. new.threshold \in 0..MaxSigners
      BY <2>2 DEF FinishProposing, ThresholdsInv
    <3>2. proposals' = Append(proposals, new)
      BY <2>2 DEF FinishProposing
    <3>3. proposals \in Seq(Entry)
      BY DEF StoreInv, ProposalsInv
    <3> HIDE DEF new
    <3>4. proposals'[i] = new \/ (i \in DOMAIN proposals /\ proposals'[i] = proposals[i])
      BY <3>2, <3>3
    <3>5. QED
      BY <3>1, <3>4 DEF ThresholdsInv
  <2>3. ASSUME NEW c \in Command, MarkExecuted(c), NEW i \in DOMAIN proposals'
        PROVE  proposals'[i].threshold \in 0..MaxSigners
    <3>1. proposals \in Seq(Entry)
      BY DEF StoreInv, ProposalsInv
    <3>2. /\ i \in DOMAIN proposals
          /\ \/ proposals'[i] = proposals[i]
             \/ proposals'[i] = [proposals[i] EXCEPT !.status = "executed"]
      BY <2>3 DEF MarkExecuted
    <3>3. proposals[i] \in Entry
      BY <3>1, <3>2
    <3>4. proposals'[i].threshold = proposals[i].threshold
      BY <3>2, <3>3 DEF Entry
    <3>5. QED
      BY <3>2, <3>4 DEF ThresholdsInv
  <2>4. QED
    BY <2>1, <2>2, <2>3, FilesChange
<1>5. ASSUME NEW d \in Command, InStep(d, "proposing")'
      PROVE  command'[d].threshold \in 0..MaxSigners
  <2> DEFINE p == command'[d]
  <2>1. p # Idle /\ p.step = "proposing"
    BY <1>5 DEF InStep
  <2>2. CASE p = command[d]
    BY <2>1, <2>2 DEF InStep, ThresholdsInv
  <2>3. CASE BeginsToPropose(d)
    BY <2>3 DEF BeginsToPropose, ThresholdsInv, MultisigEntry
  <2>4. ~ BeginsToSign(d) /\ ~ BeginsToExecute(d)
    <3>1. ASSUME NEW s, NEW m, p = [step |-> "signing", signer |-> s, msg |-> m, read |-> signatures]
          PROVE  FALSE
      BY <2>1, <3>1
    <3>2. ASSUME NEW m, NEW step \in Executing, p = [step |-> step, msg |-> m, slots |-> Slots(m)]
          PROVE  FALSE
      BY <2>1, <3>2 DEF Executing
    <3>3. QED
      BY <3>1, <3>2 DEF BeginsToSign, BeginsToExecute
  <2>5. ~ GoesOn(d)
    BY <2>1 DEF GoesOn, Effective, StoreInv, CommandInv
  <2> HIDE DEF p
  <2>6. QED
    BY <2>1, <2>2, <2>3, <2>4, <2>5, CommandsEvolve DEF p, StoreInv
<1>6. QED
  BY <1>2, <1>3, <1>4, <1>5 DEF ThresholdsInv

\* The entries on a proposal fit the slots.
LEMMA SlotsTyped ==
  ASSUME TypeOK, SignaturesInv, NEW m
  PROVE  Slots(m) \in [1..MaxSigners -> Slot]
<1>1. GoodList(SignaturesOn(m), signed)
  BY FilteredIsGood DEF SignaturesOn, SignaturesInv
<1> DEFINE list == SignaturesOn(m)
<1> DEFINE E == [owner : Signer, sig : signed]
<1>2. list \in Seq(E)
  BY <1>1 DEF GoodList
<1>3. E \subseteq Slot
  BY ProposalAssumption DEF TypeOK, Slot
<1> HIDE DEF list, E
<1>4. ASSUME NEW i \in 1..MaxSigners, i <= Len(list) PROVE list[i] \in Slot
  <2>1. i \in DOMAIN list
    BY <1>2, <1>4, MaxSignersAssumption
  <2>2. QED
    BY <1>2, <1>3, <2>1
<1>5. Slots(m) = [i \in 1..MaxSigners |-> IF i <= Len(list) THEN list[i] ELSE Empty]
  BY DEF Slots, list
<1>6. QED
  BY <1>4, <1>5 DEF Slot

LEMMA SlotsStep ==
  ASSUME StoreInv, SignaturesInv, SlotsInv, StoreNext \/ UNCHANGED storeVars
  PROVE  SlotsInv'
<1> SUFFICES ASSUME NEW d \in Command
             PROVE  /\ \A step \in Executing : InStep(d, step)' =>
                         command'[d].slots \in [1..MaxSigners -> Slot]
                    /\ InStep(d, "added")' => command'[d].msg.op = "add"
  BY DEF SlotsInv
<1> DEFINE p == command'[d]
<1>1. CASE p = command[d]
  BY <1>1 DEF SlotsInv, InStep
<1>2. CASE p = Idle
  BY <1>2 DEF InStep
<1>3. ASSUME NEW s \in Signer, NEW m \in Proposal,
             p = [step |-> "signing", signer |-> s, msg |-> m, read |-> signatures]
      PROVE  p.step \notin Executing /\ p.step # "added"
  BY <1>3 DEF Executing
<1>4. ASSUME NEW m \in Proposal, NEW step \in Executing,
             p = [step |-> step, msg |-> m, slots |-> Slots(m)]
      PROVE  p.slots \in [1..MaxSigners -> Slot] /\ p.step # "added"
  BY <1>4, SlotsTyped DEF Executing, StoreInv, IInv
<1>5. ASSUME NEW step \in Effective,
             command[d] # Idle, p = [command[d] EXCEPT !.step = step],
             step = "added" => command[d].msg.op = "add"
      PROVE  p.step \notin Executing /\ (p.step = "added" => p.msg.op = "add")
  BY <1>5 DEF Executing, Effective, StoreInv, CommandInv
<1>6. CASE p # command[d] /\ p # Idle
  <2>1. InStep(d, "added")' => p.step = "added"
    BY DEF InStep
  <2>2. \A step \in Executing : InStep(d, step)' => p.step \in Executing
    BY DEF InStep
  <2>3. \/ p.step \notin Executing /\ (p.step = "added" => p.msg.op = "add")
        \/ p.slots \in [1..MaxSigners -> Slot] /\ p.step # "added"
    <3>1. BeginsToPropose(d) \/ BeginsToSign(d) \/ BeginsToExecute(d) \/ GoesOn(d)
      BY <1>6, CommandsEvolve DEF StoreInv
    <3>2. CASE BeginsToSign(d)
      BY <1>3, <3>2 DEF BeginsToSign
    <3>3. CASE BeginsToExecute(d)
      BY <1>4, <3>3 DEF BeginsToExecute
    <3>4. CASE GoesOn(d)
      BY <1>5, <3>4 DEF GoesOn
    <3>5. CASE BeginsToPropose(d)
      BY <3>5 DEF BeginsToPropose, Executing
    <3>6. QED
      BY <3>1, <3>2, <3>3, <3>4, <3>5
  <2> HIDE DEF p
  <2>4. QED
    BY <2>1, <2>2, <2>3 DEF p
<1>7. QED
  BY <1>1, <1>2, <1>6

\* The founding multisig: SetToSeq has a sequence to choose.
LEMMA MembersListed ==
  ASSUME NEW S \in SUBSET Signer
  PROVE  SetToSeq(S) \in Seq(Signer)
<1>1. Cardinality(S) \in Nat /\ ExistsBijection(1..Cardinality(S), S)
  BY MembersFinite, FS_CardinalityType
<1>2. PICK f \in Bijection(1..Cardinality(S), S) : TRUE
  BY <1>1 DEF ExistsBijection
<1>3. f \in [1..Cardinality(S) -> S] /\ IsInjective(f)
  BY <1>2 DEF Bijection, Injection, IsInjective
<1>4. SetToSeq(S) \in [1..Cardinality(S) -> S]
  BY <1>3 DEF SetToSeq
<1>5. SetToSeq(S) \in [1..Cardinality(S) -> Signer]
  BY <1>4
<1>6. QED
  BY <1>1, <1>5

LEMMA ListsInit == StoreInit => ListsInv
<1> SUFFICES ASSUME StoreInit PROVE ListsInv
  OBVIOUS
<1>1. TypeOK
  BY InitIInv DEF StoreInit, IInv
<1>2. SignaturesInv
  BY DEF StoreInit, SignaturesInv, GoodList, Distinct, InStep
<1>3. ThresholdsInv
  <2>1. multisig \in MultisigEntry
    BY <1>1, MembersListed DEF StoreInit, MultisigEntry, TypeOK
  <2>2. \A m \in Proposal : ~ (applied[m] > 0)
    BY DEF StoreInit, Init
  <2>3. QED
    BY <2>1, <2>2 DEF StoreInit, ThresholdsInv, InStep
<1>4. SlotsInv
  BY DEF StoreInit, SlotsInv, InStep
<1>5. QED
  BY <1>2, <1>3, <1>4 DEF ListsInv

LEMMA ListsInvariance == StoreSpec => [](StoreInv /\ ListsInv)
<1>1. StoreInv /\ ListsInv /\ [StoreNext]_storeVars => (StoreInv /\ ListsInv)'
  BY StoreStep, SignaturesStep, ThresholdsStep, SlotsStep DEF ListsInv, StoreInv
<1>2. QED
  BY <1>1, StoreInitInv, ListsInit, PTL DEF StoreSpec

\* No signer is in pending-signatures.json twice for one proposal, however many
\* commands sign at once and whoever's entries they overwrite.
THEOREM EntriesStaySingle == StoreSpec => []OneEntryPerSigner
<1>1. ListsInv => OneEntryPerSigner
  BY DEF ListsInv, SignaturesInv, GoodList, Distinct, OneEntryPerSigner
<1>2. QED
  BY <1>1, ListsInvariance, PTL

\* The files keep their types: every signature in them was made, every threshold
\* is one that an account may have, every command that executes fills the slots
\* that the contract has.
THEOREM StoreTypeCorrect == StoreSpec => []StoreTypeOK
<1>1. StoreInv /\ ListsInv => StoreTypeOK
  <2> SUFFICES ASSUME StoreInv, ListsInv PROVE StoreTypeOK
    OBVIOUS
  <2>1. TypeOK
    BY DEF StoreInv, IInv
  <2>2. ASSUME NEW i \in DOMAIN proposals
        PROVE  /\ proposals[i].msg \in Proposal
               /\ proposals[i].threshold \in 0..MaxSigners
               /\ proposals[i].status \in {"pending", "executed"}
    <3>1. proposals[i] \in Entry
      <4>1. proposals \in Seq(Entry)
        BY DEF StoreInv, ProposalsInv
      <4>2. QED
        BY <4>1
    <3>2. QED
      BY <3>1 DEF Entry, ListsInv, ThresholdsInv
  <2>3. ToSet(signatures) \subseteq [owner : Signer, sig : signed]
    <3> DEFINE E == [owner : Signer, sig : signed]
    <3>1. signatures \in Seq(E)
      BY DEF ListsInv, SignaturesInv, GoodList
    <3> HIDE DEF E
    <3>2. ToSet(signatures) \subseteq E
      BY <3>1 DEF ToSet
    <3>3. QED
      BY <3>2 DEF E
  <2>4. multisig # NoMultisig => /\ multisig.threshold \in 0..MaxSigners
                                 /\ ToSet(multisig.signers) \subseteq Signer
    <3> SUFFICES ASSUME multisig # NoMultisig
                 PROVE  /\ multisig.threshold \in 0..MaxSigners
                        /\ ToSet(multisig.signers) \subseteq Signer
      OBVIOUS
    <3>1. multisig.threshold \in 0..MaxSigners /\ multisig.signers \in Seq(Signer)
      BY DEF ListsInv, ThresholdsInv, MultisigEntry
    <3>2. QED
      BY <3>1 DEF ToSet
  <2>5. \A c \in Command :
          (\E step \in {"adding", "removing", "changing", "publishing"} : InStep(c, step)) =>
            command[c].slots \in [1..MaxSigners -> Slot]
    BY DEF ListsInv, SlotsInv, Executing
  <2>6. \A c \in Command : InStep(c, "proposing") => command[c].threshold \in 0..MaxSigners
    BY DEF ListsInv, ThresholdsInv
  <2>7. QED
    BY <2>1, <2>2, <2>3, <2>4, <2>5, <2>6 DEF StoreTypeOK
<1>2. QED
  BY <1>1, ListsInvariance, PTL
=============================================================================
