---------------------------- MODULE ProposalStore ----------------------------
(***************************************************************************)
(* The CLI's proposal lifecycle around one multisig account: the commands   *)
(* propose-*, sign-proposal and execute-* of cli/index.ts and the JSON      *)
(* files they share, pending-proposals.json, pending-signatures.json and    *)
(* the account's entry of multisigs.json; "clean" removes all three.        *)
(*                                                                         *)
(* Commands are processes of their own that may run at the same time and    *)
(* may end anywhere.  What a command does between two awaits is one step;   *)
(* what it has read before an await and uses after it is kept in "command". *)
(* The account itself is MultisigAccount, called with the very slots that   *)
(* the command fills from the file.                                         *)
(***************************************************************************)
EXTENDS MultisigAccount, SequencesExt

CONSTANTS
  Command,       \* processes of the CLI
  Idle,          \* the process runs no command
  NoMultisig,    \* multisigs.json has no entry of the account
  KeyOf,         \* signers.json: the key of each signer, named by its address
  MaxProposals,  \* bound: how many proposals are ever created
  EnoughSigned   \* bound: no other signing starts once so many signatures exist

ASSUME KeyOfAssumption == KeyOf \in [Signer -> Key]

VARIABLES
  proposals,    \* pending-proposals.json
  signatures,   \* pending-signatures.json, each entry as the slot it will fill
  multisig,     \* multisigs.json: the account's threshold and signers, or NoMultisig
  command       \* what each process is doing and has read

files     == <<proposals, signatures, multisig>>
storeVars == <<threshold, signerCount, members, pubkey, executed, signed, applied,
               proposals, signatures, multisig, command>>

StoreInit ==
  /\ Init
  /\ proposals = <<>>
  /\ signatures = <<>>
  /\ multisig = [threshold |-> threshold, signers |-> SetToSeq(members)]
  /\ command = [c \in Command |-> Idle]

-----------------------------------------------------------------------------
(* Reading the files *)

\* Array.filter: the elements that are in "kept", in the order of the list.
Filter(list, kept) ==
  LET upTo[n \in 0..Len(list)] ==
        IF n = 0 THEN <<>>
        ELSE IF list[n] \in kept THEN Append(upTo[n - 1], list[n])
        ELSE upTo[n - 1]
  IN  upTo[Len(list)]

\* The entry that getProposalStatus and markProposalExecuted find for a hash:
\* the first one.
IsFirst(i, m) ==
  /\ proposals[i].msg = m
  /\ \A j \in DOMAIN proposals : proposals[j].msg = m => i <= j

\* It is pending, with this threshold.
Pending(m, t) ==
  \E i \in DOMAIN proposals :
    IsFirst(i, m) /\ proposals[i].status = "pending" /\ proposals[i].threshold = t

\* getProposalSignatures
SignaturesOn(m) == Filter(signatures, {e \in ToSet(signatures) : e.sig[2] = m})

\* requireSignerInMultisig, of a multisig that is current
IsListed(s) == multisig # NoMultisig /\ Contains(multisig.signers, s)

SignedUnchecked(s, m) == IsListed(s) /\ m \in Proposal   \* (mutant)
HasNotSigned(s, m) == \A i \in DOMAIN signatures :
                        ~(signatures[i].owner = s /\ signatures[i].sig[2] = m)

Unpadded(m) == SignaturesOn(m)   \* (mutant)

\* contractSignatures: the first MaxSigners signatures, in file order.
Slots(m) ==
  [i \in 1..MaxSigners |->
     IF i <= Len(SignaturesOn(m)) THEN SignaturesOn(m)[i] ELSE Empty]

-----------------------------------------------------------------------------
(* propose-*, with s the current signer *)

InStep(c, step) == command[c] # Idle /\ command[c].step = step

GoTo(c, step) == command' = [command EXCEPT ![c].step = step]

\* createProposal up to "await poseidon2Hash", with the threshold that
\* multisigs.json shows at the time.
StartProposing(c, s, m) ==
  /\ command[c] = Idle
  /\ IsListed(s)
  /\ Len(proposals) < MaxProposals
  /\ command' = [command EXCEPT ![c] =
       [step |-> "proposing", msg |-> m, threshold |-> multisig.threshold]]
  /\ UNCHANGED <<vars, files>>

\* ... and after it: the file is read and written here.
FinishProposing(c) ==
  /\ InStep(c, "proposing")
  /\ Len(proposals) < MaxProposals
  /\ proposals' = Append(proposals,
       [msg |-> command[c].msg, threshold |-> command[c].threshold, status |-> "pending"])
  /\ command' = [command EXCEPT ![c] = Idle]
  /\ UNCHANGED <<vars, signatures, multisig>>

ProposeAddSigner(c, s, m) ==
  /\ m.op = "add"
  /\ m.key = KeyOf[m.signer]
  /\ StartProposing(c, s, m)

ProposeRemoveSigner(c, s, m) ==
  /\ m.op = "remove"
  /\ IsListed(s) /\ IsListed(m.signer)
  /\ multisig.threshold <= Len(multisig.signers) - 1
  /\ StartProposing(c, s, m)

ProposeChangeThreshold(c, s, m) ==
  /\ m.op = "threshold"
  /\ IsListed(s)
  /\ m.threshold >= 1
  /\ m.threshold <= Len(multisig.signers)
  /\ m.threshold # multisig.threshold
  /\ StartProposing(c, s, m)

ProposeCrossChainIntent(c, s, m) ==
  /\ m.op = "intent"
  /\ StartProposing(c, s, m)

-----------------------------------------------------------------------------
(* sign-proposal, with s the current signer: a member or not *)

\* signProposal up to "await signMessage": the file is read here.
StartSigning(c, s, m) ==
  /\ command[c] = Idle
  /\ \E t \in 0..MaxSigners : Pending(m, t)
  /\ HasNotSigned(s, m)
  /\ <<KeyOf[s], m>> \in signed \/ Cardinality(signed) < EnoughSigned
  /\ command' = [command EXCEPT ![c] =
       [step |-> "signing", signer |-> s, msg |-> m, read |-> signatures]]
  /\ UNCHANGED <<vars, files>>

\* ... and after it: the list read before is written back with one more entry.
FinishSigning(c) ==
  /\ InStep(c, "signing")
  /\ LET sig == <<KeyOf[command[c].signer], command[c].msg>>
     IN  /\ sig \in signed \/ Cardinality(signed) < MaxSignatures
         /\ signatures' = Append(command[c].read, [owner |-> command[c].signer, sig |-> sig])
         /\ signed' = signed \cup {sig}
  /\ command' = [command EXCEPT ![c] = Idle]
  /\ UNCHANGED <<accountVars, applied, proposals, multisig>>

-----------------------------------------------------------------------------
(* execute-*, with s the current signer *)

\* The checks of every execute-*, against the threshold the proposal was created
\* with, and the slots; the wallet, the contract and the proof take a while from
\* here.
StartExecuting(c, s, m, step) ==
  /\ command[c] = Idle
  /\ \E t \in 0..MaxSigners : Pending(m, t) /\ Len(SignaturesOn(m)) >= t
  /\ IsListed(s)
  /\ command' = [command EXCEPT ![c] = [step |-> step, msg |-> m, slots |-> Slots(m)]]
  /\ UNCHANGED <<vars, files>>

\* execute-add-signer takes a proposal of any kind.
StartAddSigner(c, s, m)       == StartExecuting(c, s, m, "adding")
StartRemoveSigner(c, s, m)    == m.op = "remove" /\ StartExecuting(c, s, m, "removing")
StartChangeThreshold(c, s, m) == m.op = "threshold" /\ StartExecuting(c, s, m, "changing")
StartIntent(c, s, m)          == m.op = "intent" /\ StartExecuting(c, s, m, "publishing")

\* (for the mutant: send() without wait(), an outcome nobody looks at)
SendOnly(m, slots) == m \in Proposal /\ slots # <<>> /\ UNCHANGED vars

\* send().wait(): the call is accepted for these slots and included.  The CLI
\* names Wormhole.
SendAndWait(m, slots) == AssertValidSignatures(m, slots) /\ ExecuteVia(m, Wormhole)

Submit(c, step, then) ==
  /\ InStep(c, step)
  /\ SendAndWait(command[c].msg, command[c].slots)
  /\ GoTo(c, then)
  /\ UNCHANGED files

\* The data of a proposal of another kind have no address to convert.
SubmitAddSigner(c)       == /\ command[c] # Idle /\ command[c].msg.op = "add"
                            /\ Submit(c, "adding", "added")
SubmitRemoveSigner(c)    == Submit(c, "removing", "removed")
SubmitChangeThreshold(c) == Submit(c, "changing", "changed")
SubmitIntent(c)          == Submit(c, "publishing", "saved")

\* The account's entry of the file as it is now, with one of its fields changed.
SaveMultisig(c, step, entry) ==
  /\ InStep(c, step)
  /\ multisig # NoMultisig
  /\ multisig' = entry
  /\ GoTo(c, "saved")
  /\ UNCHANGED <<vars, proposals, signatures>>

SaveAddedSigner(c) ==
  SaveMultisig(c, "added", [multisig EXCEPT !.signers = Append(@, command[c].msg.signer)])

SaveRemovedSigner(c) ==
  SaveMultisig(c, "removed",
    [multisig EXCEPT !.signers = Filter(@, Signer \ {command[c].msg.signer})])

SaveThreshold(c) ==
  SaveMultisig(c, "changed", [multisig EXCEPT !.threshold = command[c].msg.threshold])

\* cleanupExecutedProposal: two files, one after the other, and other processes
\* read and write in between.
RemoveSignatures(c) ==
  /\ InStep(c, "saved")
  /\ signatures' = Filter(signatures, {e \in ToSet(signatures) : e.sig[2] # command[c].msg})
  /\ GoTo(c, "cleaned")
  /\ UNCHANGED <<vars, proposals, multisig>>

MarkExecuted(c) ==
  /\ InStep(c, "cleaned")
  /\ proposals' = [i \in DOMAIN proposals |->
       IF IsFirst(i, command[c].msg) THEN [proposals[i] EXCEPT !.status = "executed"]
                                     ELSE proposals[i]]
  /\ command' = [command EXCEPT ![c] = Idle]
  /\ UNCHANGED <<vars, signatures, multisig>>

\* A revert, a wait that times out (with the transaction included or not), an
\* error thrown anywhere, a process killed: the command ends where it is.
Abort(c) ==
  /\ command[c] # Idle
  /\ command' = [command EXCEPT ![c] = Idle]
  /\ UNCHANGED <<vars, files>>

\* clean: every file; the commands that run go on.
Clean ==
  /\ proposals' = <<>>
  /\ signatures' = <<>>
  /\ multisig' = NoMultisig
  /\ UNCHANGED <<vars, command>>

StoreNext ==
  \/ \E c \in Command, s \in Signer, m \in Proposal :
       \/ ProposeAddSigner(c, s, m) \/ ProposeRemoveSigner(c, s, m)
       \/ ProposeChangeThreshold(c, s, m) \/ ProposeCrossChainIntent(c, s, m)
       \/ StartSigning(c, s, m)
       \/ StartAddSigner(c, s, m) \/ StartRemoveSigner(c, s, m)
       \/ StartChangeThreshold(c, s, m) \/ StartIntent(c, s, m)
  \/ \E c \in Command :
       \/ FinishProposing(c) \/ FinishSigning(c)
       \/ SubmitAddSigner(c) \/ SubmitRemoveSigner(c)
       \/ SubmitChangeThreshold(c) \/ SubmitIntent(c)
       \/ SaveAddedSigner(c) \/ SaveRemovedSigner(c) \/ SaveThreshold(c)
       \/ RemoveSignatures(c) \/ MarkExecuted(c) \/ Abort(c)
  \/ Clean

StoreSpec == StoreInit /\ [][StoreNext]_storeVars

-----------------------------------------------------------------------------
(* Properties *)

StoreTypeOK ==
  /\ TypeOK
  /\ \A i \in DOMAIN proposals :
       /\ proposals[i].msg \in Proposal
       /\ proposals[i].threshold \in 0..MaxSigners
       /\ proposals[i].status \in {"pending", "executed"}
  /\ ToSet(signatures) \subseteq [owner : Signer, sig : signed]
  /\ multisig # NoMultisig => /\ multisig.threshold \in 0..MaxSigners
                              /\ ToSet(multisig.signers) \subseteq Signer
  /\ \A c \in Command :
       (\E step \in {"adding", "removing", "changing", "publishing"} : InStep(c, step)) =>
         command[c].slots \in [1..MaxSigners -> Slot]
  /\ \A c \in Command : InStep(c, "proposing") => command[c].threshold \in 0..MaxSigners

\* A proposal that the file calls executed did take effect on the account,
\* wherever the commands that ran it were interrupted.
ExecutedTookEffect ==
  \A i \in DOMAIN proposals :
    proposals[i].status = "executed" => applied[proposals[i].msg] > 0

\* No signer has two entries for one proposal, even when it signs in two
\* commands at once: the account refuses the slots if two have one owner, and
\* the proposal could never be executed.
OneEntryPerSigner ==
  \A i, j \in DOMAIN signatures : i # j => signatures[i] # signatures[j]

\* Violated.  "appends it to pending-signatures.json": a signature stays in the
\* file until its operation took effect or all is cleaned.
SignaturesAreKept ==
  [][\A e \in ToSet(signatures) :
       \/ e \in ToSet(signatures')
       \/ multisig' = NoMultisig
       \/ applied'[e.sig[2]] > 0]_storeVars
=============================================================================
