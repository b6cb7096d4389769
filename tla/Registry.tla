------------------------------ MODULE Registry ------------------------------
(***************************************************************************)
(* The CLI's registries: the commands create-signer, create-multisig,       *)
(* use-signer, use-multisig and clean of cli/index.ts over signers.json,    *)
(* multisigs.json, arbitrum-proxies.json and global-state.json, and what they *)
(* deploy on Aztec and Arbitrum.  Which contracts a signer's PXE store knows is *)
(* left out: these commands only add to it.                                 *)
(*                                                                         *)
(* Commands are processes that may run at the same time and may end         *)
(* anywhere.  What a command does between two awaits is one step; the        *)
(* instant between the synchronous read and write of a save is part of it.   *)
(* An account, a contract or a proxy is named by a number, in the order of   *)
(* deployment.  The exchange of the shared account is the one of             *)
(* SharedStateExchange: it hands the keys to all or throws.                 *)
(***************************************************************************)
EXTENDS Integers, FiniteSets, SequencesExt

CONSTANTS
  SignerName, MultisigName,
  NoName,           \* global-state.json names nobody
  SignerList,       \* the lists of names that create-multisig is called with
  MaxSigners,       \* ACCOUNT_MAX_SIGNERS
  Command,          \* processes of the CLI
  Idle,             \* the process runs no command
  MaxDeployments,   \* bound: how many deployments there can be
  Founding          \* the signers created before: a sequence of names

ASSUME SignerListAssumption == \A l \in SignerList : l \in Seq(SignerName) /\ l # <<>>
ASSUME FoundingAssumption   == Founding \in Seq(SignerName) /\ IsInjective(Founding)
ASSUME NumbersAssumption    ==
  MaxSigners \in Nat /\ MaxDeployments \in Nat /\ MaxDeployments >= Len(Founding)
ASSUME NoNameAssumption     == NoName \notin SignerName \cup MultisigName

VARIABLES
  signers,     \* signers.json: [name, account]
  multisigs,   \* multisigs.json: [name, address, list, threshold, shared, proxy]
  proxies,     \* arbitrum-proxies.json: [multisig, address]
  current,     \* global-state.json: [signer, multisig]
  deployed,    \* how many deployments there were
  contracts,   \* the accounts deployed: [address, signers, threshold, master]
  emitter,     \* registeredEmitters of each vault, for the one chain used
  exchanged,   \* history: the accounts whose keys every signer was handed
  command      \* what each process is doing

files      == <<signers, multisigs, proxies, current>>
chain      == <<deployed, contracts, emitter>>
regVars    == <<files, chain, exchanged, command>>

Deployment == 1..MaxDeployments
None       == 0

SignerEntry   == [name : SignerName, account : Deployment]
MultisigEntry == [name : MultisigName, address : Deployment, list : SignerList,
                  threshold : 1..MaxSigners, shared : Deployment, proxy : Deployment]
ProxyEntry    == [multisig : MultisigName, address : Deployment]
Contract      == [address : Deployment, signers : SUBSET Deployment,
                  threshold : 1..MaxSigners, master : Deployment]

CreatingSigner   == [step : {"signer"}, name : SignerName, read : Seq(SignerEntry)]
CreatingMultisig ==
  [step : {"shared", "contract", "creator", "exchange", "proxy", "save", "emitter", "others"},
   name : MultisigName, list : SignerList, threshold : 1..MaxSigners,
   accounts : Seq(Deployment), shared : Deployment \cup {None},
   address : Deployment \cup {None}, proxy : Deployment \cup {None}]

ASSUME IdleAssumption == Idle \notin CreatingSigner \cup CreatingMultisig

RegistryTypeOK ==
  /\ signers \in Seq(SignerEntry)
  /\ multisigs \in Seq(MultisigEntry)
  /\ proxies \in Seq(ProxyEntry)
  /\ current \in [signer : SignerName \cup {NoName}, multisig : MultisigName \cup {NoName}]
  /\ deployed \in 0..MaxDeployments
  /\ contracts \subseteq Contract
  /\ emitter \in [Deployment -> Deployment \cup {None}]
  /\ exchanged \subseteq Deployment
  /\ command \in [Command -> CreatingSigner \cup CreatingMultisig \cup {Idle}]

InStep(c, step) == command[c] # Idle /\ command[c].step = step
GoTo(c, step)   == command' = [command EXCEPT ![c].step = step]

\* signers.find(s => s.name === name)
HasSigner(file, name) == \E i \in DOMAIN file : file[i].name = name
AccountOf(file, name) ==
  file[CHOOSE i \in DOMAIN file : /\ file[i].name = name
                                  /\ \A j \in 1..i-1 : file[j].name # name].account

RegistryInit ==
  /\ signers = [i \in DOMAIN Founding |-> [name |-> Founding[i], account |-> i]]
  /\ multisigs = <<>>
  /\ proxies = <<>>
  /\ current = [signer |-> NoName, multisig |-> NoName]
  /\ deployed = Len(Founding)
  /\ contracts = {}
  /\ emitter = [d \in Deployment |-> None]
  /\ exchanged = {}
  /\ command = [c \in Command |-> Idle]

-----------------------------------------------------------------------------
(* create-signer *)

\* createSigner up to the deployment of the account.
StartSigner(c, name) ==
  /\ command[c] = Idle
  /\ ~HasSigner(signers, name)
  /\ command' = [command EXCEPT ![c] = [step |-> "signer", name |-> name, read |-> signers]]
  /\ UNCHANGED <<files, chain, exchanged>>

ListReadAgain(c) == signers   \* (mutant)
ListRead(c)      == command[c].read

\* ... and from there: the list that was read before goes back into the file.
FinishSigner(c) ==
  /\ InStep(c, "signer")
  /\ deployed < MaxDeployments
  /\ deployed' = deployed + 1
  /\ signers' = Append(ListRead(c), [name |-> command[c].name, account |-> deployed + 1])
  /\ command' = [command EXCEPT ![c] = Idle]
  /\ UNCHANGED <<multisigs, proxies, current, contracts, emitter, exchanged>>

-----------------------------------------------------------------------------
(* create-multisig *)

Names(list) == {list[i] : i \in DOMAIN list}

\* The checks of the command and of createMultisig; the signers' entries are
\* read here.
StartMultisig(c, name, list, threshold) ==
  /\ command[c] = Idle
  /\ threshold >= 1
  /\ threshold <= Len(list)
  /\ \A s \in Names(list) : HasSigner(signers, s)
  /\ current.signer \in Names(list)
  /\ command' = [command EXCEPT ![c] =
       [step |-> "shared", name |-> name, list |-> list, threshold |-> threshold,
        accounts |-> [i \in DOMAIN list |-> AccountOf(signers, list[i])],
        shared |-> None, address |-> None, proxy |-> None]]
  /\ UNCHANGED <<files, chain, exchanged>>

\* createSigner of tests/utils/signer.ts: an account for the shared state.
DeployShared(c) ==
  /\ InStep(c, "shared")
  /\ deployed < MaxDeployments
  /\ deployed' = deployed + 1
  /\ command' = [command EXCEPT ![c].shared = deployed + 1, ![c].step = "contract"]
  /\ UNCHANGED <<files, contracts, emitter, exchanged>>

\* assert_valid_initialization
ValidInitialization(accounts, threshold) ==
  /\ Len(accounts) <= MaxSigners
  /\ Len(accounts) >= threshold
  /\ IsInjective(accounts)

DeployContract(c) ==
  /\ InStep(c, "contract")
  /\ deployed < MaxDeployments
  /\ ValidInitialization(command[c].accounts, command[c].threshold)
  /\ deployed' = deployed + 1
  /\ contracts' = contracts \cup
       {[address |-> deployed + 1, signers |-> Names(command[c].accounts),
         threshold |-> command[c].threshold, master |-> command[c].shared]}
  /\ command' = [command EXCEPT ![c].address = deployed + 1, ![c].step = "creator"]
  /\ UNCHANGED <<files, emitter, exchanged>>

\* registerContract in the creator's PXE: not allowed to fail.
RegisterAtCreator(c) ==
  /\ InStep(c, "creator")
  /\ GoTo(c, "exchange")
  /\ UNCHANGED <<files, chain, exchanged>>

WarnIfNotHanded(c) == UNCHANGED exchanged   \* (mutant: the error is caught)
Handed(c)          == exchanged' = exchanged \cup {command[c].address}

\* exchangeSharedStateViaWebRTC returns, or there is nobody else; when it throws
\* the command ends (Abort).
Exchange(c) ==
  /\ InStep(c, "exchange")
  /\ Handed(c)
  /\ GoTo(c, "proxy")
  /\ UNCHANGED <<files, chain>>

\* deployArbitrumProxy
DeployProxy(c) ==
  /\ InStep(c, "proxy")
  /\ deployed < MaxDeployments
  /\ deployed' = deployed + 1
  /\ proxies' = Append(proxies, [multisig |-> command[c].name, address |-> deployed + 1])
  /\ command' = [command EXCEPT ![c].proxy = deployed + 1, ![c].step = "save"]
  /\ UNCHANGED <<signers, multisigs, current, contracts, emitter, exchanged>>

\* (for the mutant: looked up by name again, as getArbitrumProxy does)
ProxyNamed(c) ==
  LET named == SelectSeq(proxies, LAMBDA p : p.multisig = command[c].name)
  IN  IF named = <<>> THEN command[c].proxy ELSE Head(named).address

NotLookedUp(c) == None   \* (mutant)
ProxyOf(c) == command[c].proxy

Entry(c) ==
  [name |-> command[c].name, address |-> command[c].address, list |-> command[c].list,
   threshold |-> command[c].threshold, shared |-> command[c].shared, proxy |-> ProxyOf(c)]

\* saveMultisig: by address, in the file as it is now.
Saved(file, entry) ==
  IF \E i \in DOMAIN file : file[i].address = entry.address
    THEN [i \in DOMAIN file |-> IF file[i].address = entry.address THEN entry ELSE file[i]]
    ELSE Append(file, entry)

Save(c) ==
  /\ InStep(c, "save")
  /\ multisigs' = Saved(multisigs, Entry(c))
  /\ GoTo(c, "emitter")
  /\ UNCHANGED <<signers, proxies, current, chain, exchanged>>

\* registerEmitter of the deployer; a failure is a warning.
RegisterEmitter(c) ==
  /\ InStep(c, "emitter")
  /\ \/ emitter' = [emitter EXCEPT ![command[c].proxy] = command[c].address]
     \/ UNCHANGED emitter
  /\ GoTo(c, "others")
  /\ UNCHANGED <<files, deployed, contracts, exchanged>>

\* The contract in every signer's PXE; each failure is a warning.
RegisterElsewhere(c) ==
  /\ InStep(c, "others")
  /\ command' = [command EXCEPT ![c] = Idle]
  /\ UNCHANGED <<files, chain, exchanged>>

\* An error thrown anywhere, a deployment that fails or whose answer is lost, a
\* process killed: the command ends where it is and nothing is undone.
Abort(c) ==
  /\ command[c] # Idle
  /\ command' = [command EXCEPT ![c] = Idle]
  /\ UNCHANGED <<files, chain, exchanged>>

-----------------------------------------------------------------------------
(* use-signer, use-multisig, clean *)

UseSigner(name) ==
  /\ HasSigner(signers, name)
  /\ current' = [current EXCEPT !.signer = name]
  /\ UNCHANGED <<signers, multisigs, proxies, chain, exchanged, command>>

UseMultisig(name) ==
  /\ \E i \in DOMAIN multisigs : multisigs[i].name = name
  /\ current' = [current EXCEPT !.multisig = name]
  /\ UNCHANGED <<signers, multisigs, proxies, chain, exchanged, command>>

\* Every file; the commands that run go on.
Clean ==
  /\ signers' = <<>>
  /\ multisigs' = <<>>
  /\ proxies' = <<>>
  /\ current' = [signer |-> NoName, multisig |-> NoName]
  /\ UNCHANGED <<chain, exchanged, command>>

RegistryNext ==
  \/ \E c \in Command, name \in SignerName : StartSigner(c, name)
  \/ \E c \in Command, name \in MultisigName, list \in SignerList, threshold \in 0..MaxSigners :
       StartMultisig(c, name, list, threshold)
  \/ \E c \in Command :
       \/ FinishSigner(c)
       \/ DeployShared(c) \/ DeployContract(c) \/ RegisterAtCreator(c) \/ Exchange(c)
       \/ DeployProxy(c) \/ Save(c) \/ RegisterEmitter(c) \/ RegisterElsewhere(c)
       \/ Abort(c)
  \/ \E name \in SignerName : UseSigner(name)
  \/ \E name \in MultisigName : UseMultisig(name)
  \/ Clean

RegistrySpec == RegistryInit /\ [][RegistryNext]_regVars

-----------------------------------------------------------------------------
(* Properties *)

\* No two entries of signers.json have one name, also when two commands create a
\* signer of the same name at once: the list that is written back is the one
\* that the check was made on.
NamesAreUnique ==
  \A i, j \in DOMAIN signers : signers[i].name = signers[j].name => i = j

\* A contract on Aztec is what an entry says.
Backed(e) ==
  \E k \in contracts :
    /\ k.address = e.address
    /\ k.threshold = e.threshold
    /\ k.master = e.shared
    /\ Cardinality(k.signers) = Len(e.list)

\* Whatever failed on the way, an account that multisigs.json lists is complete:
\* it is deployed with the threshold and as many different signers as the entry
\* says, under the shared account of the entry, whose keys all signers were
\* handed.
SavedIsComplete ==
  \A i \in DOMAIN multisigs :
    multisigs[i].address \in exchanged /\ Backed(multisigs[i])

\* No two accounts have one proxy, even of the same name, and the emitter that
\* is registered at an account's proxy is that account.
ProxyIsItsOwn ==
  \A i \in DOMAIN multisigs :
    LET e == multisigs[i] IN
      /\ emitter[e.proxy] \in {None, e.address}
      /\ \A j \in DOMAIN multisigs : multisigs[j].proxy = e.proxy => i = j
=============================================================================
